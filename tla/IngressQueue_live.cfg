\* Two lanes replayed in turn while callers wait, over a stop, under fairness.
SPECIFICATION FairSpec
CONSTANTS
  c1 = c1  c2 = c2  c3 = c3
  r1 = r1  r2 = r2
  s1 = s1  s2 = s2
  tick = tick  operator = operator
  None = None
  Callers = {c1}
  Records = {r1, r2}
  Sources = {s1, s2}
  LaneOf <- MCTwoLaneOf
  LaneOrder <- MCTwoLaneOrder
  Capacity <- MCOneCapacity
  Replayers = {tick}
  Scheduler = tick
  Poison = {}
  WriteFaults = FALSE
  MaxSpoolFrames = 1
  MaxStops = 1
  MaxFaults = 0
  MaxOutages = 1
PROPERTIES
  ServiceRecovers
  WaiterAnswered
  ReplayBeforeReady
