\* One lane shared by two callers and two records; a crash or shutdown, a
\* failing file operation and an outage; replay by the scheduler and an operator.
SPECIFICATION Spec
CONSTANTS
  c1 = c1  c2 = c2  c3 = c3
  r1 = r1  r2 = r2
  s1 = s1  s2 = s2
  tick = tick  operator = operator
  None = None
  Callers = {c1, c2}
  Records = {r1, r2}
  Sources = {s1}
  LaneOf <- MCOneLaneOf
  LaneOrder <- MCOneLaneOrder
  Capacity <- MCOneCapacity
  Replayers = {tick, operator}
  Scheduler = tick
  Poison = {}
  WriteFaults = FALSE
  MaxSpoolFrames = 2
  MaxStops = 1
  MaxFaults = 1
  MaxOutages = 1
SYMMETRY MCSymmetry
INVARIANTS
  TypeOK
  AckedRetained
  ServingFramesWhole
  QueueAccounted
PROPERTIES
  ImplementsHandoff
