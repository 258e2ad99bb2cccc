\* A write that fails after a prefix, followed by a successful append.
SPECIFICATION Spec
CONSTANTS
  c1 = c1  c2 = c2  c3 = c3
  r1 = r1  r2 = r2
  s1 = s1  s2 = s2
  tick = tick  operator = operator
  None = None
  Callers = {c1}
  Records = {r1}
  Sources = {s1}
  LaneOf <- MCOneLaneOf
  LaneOrder <- MCOneLaneOrder
  Capacity <- MCOneCapacity
  Replayers = {tick}
  Scheduler = tick
  Poison = {}
  WriteFaults = TRUE
  MaxSpoolFrames = 2
  MaxStops = 0
  MaxFaults = 1
  MaxOutages = 2
INVARIANTS
  AckedRetained
