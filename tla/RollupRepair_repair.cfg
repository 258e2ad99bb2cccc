SPECIFICATION Spec
CONSTANTS
  f1 = f1
  f2 = f2
  f3 = f3
  h1 = h1
  h2 = h2
  d1 = d1
  m1 = m1
  w1 = w1
  w2 = w2
  p1 = p1
  p2 = p2
  pr = pr
  None = None
  Facts = {f1, f2}
  Keys = {h1, d1}
  Months = {m1}
  HourOf <- MCHourOf
  DayOf <- MCDayOf
  MonthOf <- MCMonthOf
  Unresolved = {}
  Writers = {w1, w2}
  Workers = {p1}
  Probe = pr
  ProbeFacts = {f1}
  ProbeKeys = {h1, d1}
  BatchLimit = 2
  MaxFailures = 1
  MaxDrops = 1
SYMMETRY MCSymmetry
INVARIANT TypeOK
INVARIANT Accounted
INVARIANT NoWaitCycle
PROPERTY PublishedFactsStay
