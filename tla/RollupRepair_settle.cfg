SPECIFICATION FairSpec
CONSTANTS
  f1 = f1
  f2 = f2
  f3 = f3
  h1 = h1
  h2 = h2
  d1 = d1
  m1 = m1
  w1 = w1
  w2 = w2
  p1 = p1
  p2 = p2
  pr = pr
  None = None
  Facts = {f1, f2}
  Keys = {h1, d1}
  Months = {m1}
  HourOf <- MCHourOf
  DayOf <- MCDayOf
  MonthOf <- MCMonthOf
  Unresolved = {}
  Writers = {w1}
  Workers = {p1}
  Probe = pr
  ProbeFacts = {}
  ProbeKeys = {h1, d1}
  BatchLimit = 1
  MaxFailures = 1
  MaxDrops = 0
PROPERTY RepairsHappen
