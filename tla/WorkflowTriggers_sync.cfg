SPECIFICATION Spec
CONSTANTS
  None = None
  p1 = p1
  p2 = p2
  c1 = c1
  c2 = c2
  Requests = {q1, q2, q3}
  Paths = {p1, p2}
  Taken = {p2}
  Crons = {c1, c2}
  Templates <- SomeTemplates
INVARIANT ScheduleRunsCurrentTemplate
CHECK_DEADLOCK FALSE
