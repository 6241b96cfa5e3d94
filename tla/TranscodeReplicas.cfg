SPECIFICATION Spec
CHECK_DEADLOCK FALSE
CONSTANTS
  q1 = q1
  q2 = q2
  w1 = w1
  w2 = w2
  c1 = c1
  c2 = c2
  Files = {0}
  Requests = {q1}
  Workers = {w1}
  Consumers = {c1, c2}
  Percents = {}
  Faults = {"duplicated", "connection"}
  MaxFaults = 1
  MaxJobs = 1
  MaxRuns = 2
SYMMETRY Symmetric
INVARIANTS RowClaimed OneRowPerRun
