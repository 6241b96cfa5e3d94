SPECIFICATION Spec
CHECK_DEADLOCK FALSE
CONSTANTS
  q1 = q1
  q2 = q2
  w1 = w1
  w2 = w2
  c1 = c1
  c2 = c2
  Files = {0, 1}
  Requests = {q1, q2}
  Workers = {w1}
  Consumers = {c1}
  Percents = {}
  Faults = {"send"}
  MaxFaults = 1
  MaxJobs = 2
  MaxRuns = 1
SYMMETRY Symmetric
INVARIANTS Inductive PendingWasSent CompletedWasEncoded
