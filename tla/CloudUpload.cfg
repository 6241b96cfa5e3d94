SPECIFICATION Spec
CHECK_DEADLOCK FALSE
CONSTANTS
  Files = {f1}
  NoFile = NoFile
  Objects = {f1}
  ObjectOf <- OwnObject
  Requests = {q1, q2}
  Workers = {w1}
  Consumers = {c1}
  Calls = {"check", "retry", "retryFile", "delete", "force"}
  Faults = {"send", "lost", "connection", "consumer", "database", "redis", "storage"}
  MaxFaults = 1
  MaxRetry = 1
SYMMETRY Symmetric
INVARIANTS TypeOK CompletedIsStored DeletedIsStored SummaryIsStored
