SPECIFICATION Spec
CHECK_DEADLOCK FALSE
CONSTANTS
  Files = {f1, f2}
  NoFile = NoFile
  Objects = {o1}
  ObjectOf <- OneObject
  Requests = {q1, q2}
  Workers = {w1}
  Consumers = {c1}
  Calls = {"check", "delete"}
  Faults = {}
  MaxFaults = 0
  MaxRetry = 0
SYMMETRY Symmetric
INVARIANT DeletedIsStored
