SPECIFICATION Spec
CHECK_DEADLOCK FALSE
CONSTANTS
  Machines = {m1, m2}
  Requests = {q1, q2}
  Kinds = {"start", "pause", "resume", "remove", "stop_seed", "resume_seed"}
  Faults = {"crash", "restart", "send", "event", "connection", "database", "redis", "parse"}
  MaxFaults = 1
  MaxCalls = 3
  MaxCommands = 2
  MaxEvents = 2
  StableIds = TRUE
  NoWorker = NoWorker
SYMMETRY Symmetric
CONSTRAINT Routed
INVARIANTS TypeOK OneRunner OwnerRuns RestAgrees
