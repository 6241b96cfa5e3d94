SPECIFICATION Spec
CHECK_DEADLOCK FALSE
CONSTANTS
  Messages = {m1, m2}
  Consumers = {c1, c2}
  Nobody = Nobody
  MaxFaults = 2
  BufSize = 1
  Files = 2
  MaxNotes = 1
  MaxFinished = 2
  MaxCommands = 3
INVARIANTS TypeOK NothingLost StallsInOneWay
PROPERTIES KeepsPromise QueueDrains
