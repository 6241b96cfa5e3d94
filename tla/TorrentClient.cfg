SPECIFICATION FairSpec
CHECK_DEADLOCK FALSE
CONSTANTS
  Handles = {h1, h2, h3, h4}
  Mutexes = {k1, k2, k3}
  Nil = Nil
  MaxRestoring = 1
INVARIANTS TypeOK Exclusive EntryIsLive NoStray
PROPERTY OperationsEnd
