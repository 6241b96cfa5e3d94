SPECIFICATION Spec
CHECK_DEADLOCK FALSE
SYMMETRY Symmetric
CONSTANTS
  Users = {root, user}
  Root = root
  Nicknames = {n1, n2}
  Calls = {k1, k2}
  NoRow = NoRow
  Idle = Idle
  Miss = Miss
  Watched = {root, user, "internal"}
  MaxCalls = 4
  MaxFaults = 1
  MaxIds = 2
  MaxPosters = 1
INVARIANTS TypeOK AnswersKept StaleListsExplained NothingDangles
