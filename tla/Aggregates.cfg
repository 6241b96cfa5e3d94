SPECIFICATION Spec
CHECK_DEADLOCK FALSE
SYMMETRY Symmetric
CONSTANTS
  Clients = {c1, c2}
  Files = {f1, f2, original}
  OriginalFiles = {f1, f2, original}
  Videos = {f1, f2}
  None = None
  MaxCalls = 3
INVARIANTS TypeOK SummariesAgree
PROPERTY LivesForwards
