SPECIFICATION FairSpec
CHECK_DEADLOCK FALSE
CONSTANTS
  parse = parse
  fetch = fetch
  magnet = magnet
  r1 = r1
  r2 = r2
  w1 = w1
  Calls = {parse, fetch}
  Fetches = {fetch}
  Magnets = {magnet}
  Magnet <- MCMagnet
  Replicas = {r1, r2}
  Home <- MCHome
  Workers = {w1}
  Faults = {"send", "lost", "duplicated", "connection", "crash", "redis"}
  MaxFaults = 2
INVARIANTS TypeOK OneChance
PROPERTIES KeepsPromise CallReturns
