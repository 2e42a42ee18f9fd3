SPECIFICATION FairSpec
CONSTANTS
  r1 = r1
  r2 = r2
  a1 = a1
  a2 = a2
  o1 = o1
  o2 = o2
  Runs = {r1, r2}
  Assets = {a1, a2}
  Owners = {o1, o2}
  AssetOf <- OneEach
  AssetOwner <- TwoOwners
  MaxAttempts = 1
  ActiveLimit = 1
  MaxFence = 4
  Pollers = {p1, p2}
  Dispatched = {}
  NoRun = NoRun
  Requests = {"CANCEL"}
INVARIANT
  PhysicalCap
PROPERTY
  ImplementsFencedExecution
  EveryRunEnds
CHECK_DEADLOCK FALSE
