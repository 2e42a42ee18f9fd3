SPECIFICATION FairSpec
CONSTANTS
  r1 = r1
  r2 = r2
  a1 = a1
  a2 = a2
  o1 = o1
  o2 = o2
  Runs = {r1}
  Assets = {a1}
  Owners = {o1}
  AssetOf <- One
  AssetOwner <- OneOwner
  MaxAttempts = 2
  ActiveLimit = 1
  MaxFence = 6
  Pollers = {p1}
  Dispatched = {d1}
  NoRun = NoRun
  Requests = {"CANCEL", "DELETE_ASSET", "DELETE_ACCOUNT", "CONSENT", "RETENTION"}
INVARIANTS
  WorkersInv
  DecoderHasSlot
  OneProcessPerAttempt
  BudgetHeldUntilStopped
  RecordsSound
PROPERTIES
  CancellationIsFinal
  EveryRunEnds
CHECK_DEADLOCK FALSE
