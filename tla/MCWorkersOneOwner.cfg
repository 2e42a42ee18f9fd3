SPECIFICATION Spec
CONSTANTS
  r1 = r1
  r2 = r2
  a1 = a1
  a2 = a2
  o1 = o1
  o2 = o2
  Runs = {r1, r2}
  Assets = {a1}
  Owners = {o1}
  AssetOf <- Shared
  AssetOwner <- OneOwner
  MaxAttempts = 1
  ActiveLimit = 2
  MaxFence = 4
  Pollers = {p1}
  Dispatched = {}
  NoRun = NoRun
  Requests = {"DELETE_ASSET", "CONSENT"}
INVARIANT
  OneDecoderPerOwner
CHECK_DEADLOCK FALSE
