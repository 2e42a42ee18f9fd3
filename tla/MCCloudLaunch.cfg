SPECIFICATION Spec
CONSTANTS
  r1 = r1
  a1 = a1
  o1 = o1
  Runs = {r1}
  Assets = {a1}
  Owners = {o1}
  AssetOf <- One
  AssetOwner <- OneOwner
  MaxAttempts = 2
  ActiveLimit = 1
  MaxFence = 6
  MaxTries = 2
  Relays = {d1}
  Handlers = {h1, h2}
  NoRun = NoRun
  Requests = {"CANCEL"}
INVARIANTS
  RemoteSound
  OutboxSound
PROPERTIES
  ReceiptLeavesStarted
CHECK_DEADLOCK FALSE
