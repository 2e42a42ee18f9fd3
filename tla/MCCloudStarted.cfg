SPECIFICATION Spec
CONSTANTS
  r1 = r1
  a1 = a1
  o1 = o1
  Runs = {r1}
  Assets = {a1}
  Owners = {o1}
  AssetOf <- One
  AssetOwner <- OneOwner
  MaxAttempts = 2
  ActiveLimit = 1
  MaxFence = 6
  MaxTries = 1
  Relays = {d1}
  Handlers = {h1, h2}
  NoRun = NoRun
  Requests = {"CANCEL"}
PROPERTY
  NeverRegressStarted
CHECK_DEADLOCK FALSE
