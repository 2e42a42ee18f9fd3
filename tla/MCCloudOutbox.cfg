SPECIFICATION FairSpec
CONSTANTS
  r1 = r1
  a1 = a1
  o1 = o1
  Runs = {r1}
  Assets = {a1}
  Owners = {o1}
  AssetOf <- One
  AssetOwner <- OneOwner
  MaxAttempts = 1
  ActiveLimit = 1
  MaxFence = 4
  MaxTries = 2
  Relays = {d1}
  Handlers = {h1, h2}
  NoRun = NoRun
  Requests = {"CANCEL"}
PROPERTIES
  EveryRunEndsOrIsFlagged
CHECK_DEADLOCK FALSE
