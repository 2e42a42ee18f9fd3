\* Every component of MCDomain, with crashes, lost answers and lost leases.
SPECIFICATION Spec
CONSTANTS
  Focus = {"accounts", "devices", "history", "practice", "reported", "retention",
           "definitions", "studies", "detectors", "places"}
  Browsers = {b1}
  Addresses = {a, b}
  FirstAddress = a
  MaxPassword = 2
  MaxEpoch = 1
  MaxMails = 3
  Baseline = {before}
  Practised = {drilled}
  FollowUp = {later}
  Retained = {after}
  Assignments = {1, 2}
  Planned = {1}
  Reprocessed = {drilled, later}
  TroubledCaptures = {drilled, later}
  MaxReports = 1
  MaxEntries = 1
  Workers = {w1, w2}
  Devices = {d1, d2}
  Troubled = {d1}
  Chunks = 1
  MaxFailures = 2
  LastPage = 2
  Recorded = {1}
  MaxVersion = 2
  MaxAttempts = 2
  MaxFence = 3
  MaxLinks = 2
  MaxRuns = 2
  Studies = {1, 2}
  Linkings = {{1}, {1, 2}}
  Expiry <- ExpiryOf
  Original = 1
  Reviewed = {1}
  MaxTime = 1
  Versions = {1, 2}
  Manager = "m"
  ReviewersOf <- TwoReviewers
  Leaving = {"m", "t"}
  Suspended = {"r"}
  Inputs = {i1, i2}
  MaxReceipts = 2
  Keys = {"base", "old", "new", "map"}
  DependsOn <- Dependencies
  Below <- Rests
  Mapping = "map"
  From = "old"
  To = "new"
  Assets = {"x", "v"}
  Sources <- Evidence
  Gameplay = "v"
  Panel = {"author", "r1", "r2"}
  Author = "author"
  Debated = {"base"}
  Resigning = {"author", "r2"}
  Disabled = {"r1"}
  Reanalyses = {1}
  Uploads = {1, 2}
  OwnerOf <- TwoOwners
  MaxUpload = 2
  OwnerStorage = 2
  GlobalStorage = 3
  UploadSlots = 2
  OwnerPending = 1
  GlobalPending = 2
  AttemptSeconds = 1
  Tries = 2
  OwnerSeconds = 2
  GlobalSeconds = 3
  Overrun = 1
  MaxDay = 1
SYMMETRY Symmetry
INVARIANTS
  AccountsSound
  CompanionSound
  MatchesSound
  PracticeSound
  ReportsSound
  KnowledgeSound
  StudiesSound
  RetentionReturns
  AdmissionsSound
PROPERTIES
  AccountChangesAreProved
  RemovedStaysRemoved
  ImportsAreAuthorized
CHECK_DEADLOCK FALSE
