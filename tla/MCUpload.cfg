SPECIFICATION FairSpec
CONSTANTS
  s1 = s1
  s2 = s2
  s3 = s3
  o1 = o1
  o2 = o2
  Sessions = {s1}
  Owners = {o1}
  OwnerOf <- One
  Workers = {w1, w2}
  Nobody = Nobody
  Provider = "GCS"
  UploadSlots = 1
  OwnerAssets = 1
  MaxAttempts = 2
  Requests = {"CANCEL", "DELETE", "ACCOUNT", "WITHDRAW", "CRASH"}
INVARIANT
  EvidenceSound
PROPERTY
  EvidenceOutlivesVerifiers
  SessionSettles
  ErasureCompletes
CHECK_DEADLOCK FALSE
