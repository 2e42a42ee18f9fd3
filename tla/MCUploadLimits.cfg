SPECIFICATION Spec
CONSTANTS
  s1 = s1
  s2 = s2
  s3 = s3
  o1 = o1
  o2 = o2
  Sessions = {s1, s2, s3}
  Owners = {o1, o2}
  OwnerOf <- TwoAndOne
  Workers = {w1}
  Nobody = Nobody
  Provider = "LOCAL"
  UploadSlots = 1
  OwnerAssets = 1
  MaxAttempts = 1
  Requests = {"CRASH"}
INVARIANTS
  LimitsRespected
CHECK_DEADLOCK FALSE
