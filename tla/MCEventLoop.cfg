\* Two requests, keys in s3, one crash; aws and tar end, tools may hang.
CONSTANTS
  r1 = r1
  r2 = r2
  Nobody = Nobody
  Requests <- TwoRequests
  Endpoints <- LoopEndpoints
  Scheme = "s3"
  Workers = 1
  MaxCrashes = 1
SPECIFICATION LiveLoopSpec
INVARIANTS
  RepackUndisturbed
PROPERTIES
  IsServer
  KeepsServing
  EveryRequestEnds
  QueueDrains
  KeysGoAway
CHECK_DEADLOCK FALSE
