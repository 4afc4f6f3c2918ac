\* README.md: the server never retains key files after an operation.
CONSTANTS
  r1 = r1
  r2 = r2
  Requests <- TwoRequests
  Endpoints <- ImxOnly
  Workers = 1
  MaxCrashes = 0
SPECIFICATION Spec
INVARIANT NoUnpackedKeysRetained
CHECK_DEADLOCK FALSE
