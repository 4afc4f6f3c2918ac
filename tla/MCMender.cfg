\* A client that retries, one crash or one new artifact.
CONSTANTS
  r1 = r1
  r2 = r2
  Requests <- TwoRequests
  Scheme = "s3"
  DiskMayFail = FALSE
  MaxVersions = 2
  MaxCrashes = 1
SPECIFICATION MCRetrySpec
INVARIANTS
  IInv
PROPERTIES
  PromiseStands
  KeepsArtifact
  NeverUnsignedAgain
  RetriesGetThere
CHECK_DEADLOCK FALSE
