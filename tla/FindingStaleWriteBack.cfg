\* A job of a cancelled request is still running when the client, which has no
\* request open, puts its next artifact under the URI.
CONSTANTS
  r1 = r1
  r2 = r2
  Requests <- TwoRequests
  Scheme = "s3"
  DiskMayFail = FALSE
  MaxVersions = 2
  MaxCrashes = 0
SPECIFICATION Spec
SYMMETRY Interchangeable
INVARIANTS
  PromiseKept
CHECK_DEADLOCK FALSE
