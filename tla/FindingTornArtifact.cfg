\* Two jobs write the same local file; no disk fails.
CONSTANTS
  r1 = r1
  r2 = r2
  Requests <- TwoRequests
  Scheme = "file"
  DiskMayFail = FALSE
  MaxVersions = 1
  MaxCrashes = 0
SPECIFICATION Spec
SYMMETRY Interchangeable
INVARIANTS
  RestsWhole
CHECK_DEADLOCK FALSE
