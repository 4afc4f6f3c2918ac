\* Three applications with every combination of names and versions.
CONSTANTS
  Apps = {a1, a2, a3}
  Suffixes <- KnownSuffixes
  Limit = 2
SPECIFICATION Spec
INVARIANTS
  VersionsAreTheirOwn
  SignedThroughout
CHECK_DEADLOCK FALSE
