\* doc/tegrasign.md: sbk.txt is used when it is there.
CONSTANTS
  MaxFiles = 1
  Programs <- MCPrograms
  KeyNames <- MCKeyNames
SPECIFICATION Spec
INVARIANT KeyInStoreIsUsed
CHECK_DEADLOCK FALSE
