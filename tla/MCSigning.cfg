\* Every sign method, keys in a directory or a bucket; loops up to three files.
CONSTANTS
  MaxFiles = 3
  Programs <- MCPrograms
  KeyNames <- MCKeyNames
SPECIFICATION FairSpec
INVARIANTS
  TypeOK
  IInv
  ToolSeesKeys
  ReturnLeavesNoKeys
  ResultMeansEveryToolSucceeded
  KeyInDirectoryIsUsed
PROPERTIES
  KeepsCustody
  IsSignJob
  AnsweredAndKeysGone
CHECK_DEADLOCK FALSE
