\* Two requests to any pair of routes, one worker, one crash.
CONSTANTS
  r1 = r1
  r2 = r2
  Requests <- TwoRequests
  Endpoints <- AllEndpoints
  Workers = 1
  MaxCrashes = 1
SPECIFICATION Spec
SYMMETRY Interchangeable
INVARIANTS
  TypeOK
  LeftoversAccounted
  KeysHaveAnOwner
  QueueIsPendingJobs
  HandlerAndJob
  SecretsGoWithTheAnswer
PROPERTIES
  NoJobStartsAfterTheEnd
  AnswersHonestly
  JobsAreSigning
CHECK_DEADLOCK FALSE
