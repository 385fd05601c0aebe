SPECIFICATION FairSpec
CONSTANTS
  MaxRetries = 2
  QueueCap = 2
  MaxVersion = 3
  MaxFailures = 2
INVARIANTS
  TypeOK
PROPERTIES
  ImplementsRulePush
  FlushIsTruthful
  EveryChangeIsTried
  FlushReturns
  FailureIsRetried
CHECK_DEADLOCK FALSE
