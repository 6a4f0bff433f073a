SPECIFICATION FairSpec
CONSTANTS
  Deadline = 5
  RetryInterval = 2
  MaxDelay = 1
  ErrorCodes = {TRUE, FALSE}
INVARIANTS
  DeadlineIsKept
  EveryRetryIsRecorded
  OnlyLocksAreRetried
PROPERTY EveryReadEnds
