CONSTANTS
  Calls = {c1, c2}
  Nobody = Nobody
  MaxRequests = 2
  Platforms = {"posix", "windows"}
SPECIFICATION FairSpec
INVARIANTS
  TurnHasItsOwnTree
  ReturnedIsCaptured
PROPERTIES
  EveryCallReturns
CHECK_DEADLOCK FALSE
