SPECIFICATION FairTurnSpec
CONSTANTS
  Usages <- MCUsages
  TotalCosts <- MCTotalCosts
  TaskTokens = 2
  MaxResponses = 2
  MaxBlocks = 2
INVARIANTS
  TypeInvariant
  UsageIsCountedOnce
PROPERTY EveryTurnEnds
