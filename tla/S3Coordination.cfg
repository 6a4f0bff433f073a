SPECIFICATION FairSpec
CONSTANTS
  p = p
  q = q
  n1 = n1
  n2 = n2
  Names = {n1, n2}
  CaptureName <- OwnNames
  Flaws = {}
  Proving = {"worker-a", "worker-b"}
  Paths = {p, q}
  Contents = {"edited"}
  Scope <- OwnScopes
INVARIANTS
  ResultIsOfBothWorkers
  WorkspaceOutlivesWorkers
  ScoredEditsAreFinal
  ScoreIsOfTheEdits
PROPERTY EveryCaseEnds
