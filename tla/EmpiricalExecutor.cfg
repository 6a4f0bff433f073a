SPECIFICATION Spec
CONSTANTS
  r1 = r1
  r2 = r2
  r3 = r3
  n1 = n1
  n2 = n2
  Runs = {r1, r2, r3}
  Names = {n1, n2}
  CaptureName <- MixedNames
  Flaws = {"secret", "lifecycle"}
  Proving = {r1, r3}
  MayCrash = TRUE
INVARIANTS
  AcceptedTurnHasItsCapture
  OnlyFitTurnsReachTheDisk
  AcceptedTurnLeftNoCommand
