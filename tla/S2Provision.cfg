CONSTANTS
  p1 = p1
  p2 = p2
  Provisioners = {p1, p2}
  TaskIds <- MCTaskIds
  Content <- MCContent
  Registrations <- MCRegistrations
  Paths <- MCPaths
  Created <- MCCreated
  Edited = {"old"}
  Garbage = "garbage"
SPECIFICATION Spec
SYMMETRY Symmetry
INVARIANTS
  TypeOK
  ReturnedIsProvisioned
  SettledIsNotRefused
PROPERTIES
  VerifiesUntilReregistered
  FreshHoldsOnlyThePatch
  WorkIsNeverLost
