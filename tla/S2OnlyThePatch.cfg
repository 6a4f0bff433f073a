CONSTANTS
  p1 = p1
  p2 = p2
  Provisioners = {p1}
  TaskIds <- MCTaskIds
  Content <- MCContent
  Registrations <- MCRegistrations
  Paths <- MCPaths
  Created <- MCCreated
  Edited = {"other"}
  Garbage = "garbage"
SPECIFICATION Spec
INVARIANT EvaluatorHoldsOnlyThePatch
