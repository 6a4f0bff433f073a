SPECIFICATION Spec
CONSTANTS
  p1 = p1
  p2 = p2
  m1 = m1
  m2 = m2
  Lasts <- MCLasts
  Items = {m1, m2}
  Pids = {p1, p2}
  AskIds = {0, 1}
  MaxRequests = 2
  Sides <- MCSides
INVARIANTS
  UsageIsExact
  OutputIsAWholeMessage
  ProcessIsAccountedFor
  EveryAskIsRefused
  ClearedRunLeavesNoCommand
PROPERTIES
  AttributesInOrder
  ReadsTheStream
SYMMETRY Symmetry
