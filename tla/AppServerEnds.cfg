SPECIFICATION FairSpec
CONSTANTS
  p1 = p1
  p2 = p2
  m1 = m1
  m2 = m2
  Lasts <- MCLast
  Items = {}
  Pids = {p1}
  AskIds = {2}
  MaxRequests = 1
  Sides <- MCMixed
PROPERTY EveryRunEnds
