SPECIFICATION Spec
CONSTANTS
  Lasts <- MCLasts
  MalformedRaws <- MCMalformedRaws
  MaxRequests = 4
  MayReset = TRUE
INVARIANTS
  AcceptedIsServedPrefix
  AcceptedTotalsAddUp
  InOrderDeliveryNeverFails
PROPERTY AttributesInOrder
CHECK_DEADLOCK FALSE
