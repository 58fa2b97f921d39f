CONSTANTS
  Caller = {c1}
  MaxCalls = 5
SPECIFICATION Spec
PROPERTIES
  ImplementsOrderedDelivery
  AtMostOneBehind
CHECK_DEADLOCK FALSE
