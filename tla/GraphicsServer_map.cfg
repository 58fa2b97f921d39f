CONSTANTS
  Content <- MapContent
  MaxTrans = 2
SPECIFICATION Spec
INVARIANTS
  MapWithGivenData
CHECK_DEADLOCK FALSE
