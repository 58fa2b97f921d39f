CONSTANTS
  Caller = {c1, c2}
  MaxCalls = 4
SPECIFICATION FairSpec
INVARIANTS
  TypeOK
  OneThreadEach
  SentInOrder
  InOnePlace
  DroppedForNewer
PROPERTIES
  EventuallySettled
CHECK_DEADLOCK FALSE
