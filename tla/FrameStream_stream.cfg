CONSTANTS
  Sender = {s1, s2}
  Receiver = {r1, r2}
  Poller = {r1}
  Header = 2
  MaxSize = 2
  MaxMessages = 2
  Capacity = 4
SPECIFICATION FairSpec
INVARIANTS
  TypeOK
  FramesIntact
  FewLate
  GivenUpForCause
PROPERTIES
  EventuallyDelivered
CHECK_DEADLOCK FALSE
