CONSTANTS
  Sender = {s1}
  Receiver = {r1}
  Poller = {}
  Header = 2
  MaxSize = 1
  MaxMessages = 2
  Capacity = 4
SPECIFICATION FairSpec
PROPERTIES
  AllMessagesDelivered
CHECK_DEADLOCK FALSE
