\* Three clients: one client may come between
\* two others in sock_list, end, and be erased during a broadcast.
CONSTANTS
  Client = {c1, c2, c3}
  MaxInbox = 1
SPECIFICATION FairSpec
CHECK_DEADLOCK FALSE
INVARIANTS
  TypeOK
  SocketsKept
  BroadcastOnce
PROPERTIES
  Served
