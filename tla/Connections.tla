----------------------------- MODULE Connections -----------------------------
(***************************************************************************)
(* A server's connections (simpleprotorpc/rpc.cpp): one thread calls       *)
(* PollMessage, which accepts clients, serves them and gives them up, and  *)
(* another calls SendMessage, which sends to every client listed.  Both    *)
(* use sock_list; only SendMessage holds sending_mutex while it does.      *)
(*                                                                         *)
(* A message has a begin, its header with a part of what follows, and a    *)
(* rest; its bytes are the subject of FrameStream.  The clients may send,  *)
(* and the server may broadcast, for ever.                                 *)
(***************************************************************************)
EXTENDS Integers, SequencesExt

CONSTANTS
  Client,     \* the clients, one connection each
  MaxInbox    \* how many messages of a client a socket buffers

ASSUME BoundsAssumption == MaxInbox \in Nat

\* Descriptors are ints: a server has no more than finitely many clients.
ASSUME ClientAssumption == IsFiniteSet(Client)

VARIABLES
  process,       \* "running", or "killed" by a signal or undefined behaviour
  client,        \* what each client did last: "new", "connected", "sending" when
                 \* it sent the begin of a message, "cut" when it sent a part
                 \* of a header by itself, or "closed"
  listen_queue,  \* connections that wait for accept()
  inbox,         \* how many whole messages of each client wait to be received
  sock_list,     \* the sockets listed, each known by its client
  reading,       \* the socket, if any, whose payload PollMessage is receiving
  fd,            \* the descriptor of each socket; 0 before accept()
  max_fd,        \* the highest descriptor; server_sock is 1
  sending,       \* does a SendMessage run?
  it,            \* its iterator, as a position
  listed,        \* the sockets listed when the last SendMessage began
  got,           \* how many times it sent its message to each of them
  outcome        \* "whole"; "torn" when a socket was erased meanwhile; "threw"

clientVars == <<client, listen_queue>>
sockVars == <<sock_list, fd, max_fd>>
castVars == <<sending, it, listed, got, outcome>>
vars == <<process, clientVars, inbox, reading, sockVars, castVars>>

\* TypeOK: the sets the variables range over; the socket being read is listed, a
\* descriptor is never beyond the number of clients, and nobody is sent a message
\* more often than sockets were accepted, wherever the iterator is.
TypeOK ==
  /\ process \in {"running", "killed"}
  /\ client \in [Client -> {"new", "connected", "sending", "cut", "closed"}]
  /\ listen_queue \in Seq(Client) /\ sock_list \in Seq(Client)
  /\ inbox \in [Client -> 0 .. MaxInbox]
  /\ reading \subseteq ToSet(sock_list) /\ \A c, d \in reading : c = d
  /\ fd \in [Client -> 0 .. Cardinality(Client) + 1]
  /\ max_fd \in 1 .. Cardinality(Client) + 1
  /\ sending \in BOOLEAN
  /\ it \in 1 - Cardinality(Client) .. Cardinality(Client) + 1
  /\ listed \subseteq Client
  /\ got \in [Client -> 0 .. Cardinality(Client)]
  /\ outcome \in {"whole", "torn", "threw"}

Init ==
  /\ process = "running"
  /\ client = [c \in Client |-> "new"]
  /\ listen_queue = << >>
  /\ inbox = [c \in Client |-> 0]
  /\ reading = {}
  /\ sock_list = << >>
  /\ fd = [c \in Client |-> 0]
  /\ max_fd = 1
  /\ sending = FALSE
  /\ it = 1
  /\ listed = {}
  /\ got = [c \in Client |-> 0]
  /\ outcome = "whole"

-----------------------------------------------------------------------------
(***************************************************************************)
(* The clients.                                                            *)
(***************************************************************************)
Connect(c) ==
  /\ client[c] = "new"
  /\ client' = [client EXCEPT ![c] = "connected"]
  /\ listen_queue' = Append(listen_queue, c)
  /\ UNCHANGED <<process, inbox, reading, sockVars, castVars>>

ClientBegins(c) ==
  /\ client[c] = "connected"
  /\ inbox[c] < MaxInbox
  /\ client' = [client EXCEPT ![c] = "sending"]
  /\ UNCHANGED <<process, listen_queue, inbox, reading, sockVars, castVars>>

ClientFinishes(c) ==
  /\ client[c] = "sending"
  /\ client' = [client EXCEPT ![c] = "connected"]
  /\ inbox' = [inbox EXCEPT ![c] = @ + 1]
  /\ UNCHANGED <<process, listen_queue, reading, sockVars, castVars>>

\* Only a part of a message's four byte header arrives; or the client goes, be it
\* in the middle of a message.
ClientEnds(c) ==
  /\ \/ client[c] = "connected" /\ client' = [client EXCEPT ![c] = "cut"]
     \/ /\ client[c] \in {"connected", "sending", "cut"}
        /\ client' = [client EXCEPT ![c] = "closed"]
  /\ UNCHANGED <<process, listen_queue, inbox, reading, sockVars, castVars>>

Ended(c) == client[c] \in {"cut", "closed"}

-----------------------------------------------------------------------------
(***************************************************************************)
(* PollMessage: after an accepted or a given up connection it starts over. *)
(* A call that finds nothing and does not wait returns NULL and changes    *)
(* nothing.                                                                *)
(***************************************************************************)
\* What select() reports of the sockets up to max_fd: a message, were it only
\* begun, or the end.
Readable(c) == fd[c] <= max_fd /\ (inbox[c] > 0 \/ client[c] = "sending" \/ Ended(c))

\* The place of the first socket it reports, if it reports one.
FirstReady ==
  {k \in DOMAIN sock_list :
     Readable(sock_list[k]) /\ \A j \in 1 .. k - 1 : ~Readable(sock_list[j])}

\* Mutated Listed: push_front.
ListedFirst(c) == <<c>> \o sock_list
Listed(c) == Append(sock_list, c)

\* Mutated Highest: select's count, one more than the bound; the bound left alone.
CountOf(new_fd) == IF new_fd >= max_fd THEN new_fd + 1 ELSE max_fd
Unraised(new_fd) == max_fd
Highest(new_fd) == IF new_fd > max_fd THEN new_fd ELSE max_fd

\* A connection comes before any message.  No descriptor is ever closed: the
\* next one is new.
Accept ==
  /\ reading = {}
  /\ listen_queue # << >>
  /\ LET c == Head(listen_queue)
         new_fd == 2 + Cardinality({d \in Client : fd[d] # 0})
     IN /\ fd' = [fd EXCEPT ![c] = new_fd]
        /\ max_fd' = Highest(new_fd)
        /\ sock_list' = Listed(c)
  /\ listen_queue' = Tail(listen_queue)
  /\ UNCHANGED <<process, client, inbox, reading, castVars>>

\* The socket PollMessage is at: the one it is receiving from, or else, when no
\* connection waits, the first one that is ready.
Current ==
  IF reading # {} THEN reading
  ELSE IF listen_queue # << >> THEN {} ELSE {sock_list[k] : k \in FirstReady}

\* The first ready socket has a header.  From now on PollMessage waits for the
\* rest of this message and for nothing else.
RecvHeader ==
  /\ reading = {}
  /\ \E c \in Current :
       /\ inbox[c] > 0 \/ client[c] = "sending"
       /\ reading' = {c}
  /\ UNCHANGED <<process, clientVars, inbox, sockVars, castVars>>

\* The message is there to its end: it is returned.
RecvPayload ==
  /\ \E c \in reading :
       /\ inbox[c] > 0
       /\ inbox' = [inbox EXCEPT ![c] = @ - 1]
  /\ reading' = {}
  /\ UNCHANGED <<process, clientVars, sockVars, castVars>>

Place(c) == SelectInSeq(sock_list, LAMBDA d : d = c)

\* Mutated Erased: the front is erased, whichever socket that is.
ErasedFront(c) == Tail(sock_list)
Erased(c) == RemoveAt(sock_list, Place(c))

\* The current socket has ended, in a header or in a payload: it is erased, and not
\* closed.  The sockets on the shorter side of the gap move up to it, and an
\* iterator that SendMessage holds stays at its place in memory.
GiveUp ==
  /\ \E c \in Current :
       /\ Ended(c) /\ inbox[c] = 0
       /\ sock_list' = Erased(c)
       /\ IF ~sending THEN UNCHANGED castVars
          ELSE /\ it' = IF Place(c) <= Len(sock_list) \div 2 THEN it - 1 ELSE it
               /\ outcome' = "torn"
               /\ UNCHANGED <<sending, listed, got>>
  /\ reading' = {}
  /\ UNCHANGED <<process, clientVars, inbox, fd, max_fd>>

PollMessage == Accept \/ RecvHeader \/ RecvPayload \/ GiveUp

-----------------------------------------------------------------------------
(***************************************************************************)
(* SendMessage, with sending_mutex held from its first step to its last.   *)
(***************************************************************************)
StartSend ==
  /\ ~sending
  /\ sending' = TRUE
  /\ it' = 1
  /\ listed' = ToSet(sock_list)
  /\ got' = [c \in Client |-> 0]
  /\ outcome' = "whole"
  /\ UNCHANGED <<process, clientVars, inbox, reading, sockVars>>

\* The socket to send to next; a place before the first one holds an old one.
At ==
  IF it \in DOMAIN sock_list THEN {sock_list[it]}
  ELSE {c \in Client : sending /\ it < 1 /\ fd[c] # 0}

\* What is sent is buffered, even that to a client that has just closed.
SendOne ==
  /\ sending
  /\ \E c \in At : got' = [got EXCEPT ![c] = @ + 1]
  /\ it' = it + 1
  /\ UNCHANGED <<process, clientVars, inbox, reading, sockVars, sending, listed, outcome>>

\* A send to a client that has closed may also fail: the call throws...
SendThrows ==
  /\ sending
  /\ \E c \in At : client[c] = "closed"
  /\ sending' = FALSE
  /\ outcome' = "threw"
  /\ UNCHANGED <<process, clientVars, inbox, reading, sockVars, it, listed, got>>

\* ...or raises SIGPIPE, which nobody handles.  And an iterator beyond the end
\* runs on into memory that is not the list's.
SendKills ==
  /\ sending
  /\ \/ \E c \in At : client[c] = "closed"
     \/ it > Len(sock_list) + 1
  /\ process' = "killed"
  /\ UNCHANGED <<clientVars, inbox, reading, sockVars, castVars>>

EndSend ==
  /\ sending
  /\ it = Len(sock_list) + 1
  /\ sending' = FALSE
  /\ UNCHANGED <<process, clientVars, inbox, reading, sockVars, it, listed, got, outcome>>

SendMessage == StartSend \/ SendOne \/ SendThrows \/ SendKills \/ EndSend

Next ==
  \/ \E c \in Client : Connect(c) \/ ClientBegins(c) \/ ClientFinishes(c) \/ ClientEnds(c)
  \/ process = "running" /\ (PollMessage \/ SendMessage)

\* The server calls PollMessage again and again, and its thread runs.  A client that
\* began a message sends the rest, or goes: PollMessage has no other way out.
Fairness ==
  /\ WF_vars(process = "running" /\ PollMessage)
  /\ \A c \in Client :
       WF_vars(client[c] = "sending" /\ (ClientFinishes(c) \/ ClientEnds(c)))
Spec == Init /\ [][Next]_vars
FairSpec == Spec /\ Fairness

-----------------------------------------------------------------------------
(***************************************************************************)
(* What the server promises.                                               *)
(***************************************************************************)
\* SocketsKept: select() is asked about every accepted socket, once, and within
\* max_fd, until its client has ended and all its messages were received: giving
\* a socket up never loses another one (rpc.cpp:33, 174, 189).
SocketsKept ==
  /\ IsInjective(sock_list)
  /\ \A c \in Client : fd[c] # 0 =>
       \/ c \in ToSet(sock_list) /\ fd[c] <= max_fd
       \/ Ended(c) /\ inbox[c] = 0

\* BroadcastOnce: a SendMessage that no erased socket and no failure disturbed
\* sent its message exactly once to every socket listed when it began, and at
\* most once to those accepted since, whenever they came in (rpc.cpp:144).
BroadcastOnce ==
  ~sending /\ outcome = "whole" =>
    \A c \in Client : got[c] \in (IF c \in listed THEN {1} ELSE {0, 1})

Before(c) == {sock_list[k] : k \in 1 .. Place(c) - 1}
Received(S) == \E c \in S : inbox'[c] = inbox[c] - 1

\* Served: a client whose messages wait is served again and again, unless the
\* ones listed before it keep the server busy for ever (rpc.cpp:195); provided that
\* nobody stalls in the middle of a message (rpc.cpp:218).
Served ==
  \A c \in Client :
    <>[](process = "running" /\ inbox[c] > 0) =>
      []<><<Received({c} \cup Before(c))>>_vars
=============================================================================
