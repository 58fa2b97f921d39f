----------------------------- MODULE FrameStream -----------------------------
(***************************************************************************)
(* Messages as frames on the byte stream of one connection: what the       *)
(* synchronous SendMessage writes (rpc.cpp:143-163), and what PollMessage  *)
(* and the AsyncRecv threads make of it at the other end                   *)
(* (rpc.cpp:168-251).                                                      *)
(*                                                                         *)
(* A byte is known by its message and its place in the frame: a header of  *)
(* Header bytes, which give the length, and then the payload.  TCP carries *)
(* bytes in order and hands them over in pieces of its own choosing.       *)
(***************************************************************************)
EXTENDS Naturals, Sequences

CONSTANTS
  Sender,        \* threads that call SendMessage
  Receiver,      \* threads that run AsyncRecv or call PollMessage
  Poller,        \* those of them that may call PollMessage
  Header,        \* length of the header: 4 in the code
  MaxSize,       \* bound on the length of a payload
  MaxMessages,   \* bound on the number of messages
  Capacity       \* bytes that TCP's buffers hold

ASSUME PollerAssumption == Poller \subseteq Receiver

ASSUME SizesAssumption ==
  /\ Header \in Nat \ {0}
  /\ MaxSize \in Nat
  /\ MaxMessages \in Nat
  /\ Capacity \in Nat /\ Capacity >= Header

VARIABLES
  sizes,        \* the sizes of the messages sent, in order
  sender,       \* where each sender is in SendMessage
  sent_so_far,  \* payload bytes sent by the holder of sending_mutex
  outgoing,     \* bytes in TCP's hands
  incoming,     \* bytes that wait to be read
  header_cut,   \* did TCP ever hand over a part of a header?
  peer,         \* is the sending end "open"?
  sock_list,    \* is the socket still on the receiver's list?
  async_recv_thread_started,
  receiver,     \* where each receiver is in PollMessage
  mode,         \* "async": in AsyncRecv; "wait", "poll": in a call of its own
  msglen,       \* length that each receiver read
  buf,          \* payload bytes that each receiver read
  delivered,    \* payloads returned or given to the callback, in order
  late,         \* callbacks since StopAsyncRecv
  overlap,      \* were two receivers ever at work at a time?
  process       \* the receiving process: "running" or "crashed"

senderVars == <<sizes, sender, sent_so_far>>
netVars == <<outgoing, incoming, header_cut, peer>>
readVars == <<receiver, mode, msglen, buf>>
resultVars == <<delivered, late>>
vars == <<senderVars, netVars, sock_list, async_recv_thread_started, readVars,
          resultVars, overlap, process>>

Byte == (Nat \ {0}) \X (Nat \ {0})
ReceiverStep == {"none", "select", "pick", "header", "payload", "deliver"}

\* The types; a buffer never holds more than the length that was read
\* (rpc.cpp:216-219).
TypeOK ==
  /\ sizes \in Seq(0 .. MaxSize)
  /\ sender \in [Sender -> {"idle", "header", "payload"}]
  /\ sent_so_far \in 0 .. MaxSize
  /\ outgoing \in Seq(Byte)
  /\ incoming \in Seq(Byte)
  /\ header_cut \in BOOLEAN
  /\ peer \in {"open", "closed"}
  /\ sock_list \in BOOLEAN
  /\ async_recv_thread_started \in BOOLEAN
  /\ receiver \in [Receiver -> ReceiverStep]
  /\ mode \in [Receiver -> {"async", "wait", "poll"}]
  /\ msglen \in [Receiver -> 0 .. MaxSize]
  /\ buf \in [Receiver -> Seq(Byte)]
  /\ \A r \in Receiver : Len(buf[r]) <= msglen[r]
  /\ delivered \in Seq(Seq(Byte))
  /\ late \in Nat
  /\ overlap \in BOOLEAN
  /\ process \in {"running", "crashed"}

Init ==
  /\ sizes = << >>
  /\ sender = [s \in Sender |-> "idle"]
  /\ sent_so_far = 0
  /\ outgoing = << >>
  /\ incoming = << >>
  /\ header_cut = FALSE
  /\ peer = "open"
  /\ sock_list = TRUE
  /\ async_recv_thread_started = FALSE
  /\ receiver = [r \in Receiver |-> "none"]
  /\ mode = [r \in Receiver |-> "async"]
  /\ msglen = [r \in Receiver |-> 0]
  /\ buf = [r \in Receiver |-> << >>]
  /\ delivered = << >>
  /\ late = 0
  /\ overlap = FALSE
  /\ process = "running"

\* The bytes of message n.
HeaderOf(n) == [i \in 1 .. Header |-> <<n, i>>]
Payload(n) == [i \in 1 .. sizes[n] |-> <<n, Header + i>>]

Room == Capacity - (Len(outgoing) + Len(incoming))

------------------------------------------------------------------------------
(***************************************************************************)
(* SendMessage(msg, false).                                                *)
(***************************************************************************)

SendingMutexFree == \A s \in Sender : sender[s] = "idle"

Lock(s) ==
  /\ peer = "open"
  /\ sender[s] = "idle"
  /\ SendingMutexFree
  /\ Len(sizes) < MaxMessages
  /\ \E size \in 0 .. MaxSize : sizes' = Append(sizes, size)
  /\ sender' = [sender EXCEPT ![s] = "header"]
  /\ sent_so_far' = 0
  /\ UNCHANGED <<netVars, sock_list, async_recv_thread_started, readVars,
                 resultVars, overlap, process>>

\* What is left to do when sent bytes of the payload are on their way.
AfterSending(sent) == IF sent = sizes[Len(sizes)] THEN "idle" ELSE "payload"

\* A send() that blocks: it waits for room and then takes all four bytes.
SendHeader(s) ==
  /\ peer = "open"
  /\ sender[s] = "header"
  /\ Room >= Header
  /\ outgoing' = outgoing \o HeaderOf(Len(sizes))
  /\ sender' = [sender EXCEPT ![s] = AfterSending(0)]
  /\ UNCHANGED <<sizes, sent_so_far, incoming, header_cut, peer, sock_list,
                 async_recv_thread_started, readVars, resultVars, overlap, process>>

\* Mutated SendSome: one send() for the payload, however much it takes.
SendOnce(s) ==
  /\ peer = "open"
  /\ sender[s] = "payload"
  /\ \E k \in 1 .. sizes[Len(sizes)] - sent_so_far :
       /\ k <= Room
       /\ outgoing' = outgoing \o SubSeq(Payload(Len(sizes)), sent_so_far + 1,
                                         sent_so_far + k)
       /\ sent_so_far' = sent_so_far + k
  /\ sender' = [sender EXCEPT ![s] = "idle"]
  /\ UNCHANGED <<sizes, incoming, header_cut, peer, sock_list,
                 async_recv_thread_started, readVars, resultVars, overlap, process>>

\* One turn of the loop over the payload.
SendSome(s) ==
  /\ peer = "open"
  /\ sender[s] = "payload"
  /\ \E k \in 1 .. sizes[Len(sizes)] - sent_so_far :
       /\ k <= Room
       /\ outgoing' = outgoing \o SubSeq(Payload(Len(sizes)), sent_so_far + 1,
                                         sent_so_far + k)
       /\ sent_so_far' = sent_so_far + k
       /\ sender' = [sender EXCEPT ![s] = AfterSending(sent_so_far + k)]
  /\ UNCHANGED <<sizes, incoming, header_cut, peer, sock_list,
                 async_recv_thread_started, readVars, resultVars, overlap, process>>

\* send() returns -1 and the RPCException releases the mutex.
SendFails(s) ==
  /\ peer = "closed"
  /\ sender[s] # "idle"
  /\ sender' = [sender EXCEPT ![s] = "idle"]
  /\ UNCHANGED <<sizes, sent_so_far, netVars, sock_list,
                 async_recv_thread_started, readVars, resultVars, overlap, process>>

------------------------------------------------------------------------------
(***************************************************************************)
(* TCP.                                                                    *)
(***************************************************************************)

\* Some bytes reach the receiving end.
Arrive ==
  \E k \in 1 .. Len(outgoing) :
    /\ header_cut' = (header_cut \/ outgoing[k][2] \in 1 .. Header - 1)
    /\ incoming' = incoming \o SubSeq(outgoing, 1, k)
    /\ outgoing' = SubSeq(outgoing, k + 1, Len(outgoing))
    /\ UNCHANGED <<senderVars, peer, sock_list, async_recv_thread_started,
                   readVars, resultVars, overlap, process>>

\* The sending process ends, in the middle of a message perhaps: what it sent
\* still arrives.
Close ==
  /\ peer = "open"
  /\ peer' = "closed"
  /\ UNCHANGED <<senderVars, outgoing, incoming, header_cut, sock_list,
                 async_recv_thread_started, readVars, resultVars, overlap, process>>

\* The connection is reset: nothing arrives any more.
Reset ==
  /\ peer = "open"
  /\ peer' = "closed"
  /\ outgoing' = << >>
  /\ incoming' = << >>
  /\ UNCHANGED <<senderVars, header_cut, sock_list, async_recv_thread_started,
                 readVars, resultVars, overlap, process>>

\* recv() would return 0 or -1.
AtEnd == peer = "closed" /\ outgoing = << >> /\ incoming = << >>

Readable == incoming # << >> \/ AtEnd

------------------------------------------------------------------------------
(***************************************************************************)
(* Receiving.                                                              *)
(***************************************************************************)
Busy == \E r \in Receiver : receiver[r] # "none"

\* PollMessage, called by a thread of the application.
CallPoll(r) ==
  /\ process = "running"
  /\ receiver[r] = "none"
  /\ receiver' = [receiver EXCEPT ![r] = "select"]
  /\ \E m \in {"wait", "poll"} : mode' = [mode EXCEPT ![r] = m]
  /\ overlap' = (overlap \/ Busy)
  /\ UNCHANGED <<senderVars, netVars, sock_list, async_recv_thread_started,
                 msglen, buf, resultVars, process>>

\* StartAsyncRecv starts a thread when the flag is false, whether or not the
\* thread of an earlier call has ended.
StartAsyncRecv(r) ==
  /\ process = "running"
  /\ ~ async_recv_thread_started
  /\ receiver[r] = "none"
  /\ async_recv_thread_started' = TRUE
  /\ receiver' = [receiver EXCEPT ![r] = "select"]
  /\ mode' = [mode EXCEPT ![r] = "async"]
  /\ overlap' = (overlap \/ Busy)
  /\ late' = 0
  /\ UNCHANGED <<senderVars, netVars, sock_list, msglen, buf, delivered, process>>

StopAsyncRecv ==
  /\ process = "running"
  /\ async_recv_thread_started
  /\ async_recv_thread_started' = FALSE
  /\ late' = 0
  /\ UNCHANGED <<senderVars, netVars, sock_list, readVars, delivered, overlap, process>>

\* Mutated AfterPoll: while (true).
NeverStopping(r) == IF mode[r] = "async" THEN "select" ELSE "none"

\* Where a receiver goes on when PollMessage returned: AsyncRecv looks at the
\* flag, anyone else is done.
AfterPoll(r) ==
  IF mode[r] = "async" /\ async_recv_thread_started THEN "select" ELSE "none"

\* select() finds the socket readable.
Select(r) ==
  /\ process = "running"
  /\ receiver[r] = "select"
  /\ sock_list
  /\ Readable
  /\ receiver' = [receiver EXCEPT ![r] = "pick"]
  /\ UNCHANGED <<senderVars, netVars, sock_list, async_recv_thread_started,
                 mode, msglen, buf, resultVars, overlap, process>>

\* select() with a zero timeout finds nothing, and PollMessage returns NULL.
\* (With none it waits, for ever when the socket is off the list.)
SelectNothing(r) ==
  /\ process = "running"
  /\ receiver[r] = "select"
  /\ mode[r] = "poll"
  /\ ~ sock_list \/ ~ Readable
  /\ receiver' = [receiver EXCEPT ![r] = "none"]
  /\ UNCHANGED <<senderVars, netVars, sock_list, async_recv_thread_started,
                 mode, msglen, buf, resultVars, overlap, process>>

\* The second walk over sock_list.  Another receiver may have emptied it since:
\* then PollMessage returns NULL, which AsyncRecv hands to the callback.
Pick(r) ==
  /\ process = "running"
  /\ receiver[r] = "pick"
  /\ \/ sock_list /\ receiver' = [receiver EXCEPT ![r] = "header"]
        /\ process' = process
     \/ ~ sock_list /\ receiver' = [receiver EXCEPT ![r] = AfterPoll(r)]
        /\ process' \in {"running"} \cup {p \in {"crashed"} : mode[r] = "async"}
  /\ UNCHANGED <<senderVars, netVars, sock_list, async_recv_thread_started,
                 mode, msglen, buf, resultVars, overlap>>

Least(a, b) == IF a <= b THEN a ELSE b

\* CleanupSocket, and PollMessage again.  The socket is not closed.
Cleanup(r) ==
  /\ sock_list' = FALSE
  /\ receiver' = [receiver EXCEPT ![r] = "select"]
  /\ buf' = [buf EXCEPT ![r] = << >>]

\* The lengths that a full header may be taken for.
Lengths(bytes) ==
  IF \E n \in 1 .. Len(sizes) : bytes = HeaderOf(n)
  THEN {sizes[bytes[1][1]]}
  ELSE 0 .. MaxSize

\* recv() of the header in one piece.
RecvHeader(r) ==
  /\ process = "running"
  /\ receiver[r] = "header"
  /\ Len(incoming) >= Header
  /\ \E length \in Lengths(SubSeq(incoming, 1, Header)) :
       /\ msglen' = [msglen EXCEPT ![r] = length]
       /\ receiver' = [receiver EXCEPT ![r] = IF length = 0 THEN "deliver"
                                              ELSE "payload"]
  /\ incoming' = SubSeq(incoming, Header + 1, Len(incoming))
  /\ UNCHANGED <<senderVars, outgoing, header_cut, peer, sock_list,
                 async_recv_thread_started, mode, buf, resultVars, overlap, process>>

\* Bytes that are no header give a negative length: new throws.
RecvBadLength(r) ==
  /\ process = "running"
  /\ receiver[r] = "header"
  /\ Len(incoming) >= Header
  /\ \A n \in 1 .. Len(sizes) : SubSeq(incoming, 1, Header) # HeaderOf(n)
  /\ process' = "crashed"
  /\ UNCHANGED <<senderVars, netVars, sock_list, async_recv_thread_started,
                 readVars, resultVars, overlap>>

\* recv() returns a part of the header, or nothing.
RecvShortHeader(r) ==
  /\ process = "running"
  /\ receiver[r] = "header"
  /\ Readable
  /\ Len(incoming) < Header
  /\ incoming' = << >>
  /\ Cleanup(r)
  /\ UNCHANGED <<senderVars, outgoing, header_cut, peer,
                 async_recv_thread_started, mode, msglen, resultVars, overlap, process>>

\* Mutated Wanted: every recv() asks for msglen bytes.
WholeLength(r) == msglen[r]

Wanted(r) == msglen[r] - Len(buf[r])

\* Mutated AfterReading: the payload is what the first recv() returned.
AlwaysDelivered(read, length) == "deliver"

\* The loop ends when all of the payload was read.
AfterReading(read, length) == IF read < length THEN "payload" ELSE "deliver"

RecvPayload(r) ==
  /\ process = "running"
  /\ receiver[r] = "payload"
  /\ incoming # << >>
  /\ LET k == Least(Len(incoming), Wanted(r))
     IN  /\ buf' = [buf EXCEPT ![r] = @ \o SubSeq(incoming, 1, k)]
         /\ incoming' = SubSeq(incoming, k + 1, Len(incoming))
         /\ receiver' = [receiver EXCEPT ![r] =
                           AfterReading(Len(buf[r]) + k, msglen[r])]
  /\ UNCHANGED <<senderVars, outgoing, header_cut, peer, sock_list,
                 async_recv_thread_started, mode, msglen, resultVars, overlap, process>>

\* Mutated RecvEnd: a recv() that has nothing to return is taken for the end.
RecvDry(r) ==
  /\ process = "running"
  /\ receiver[r] = "payload"
  /\ incoming = << >>
  /\ Cleanup(r)
  /\ UNCHANGED <<senderVars, netVars, async_recv_thread_started, mode, msglen,
                 resultVars, overlap, process>>

\* The stream ends in the middle of a payload.
RecvEnd(r) ==
  /\ process = "running"
  /\ receiver[r] = "payload"
  /\ AtEnd
  /\ Cleanup(r)
  /\ UNCHANGED <<senderVars, netVars, async_recv_thread_started, mode, msglen,
                 resultVars, overlap, process>>

\* PollMessage returns the message; AsyncRecv calls the callback, even if it
\* was told to stop meanwhile.
Deliver(r) ==
  /\ process = "running"
  /\ receiver[r] = "deliver"
  /\ delivered' = Append(delivered, buf[r])
  /\ late' = IF mode[r] = "async" /\ ~ async_recv_thread_started
             THEN late + 1 ELSE late
  /\ buf' = [buf EXCEPT ![r] = << >>]
  /\ receiver' = [receiver EXCEPT ![r] = AfterPoll(r)]
  /\ UNCHANGED <<senderVars, netVars, sock_list, async_recv_thread_started,
                 mode, msglen, overlap, process>>

------------------------------------------------------------------------------
SendMessage(s) == SendHeader(s) \/ SendSome(s) \/ SendFails(s)

PollMessage(r) ==
  \/ Select(r) \/ SelectNothing(r) \/ Pick(r) \/ RecvHeader(r)
  \/ RecvBadLength(r) \/ RecvShortHeader(r) \/ RecvPayload(r) \/ RecvEnd(r)
  \/ Deliver(r)

Next ==
  \/ \E s \in Sender : Lock(s) \/ SendMessage(s)
  \/ Arrive \/ Close \/ Reset
  \/ \E r \in Poller : CallPoll(r)
  \/ \E r \in Receiver : StartAsyncRecv(r) \/ PollMessage(r)
  \/ StopAsyncRecv

Spec == Init /\ [][Next]_vars

\* Threads that can run are run and TCP delivers; nothing is assumed of when
\* messages are sent or received.
FairSpec ==
  /\ Spec
  /\ WF_vars(Arrive)
  /\ \A s \in Sender : WF_vars(SendMessage(s))
  /\ \A r \in Receiver : WF_vars(PollMessage(r))

------------------------------------------------------------------------------
(* Properties *)

\* While receivers did not overlap, what is delivered is what was sent: whole
\* messages, in order, none twice and none skipped, however sends and receives
\* are cut, and no part of a message when the sender dies
\* (rpc.cpp:143-163 and 205-230).
FramesIntact ==
  ~ overlap =>
    /\ Len(delivered) <= Len(sizes)
    /\ \A n \in 1 .. Len(delivered) : delivered[n] = Payload(n)

\* StopAsyncRecv does not wait for the thread, which may be in PollMessage: it
\* delivers at most one message more for each thread (rpc.cpp:233-239).
FewLate == ~ overlap => late <= 1

\* Message n has to be delivered: it was sent to a receiver that was started.
Awaited(n) == n <= Len(sizes) /\ async_recv_thread_started

\* It was, or the receiver was stopped or joined by another, or the sender is gone.
Settled(n) ==
  \/ Len(delivered) >= n
  \/ ~ async_recv_thread_started
  \/ overlap
  \/ peer = "closed"

\* rpc.h:72: when no header was cut, a message that was sent is delivered, however
\* TCP cuts the rest of the stream and however full its buffers are.
EventuallyDelivered ==
  \A n \in 1 .. MaxMessages : Awaited(n) ~> Settled(n) \/ header_cut

\* A socket is given up only for cause: unless a header was cut or receivers
\* overlapped, at the end of the connection (rpc.cpp:207-225).
GivenUpForCause ==
  ~ sock_list /\ ~ overlap /\ ~ header_cut => peer = "closed"

------------------------------------------------------------------------------
(* What the repository's comments say, where the code differs. *)

\* rpc.h:72 "Given sufficient bandwidth, all messages will be sent": the same,
\* however TCP cuts the headers.
AllMessagesDelivered == \A n \in 1 .. MaxMessages : Awaited(n) ~> Settled(n)
==============================================================================
