------------------------------ MODULE SendQueue ------------------------------
(***************************************************************************)
(* The sending half of one RPC endpoint, at the granularity of messages:   *)
(* SendMessage as application threads call it, the AsyncSend threads it    *)
(* starts, the deque between them and the send policy                      *)
(* (simpleprotorpc/rpc.cpp:91-166).                                        *)
(*                                                                         *)
(* Each step is what one thread does between two points where another      *)
(* thread can interfere: everything done while messages_mutex is held is   *)
(* one step, and sending_mutex is held from the step that takes it to the  *)
(* step that hands the message to the socket.  The bytes on the socket and *)
(* the list of sockets are the business of other modules.                  *)
(***************************************************************************)
EXTENDS Naturals, Sequences

CONSTANTS
  Caller,     \* application threads that call SendMessage
  MaxCalls    \* bound on the number of calls, synchronous and asynchronous

ASSUME MaxCallsAssumption == MaxCalls \in Nat

VARIABLES
  messages,                   \* the deque of messages that wait
  send_policy,                \* what AsyncSend does when the deque is long
  async_send_thread_started,  \* the flag tested before a thread is started
  calls,                      \* number of calls so far
  count,                      \* number of messages pushed so far
  pc,                         \* where each caller is in SendMessage
  worker,                     \* where the AsyncSend thread a caller started is
  cur_string,                 \* the message that thread popped: none or one
  wire,                       \* queued messages handed to the socket, in order
  dropped,                    \* messages popped to be forgotten
  peer,                       \* is the connection still "open"?
  process                     \* is the program still "running"?

callVars == <<calls, pc>>
workerVars == <<worker, cur_string>>
vars == <<messages, send_policy, async_send_thread_started, calls, count, pc,
          worker, cur_string, wire, dropped, peer, process>>

\* A pushed message, numbered in the order of the pushes.
Message == [id : Nat \ {0}, ensured : BOOLEAN]

CallerStep == {"idle", "spawn", "mark", "push", "lock", "send"}
WorkerStep == {"none", "poll", "lock", "send"}

\* The types; a thread has one message in hand exactly while it waits to send
\* it or sends it (rpc.cpp:125-129).
TypeOK ==
  /\ messages \in Seq(Message)
  /\ send_policy \in {"SEND_ALL", "SEND_LAST"}
  /\ async_send_thread_started \in BOOLEAN
  /\ calls \in Nat
  /\ count \in Nat
  /\ pc \in [Caller -> CallerStep]
  /\ worker \in [Caller -> WorkerStep]
  /\ cur_string \in [Caller -> Seq(Message)]
  /\ \A c \in Caller :
       Len(cur_string[c]) = IF worker[c] \in {"lock", "send"} THEN 1 ELSE 0
  /\ wire \in Seq(Message)
  /\ dropped \in SUBSET Message
  /\ peer \in {"open", "gone"}
  /\ process \in {"running", "terminated"}

Init ==
  /\ messages = << >>
  /\ send_policy = "SEND_ALL"
  /\ async_send_thread_started = FALSE
  /\ calls = 0
  /\ count = 0
  /\ pc = [c \in Caller |-> "idle"]
  /\ worker = [c \in Caller |-> "none"]
  /\ cur_string = [c \in Caller |-> << >>]
  /\ wire = << >>
  /\ dropped = {}
  /\ peer = "open"
  /\ process = "running"

------------------------------------------------------------------------------
(***************************************************************************)
(* SendMessage(msg, true, ensure_sent), in the caller's thread.            *)
(***************************************************************************)

\* The unlocked test of async_send_thread_started.
CallAsync(c) ==
  /\ process = "running"
  /\ pc[c] = "idle"
  /\ calls < MaxCalls
  /\ calls' = calls + 1
  /\ pc' = [pc EXCEPT ![c] = IF async_send_thread_started THEN "push" ELSE "spawn"]
  /\ UNCHANGED <<messages, send_policy, async_send_thread_started, count,
                 workerVars, wire, dropped, peer, process>>

\* boost::thread(...): a thread that starts in AsyncSend.
Spawn(c) ==
  /\ process = "running"
  /\ pc[c] = "spawn"
  /\ worker' = [worker EXCEPT ![c] = "poll"]
  /\ pc' = [pc EXCEPT ![c] = "mark"]
  /\ UNCHANGED <<messages, send_policy, async_send_thread_started, calls,
                 count, cur_string, wire, dropped, peer, process>>

\* Mutated MarkStarted: the flag stays false, so every call starts a thread.
MarkForgotten(c) ==
  /\ process = "running"
  /\ pc[c] = "mark"
  /\ pc' = [pc EXCEPT ![c] = "push"]
  /\ UNCHANGED <<messages, send_policy, async_send_thread_started, calls,
                 count, workerVars, wire, dropped, peer, process>>

\* async_send_thread_started = true, after the thread was started.
MarkStarted(c) ==
  /\ process = "running"
  /\ pc[c] = "mark"
  /\ async_send_thread_started' = TRUE
  /\ pc' = [pc EXCEPT ![c] = "push"]
  /\ UNCHANGED <<messages, send_policy, calls, count, workerVars, wire,
                 dropped, peer, process>>

\* Mutated Pushed: messages.push_front in place of push_back.
Prepended(q, m) == <<m>> \o q

\* messages.push_back, under messages_mutex.
Pushed(q, m) == Append(q, m)

Push(c) ==
  /\ process = "running"
  /\ pc[c] = "push"
  /\ count' = count + 1
  /\ \E e \in BOOLEAN :
       messages' = Pushed(messages, [id |-> count + 1, ensured |-> e])
  /\ pc' = [pc EXCEPT ![c] = "idle"]
  /\ UNCHANGED <<send_policy, async_send_thread_started, calls, workerVars,
                 wire, dropped, peer, process>>

------------------------------------------------------------------------------
(***************************************************************************)
(* sending_mutex: a scoped_lock of SendMessage's synchronous branch, which *)
(* callers and AsyncSend threads contend for.  A thread holds it exactly   *)
(* while it is at "send".                                                  *)
(***************************************************************************)
SendingMutexFree ==
  \A c \in Caller : pc[c] # "send" /\ worker[c] # "send"

\* SendMessage(msg, false).
CallSync(c) ==
  /\ process = "running"
  /\ pc[c] = "idle"
  /\ calls < MaxCalls
  /\ calls' = calls + 1
  /\ pc' = [pc EXCEPT ![c] = "lock"]
  /\ UNCHANGED <<messages, send_policy, async_send_thread_started, count,
                 workerVars, wire, dropped, peer, process>>

CallerLocks(c) ==
  /\ process = "running"
  /\ pc[c] = "lock"
  /\ SendingMutexFree
  /\ pc' = [pc EXCEPT ![c] = "send"]
  /\ UNCHANGED <<messages, send_policy, async_send_thread_started, calls,
                 count, workerVars, wire, dropped, peer, process>>

\* The call returns, or leaves with an RPCException that its caller may catch:
\* either way the scoped_lock is released.
CallerSends(c) ==
  /\ process = "running"
  /\ pc[c] = "send"
  /\ pc' = [pc EXCEPT ![c] = "idle"]
  /\ UNCHANGED <<messages, send_policy, async_send_thread_started, calls,
                 count, workerVars, wire, dropped, peer, process>>

\* send() raises SIGPIPE, which nothing in the program handles.
CallerKilled(c) ==
  /\ process = "running"
  /\ pc[c] = "send"
  /\ peer = "gone"
  /\ process' = "terminated"
  /\ UNCHANGED <<messages, send_policy, async_send_thread_started, callVars,
                 count, workerVars, wire, dropped, peer>>

------------------------------------------------------------------------------
(***************************************************************************)
(* AsyncSend, in the thread that caller c started.  Finding the deque      *)
(* empty and sleeping changes nothing.                                     *)
(***************************************************************************)

\* Mutated FrontIs: the loop pops until one message is left, ensured or not.
EnsuredIgnored(q, policy, k) ==
  IF policy = "SEND_LAST" /\ Len(q) > 2 THEN k = Len(q) ELSE k = 1

\* Mutated FrontIs: the deque is pruned one message too late.
PrunedLate(q, policy, k) ==
  IF policy = "SEND_LAST" /\ Len(q) > 3
  THEN /\ \A i \in 1 .. k - 1 : ~ q[i].ensured
       /\ q[k].ensured \/ k = Len(q)
  ELSE k = 1

\* Is the k-th message of q at the front once the policy was applied to q?
FrontIs(q, policy, k) ==
  IF policy = "SEND_LAST" /\ Len(q) > 2
  THEN /\ \A i \in 1 .. k - 1 : ~ q[i].ensured
       /\ q[k].ensured \/ k = Len(q)
  ELSE k = 1

\* Mutated Behind: messages.front() is read and never popped.
FrontAndBehind(q, k) == SubSeq(q, k, Len(q))

\* messages.pop_front(), of the front that was read.
Behind(q, k) == SubSeq(q, k + 1, Len(q))

\* One critical section of messages_mutex: apply the policy, pop the front.
Dequeue(c) ==
  /\ process = "running"
  /\ worker[c] = "poll"
  /\ \E k \in 1 .. Len(messages) :
       /\ FrontIs(messages, send_policy, k)
       /\ cur_string' = [cur_string EXCEPT ![c] = <<messages[k]>>]
       /\ messages' = Behind(messages, k)
       /\ dropped' = dropped \cup {messages[i] : i \in 1 .. k - 1}
  /\ worker' = [worker EXCEPT ![c] = "lock"]
  /\ UNCHANGED <<send_policy, async_send_thread_started, callVars, count,
                 wire, peer, process>>

WorkerLocks(c) ==
  /\ process = "running"
  /\ worker[c] = "lock"
  /\ SendingMutexFree
  /\ worker' = [worker EXCEPT ![c] = "send"]
  /\ UNCHANGED <<messages, send_policy, async_send_thread_started, callVars,
                 count, cur_string, wire, dropped, peer, process>>

\* Mutated Deleted: the string outlives the call that sent it.
StillHeld(c) == cur_string[c]

\* delete cur_string.
Deleted(c) == << >>

\* Mutated Loop: the thread's function returns once a message was sent.
Return == "none"

\* while (true).
Loop == "poll"

\* SendMessage(*cur_string, false) returns, and the loop starts again.
WorkerSends(c) ==
  /\ process = "running"
  /\ worker[c] = "send"
  /\ wire' = Append(wire, cur_string[c][1])
  /\ cur_string' = [cur_string EXCEPT ![c] = Deleted(c)]
  /\ worker' = [worker EXCEPT ![c] = Loop]
  /\ UNCHANGED <<messages, send_policy, async_send_thread_started, callVars,
                 count, dropped, peer, process>>

\* send() fails: the RPCException leaves the thread's function, or SIGPIPE
\* arrives.  Both end the program.
WorkerFails(c) ==
  /\ process = "running"
  /\ worker[c] = "send"
  /\ peer = "gone"
  /\ process' = "terminated"
  /\ UNCHANGED <<messages, send_policy, async_send_thread_started, callVars,
                 count, workerVars, wire, dropped, peer>>

------------------------------------------------------------------------------
SetSendPolicy(p) ==
  /\ process = "running"
  /\ send_policy' = p
  /\ UNCHANGED <<messages, async_send_thread_started, callVars, count,
                 workerVars, wire, dropped, peer, process>>

\* The other end closes the connection, or the network loses it.
PeerGone ==
  /\ process = "running"
  /\ peer = "open"
  /\ peer' = "gone"
  /\ UNCHANGED <<messages, send_policy, async_send_thread_started, callVars,
                 count, workerVars, wire, dropped, process>>

\* The steps of a call in progress.
CallStep(c) ==
  \/ Spawn(c) \/ MarkStarted(c) \/ Push(c)
  \/ CallerLocks(c) \/ CallerSends(c) \/ CallerKilled(c)

\* The steps of an AsyncSend thread.
AsyncSend(c) ==
  \/ Dequeue(c) \/ WorkerLocks(c) \/ WorkerSends(c) \/ WorkerFails(c)

Next ==
  \/ \E c \in Caller : CallAsync(c) \/ CallSync(c) \/ CallStep(c) \/ AsyncSend(c)
  \/ \E p \in {"SEND_ALL", "SEND_LAST"} : SetSendPolicy(p)
  \/ PeerGone

Spec == Init /\ [][Next]_vars

\* Threads that can run are run, and the other end keeps reading, so a send()
\* ends.  Nothing is assumed of when the application calls.
Fairness ==
  \A c \in Caller : WF_vars(CallStep(c)) /\ WF_vars(AsyncSend(c))

FairSpec == Spec /\ Fairness

------------------------------------------------------------------------------
(* Properties *)

Working(c) == worker[c] # "none"

\* No two callers raced on async_send_thread_started.
OneWorker == \A c, d \in Caller : Working(c) /\ Working(d) => c = d

Increasing(q) == \A i, j \in 1 .. Len(q) : i < j => q[i].id < q[j].id

\* rpc.h:55-56 and 70-71: while only one AsyncSend thread was ever started,
\* queued messages reach the socket in the order SendMessage queued them,
\* whatever the policy dropped in between.
SentInOrder == OneWorker => Increasing(wire)

\* A caller that is about to start an AsyncSend thread has started none before:
\* the unlocked flag lets callers race each other, but there are never more
\* threads than callers (rpc.cpp:135-139).
OneThreadEach == \A c \in Caller : pc[c] = "spawn" => worker[c] = "none"

\* Where the message numbered n is.
HeldBy(n, c) == \E i \in 1 .. Len(cur_string[c]) : cur_string[c][i].id = n
Sent(n) == \E i \in 1 .. Len(wire) : wire[i].id = n
Dropped(n) == \E m \in dropped : m.id = n

Places(n) ==
  ({"deque"} \X {i \in 1 .. Len(messages) : messages[i].id = n})
    \cup ({"held"} \X {c \in Caller : HeldBy(n, c)})
    \cup ({"wire"} \X {i \in 1 .. Len(wire) : wire[i].id = n})
    \cup ({"dropped"} \X {m \in dropped : m.id = n})

\* Every queued message is in exactly one place, even when several AsyncSend
\* threads drain the deque: none is lost on the way, none is sent twice, and
\* none is both sent and dropped.
InOnePlace ==
  \A n \in 1 .. count : \E p \in Places(n) : Places(n) = {p}

\* SEND_LAST forgets a message only for the sake of a newer one that an
\* AsyncSend thread already took: what is on its way is never staler than what
\* was dropped, and an ensured message is never dropped.
DroppedForNewer ==
  \A m \in dropped :
    /\ ~ m.ensured
    /\ \E n \in 1 .. count :
         n > m.id /\ (Sent(n) \/ \E c \in Caller : HeldBy(n, c))

\* What a SEND_LAST sender leaves behind when it takes a message nobody
\* insisted on: at most one newer message, so the picture it sends is at most
\* one message old.
AtMostOneBehind ==
  [][\A c \in Caller :
       /\ worker[c] = "poll" /\ worker'[c] = "lock"
       /\ send_policy = "SEND_LAST"
       => Len(messages') <= 1 \/ cur_string'[c][1].ensured]_vars

\* rpc.h:72: with sufficient bandwidth every queued message is sent, unless
\* SEND_LAST dropped it for a newer one or the connection went away.
EventuallySettled ==
  \A n \in 1 .. MaxCalls :
    count >= n ~> Sent(n) \/ Dropped(n) \/ peer = "gone"

\* With one caller the whole of the threads, the flag, the deque and the
\* mutexes implements the ordered, conflating line of OrderedDelivery.
Held == IF \E c \in Caller : cur_string[c] # << >>
        THEN cur_string[CHOOSE c \in Caller : cur_string[c] # << >>]
        ELSE << >>

Delivery == INSTANCE OrderedDelivery
              WITH submitted <- count, pending <- Held \o messages,
                   sent <- wire, policy <- send_policy

\* rpc.h:53-57 and 69-81, for one caller: what is queued is sent from the front,
\* in order, and only SEND_LAST skips, never the newest and never an ensured one.
ImplementsOrderedDelivery == Delivery!Spec
==============================================================================
