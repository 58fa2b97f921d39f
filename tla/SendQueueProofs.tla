--------------------------- MODULE SendQueueProofs ---------------------------
(***************************************************************************)
(* Theorems about SendQueue for any set of callers and any number of calls.*)
(***************************************************************************)
EXTENDS SendQueue, TLAPS

\* What a critical section of AsyncSend leaves of the deque: a suffix of it.
LEMMA BehindProperties ==
  ASSUME NEW S, NEW q \in Seq(S), NEW k \in 1 .. Len(q)
  PROVE  /\ Behind(q, k) \in Seq(S)
         /\ Len(Behind(q, k)) = Len(q) - k
         /\ \A i \in 1 .. Len(Behind(q, k)) :
              /\ k + i \in 1 .. Len(q)
              /\ Behind(q, k)[i] = q[k + i]
BY DEF Behind

\* What a push leaves in the deque.
LEMMA PushedProperties ==
  ASSUME NEW q \in Seq(Message), NEW m \in Message
  PROVE  /\ Pushed(q, m) \in Seq(Message)
         /\ Len(Pushed(q, m)) = Len(q) + 1
         /\ \A i \in 1 .. Len(q) : Pushed(q, m)[i] = q[i]
         /\ Pushed(q, m)[Len(q) + 1] = m
BY DEF Pushed

\* Messages are numbered.
LEMMA Ids ==
  ASSUME NEW q \in Seq(Message)
  PROVE  /\ Len(q) \in Nat
         /\ \A i \in 1 .. Len(q) : q[i] \in Message /\ q[i].id \in Nat
<1>1. \A i \in 1 .. Len(q) : q[i] \in Message
  OBVIOUS
<1>2. \A m \in Message : m.id \in Nat
  BY DEF Message
<1>3. QED
  BY <1>1, <1>2

------------------------------------------------------------------------------
(***************************************************************************)
(* Type correctness.  That Spawn starts a thread where there was none is   *)
(* needed for the correlation of cur_string with worker.                   *)
(***************************************************************************)

\* The flag a caller will find, or is about to set, once it started a thread.
ThreadInv ==
  \A c \in Caller :
    worker[c] # "none" =>
      \/ pc[c] = "mark"
      \/ async_send_thread_started /\ pc[c] # "spawn"

TInv == TypeOK /\ ThreadInv

\* The constructors' values have their types.
LEMMA TInvInit == Init => TInv
<1> SUFFICES ASSUME Init PROVE TInv
  OBVIOUS
<1>1. << >> \in Seq(Message) /\ Len(<< >>) = 0
  OBVIOUS
<1>2. /\ cur_string \in [Caller -> Seq(Message)]
      /\ worker \in [Caller -> WorkerStep]
      /\ \A c \in Caller : Len(cur_string[c]) = 0 /\ worker[c] = "none"
  BY <1>1 DEF Init, WorkerStep
<1>3. /\ messages \in Seq(Message)
      /\ wire \in Seq(Message)
      /\ dropped \in SUBSET Message
      /\ pc \in [Caller -> CallerStep]
      /\ calls \in Nat /\ count \in Nat
  BY <1>1 DEF Init, CallerStep
<1>4. TypeOK
  BY <1>2, <1>3 DEF Init, TypeOK
<1>5. ThreadInv
  BY <1>2 DEF ThreadInv
<1>6. QED
  BY <1>4, <1>5 DEF TInv

\* Every step keeps the types and the thread bookkeeping.
LEMMA TInvStep == TInv /\ [Next]_vars => TInv'
<1> SUFFICES ASSUME TypeOK, ThreadInv, [Next]_vars
             PROVE  TypeOK' /\ ThreadInv'
  BY DEF TInv
<1> USE DEF TypeOK, ThreadInv, CallerStep, WorkerStep, callVars, workerVars
<1>1. ASSUME NEW c \in Caller, CallAsync(c) PROVE TypeOK' /\ ThreadInv'
  BY <1>1 DEF CallAsync
<1>2. ASSUME NEW c \in Caller, CallSync(c) PROVE TypeOK' /\ ThreadInv'
  BY <1>2 DEF CallSync
<1>3. ASSUME NEW c \in Caller, Spawn(c) PROVE TypeOK' /\ ThreadInv'
  BY <1>3 DEF Spawn
<1>4. ASSUME NEW c \in Caller, MarkStarted(c) PROVE TypeOK' /\ ThreadInv'
  BY <1>4 DEF MarkStarted
<1>5. ASSUME NEW c \in Caller, Push(c) PROVE TypeOK' /\ ThreadInv'
  <2>1. PICK e \in BOOLEAN :
          messages' = Pushed(messages, [id |-> count + 1, ensured |-> e])
    BY <1>5 DEF Push
  <2>2. [id |-> count + 1, ensured |-> e] \in Message
    BY DEF Message
  <2>3. messages' \in Seq(Message)
    BY <2>1, <2>2, PushedProperties
  <2>4. QED
    BY <1>5, <2>3 DEF Push
<1>6. ASSUME NEW c \in Caller, CallerLocks(c) PROVE TypeOK' /\ ThreadInv'
  BY <1>6 DEF CallerLocks
<1>7. ASSUME NEW c \in Caller, CallerSends(c) PROVE TypeOK' /\ ThreadInv'
  BY <1>7 DEF CallerSends
<1>8. ASSUME NEW c \in Caller, CallerKilled(c) PROVE TypeOK' /\ ThreadInv'
  BY <1>8 DEF CallerKilled
<1>9. ASSUME NEW c \in Caller, Dequeue(c) PROVE TypeOK' /\ ThreadInv'
  <2>1. PICK k \in 1 .. Len(messages) :
          /\ cur_string' = [cur_string EXCEPT ![c] = <<messages[k]>>]
          /\ messages' = Behind(messages, k)
          /\ dropped' = dropped \cup {messages[i] : i \in 1 .. k - 1}
    BY <1>9 DEF Dequeue
  <2>2. messages' \in Seq(Message)
    BY <2>1, BehindProperties
  <2>3. dropped' \in SUBSET Message
    BY <2>1
  <2>4. /\ <<messages[k]>> \in Seq(Message)
        /\ Len(<<messages[k]>>) = 1
    BY <2>1
  <2>5. worker' = [worker EXCEPT ![c] = "lock"]
    BY <1>9 DEF Dequeue
  <2>6. /\ cur_string' \in [Caller -> Seq(Message)]
        /\ \A d \in Caller :
             Len(cur_string'[d]) = IF worker'[d] \in {"lock", "send"} THEN 1 ELSE 0
    BY <2>1, <2>4, <2>5
  <2>7. QED
    BY <1>9, <2>2, <2>3, <2>5, <2>6 DEF Dequeue
<1>10. ASSUME NEW c \in Caller, WorkerLocks(c) PROVE TypeOK' /\ ThreadInv'
  BY <1>10 DEF WorkerLocks
<1>11. ASSUME NEW c \in Caller, WorkerSends(c) PROVE TypeOK' /\ ThreadInv'
  <2>1. cur_string[c][1] \in Message
    BY <1>11 DEF WorkerSends
  <2>2. wire' \in Seq(Message)
    BY <1>11, <2>1 DEF WorkerSends
  <2>3. /\ cur_string' = [cur_string EXCEPT ![c] = << >>]
        /\ worker' = [worker EXCEPT ![c] = "poll"]
        /\ << >> \in Seq(Message) /\ Len(<< >>) = 0
    BY <1>11 DEF WorkerSends, Deleted, Loop
  <2>4. /\ cur_string' \in [Caller -> Seq(Message)]
        /\ \A d \in Caller :
             Len(cur_string'[d]) = IF worker'[d] \in {"lock", "send"} THEN 1 ELSE 0
    <3>1. cur_string' \in [Caller -> Seq(Message)]
      BY <2>3
    <3>2. ASSUME NEW d \in Caller
          PROVE  Len(cur_string'[d]) = IF worker'[d] \in {"lock", "send"} THEN 1 ELSE 0
      <4>1. CASE d = c
        BY <4>1, <2>3
      <4>2. CASE d # c
        BY <4>2, <2>3
      <4>3. QED
        BY <4>1, <4>2
    <3>3. QED
      BY <3>1, <3>2
  <2>5. QED
    BY <1>11, <2>2, <2>3, <2>4 DEF WorkerSends
<1>12. ASSUME NEW c \in Caller, WorkerFails(c) PROVE TypeOK' /\ ThreadInv'
  BY <1>12 DEF WorkerFails
<1>13. ASSUME NEW p \in {"SEND_ALL", "SEND_LAST"}, SetSendPolicy(p)
       PROVE TypeOK' /\ ThreadInv'
  BY <1>13 DEF SetSendPolicy
<1>14. CASE PeerGone
  BY <1>14 DEF PeerGone
<1>15. CASE UNCHANGED vars
  BY <1>15 DEF vars
<1>16. QED
  BY <1>1, <1>2, <1>3, <1>4, <1>5, <1>6, <1>7, <1>8, <1>9, <1>10, <1>11,
     <1>12, <1>13, <1>14, <1>15 DEF Next, CallStep, AsyncSend

\* The variables of the send path keep their types, and a thread holds a
\* popped message exactly while it is between the deque and the socket
\* (rpc.cpp:125-129).
THEOREM TypeCorrect == Spec => []TypeOK
<1>1. TInv => TypeOK
  BY DEF TInv
<1>2. QED
  BY <1>1, TInvInit, TInvStep, PTL DEF Spec

\* A caller that starts an AsyncSend thread has started none before.
THEOREM OneThread == Spec => []OneThreadEach
<1>1. TInv => OneThreadEach
  BY DEF TInv, TypeOK, ThreadInv, OneThreadEach
<1>2. QED
  BY <1>1, TInvInit, TInvStep, PTL DEF Spec

------------------------------------------------------------------------------
(***************************************************************************)
(* Order.  SentInOrder speaks of the socket alone and is not inductive: it *)
(* needs that whatever waits is newer than whatever was taken out of the   *)
(* deque, and, with one AsyncSend thread, that the message it holds is     *)
(* newer than all it has sent.                                             *)
(***************************************************************************)

\* The deque is in order, and newer than all that left it.
QueueInv ==
  /\ Increasing(messages)
  /\ \A i \in 1 .. Len(messages) : messages[i].id <= count
  /\ \A w \in 1 .. Len(wire) :
       /\ wire[w].id <= count
       /\ \A i \in 1 .. Len(messages) : wire[w].id < messages[i].id
  /\ \A c \in Caller : \A h \in 1 .. Len(cur_string[c]) :
       /\ cur_string[c][h].id <= count
       /\ \A i \in 1 .. Len(messages) : cur_string[c][h].id < messages[i].id

\* The socket got its messages in order, and the held one comes next.
WireInv ==
  OneWorker =>
    /\ Increasing(wire)
    /\ \A c \in Caller : \A h \in 1 .. Len(cur_string[c]) :
         \A w \in 1 .. Len(wire) : wire[w].id < cur_string[c][h].id

OrderInv == TInv /\ QueueInv /\ WireInv

\* Nothing is queued at first.
LEMMA OrderInvInit == Init => OrderInv
<1> SUFFICES ASSUME Init PROVE QueueInv /\ WireInv
  BY TInvInit DEF OrderInv
<1>1. Len(messages) = 0 /\ Len(wire) = 0 /\ \A c \in Caller : Len(cur_string[c]) = 0
  BY DEF Init
<1>2. QED
  BY <1>1 DEF QueueInv, WireInv, Increasing

\* A step that leaves the deque, the held messages and the socket alone, and
\* starts no thread, keeps the order.
LEMMA OrderInvFrame ==
  ASSUME QueueInv, WireInv,
         UNCHANGED <<messages, count, cur_string, wire>>,
         \A c \in Caller : Working(c) => Working(c)'
  PROVE  QueueInv' /\ WireInv'
<1>1. OneWorker' => OneWorker
  BY DEF OneWorker, Working
<1>2. QED
  BY <1>1 DEF QueueInv, WireInv, Increasing

\* Every step keeps the deque in order and, with one thread, the line of wire,
\* hand and deque.
LEMMA OrderInvStep == OrderInv /\ [Next]_vars => OrderInv'
<1> SUFFICES ASSUME TInv, QueueInv, WireInv, [Next]_vars
             PROVE  QueueInv' /\ WireInv'
  BY TInvStep DEF OrderInv
<1> USE DEF callVars, workerVars
<1>t. TypeOK /\ ThreadInv
  BY DEF TInv
<1>1. ASSUME NEW c \in Caller, CallAsync(c) PROVE QueueInv' /\ WireInv'
  BY <1>1, OrderInvFrame DEF CallAsync, Working
<1>2. ASSUME NEW c \in Caller, CallSync(c) PROVE QueueInv' /\ WireInv'
  BY <1>2, OrderInvFrame DEF CallSync, Working
<1>3. ASSUME NEW c \in Caller, Spawn(c) PROVE QueueInv' /\ WireInv'
  <2>1. \A d \in Caller : Working(d) => Working(d)'
    BY <1>3, <1>t DEF Spawn, Working, TypeOK
  <2>2. QED
    BY <1>3, <2>1, OrderInvFrame DEF Spawn
<1>4. ASSUME NEW c \in Caller, MarkStarted(c) PROVE QueueInv' /\ WireInv'
  BY <1>4, OrderInvFrame DEF MarkStarted, Working
<1>5. ASSUME NEW c \in Caller, Push(c) PROVE QueueInv' /\ WireInv'
  <2>1. PICK e \in BOOLEAN :
          messages' = Pushed(messages, [id |-> count + 1, ensured |-> e])
    BY <1>5 DEF Push
  <2> DEFINE m == [id |-> count + 1, ensured |-> e]
  <2>2. m \in Message /\ m.id = count + 1 /\ count \in Nat /\ messages \in Seq(Message)
    BY <1>t DEF Message, TypeOK
  <2>a. messages' = Pushed(messages, m)
    BY <2>1
  <2> HIDE DEF m
  <2>b. /\ Len(Pushed(messages, m)) = Len(messages) + 1
        /\ \A i \in 1 .. Len(messages) : Pushed(messages, m)[i] = messages[i]
        /\ Pushed(messages, m)[Len(messages) + 1] = m
    <3>1. messages \in Seq(Message) /\ m \in Message
      BY <2>2
    <3>2. QED
      BY <3>1, PushedProperties
  <2>3. /\ Len(messages') = Len(messages) + 1
        /\ \A i \in 1 .. Len(messages) : messages'[i] = messages[i]
        /\ messages'[Len(messages) + 1] = m
    BY <2>a, <2>b, Zenon
  <2>4. /\ count' = count + 1
        /\ UNCHANGED <<worker, cur_string, wire>>
    BY <1>5 DEF Push
  <2>5. \A i \in 1 .. Len(messages') :
          \/ i \in 1 .. Len(messages) /\ messages'[i] = messages[i]
          \/ i = Len(messages) + 1 /\ messages'[i] = m
    BY <2>2, <2>3
  <2>6. \A i \in 1 .. Len(messages) : messages[i].id \in Nat /\ messages[i].id <= count
    BY <2>2, Ids DEF QueueInv
  <2>7. \A w \in 1 .. Len(wire) : wire[w].id \in Nat /\ wire[w].id <= count
    BY <1>t, Ids DEF QueueInv, TypeOK
  <2>8. \A d \in Caller : \A h \in 1 .. Len(cur_string[d]) :
          cur_string[d][h].id \in Nat /\ cur_string[d][h].id <= count
    BY <1>t, Ids DEF QueueInv, TypeOK
  <2>9. Increasing(messages')
    <3>1. SUFFICES ASSUME NEW i \in 1 .. Len(messages'), NEW j \in 1 .. Len(messages'), i < j
                   PROVE  messages'[i].id < messages'[j].id
      BY DEF Increasing
    <3>2. i \in 1 .. Len(messages) /\ messages'[i] = messages[i]
      BY <3>1, <2>2, <2>3, <2>5
    <3>3. CASE j \in 1 .. Len(messages) /\ messages'[j] = messages[j]
      BY <3>1, <3>2, <3>3 DEF QueueInv, Increasing
    <3>4. CASE messages'[j] = m
      BY <3>2, <3>4, <2>2, <2>6
    <3>5. QED
      BY <3>3, <3>4, <2>5
  <2>10. \A i \in 1 .. Len(messages') : messages'[i].id <= count'
    BY <2>2, <2>4, <2>5, <2>6
  <2>11. \A w \in 1 .. Len(wire) :
           wire[w].id <= count' /\ \A i \in 1 .. Len(messages') : wire[w].id < messages'[i].id
    BY <2>2, <2>4, <2>5, <2>7, SMTT(20) DEF QueueInv
  <2>12. ASSUME NEW d \in Caller, NEW h \in 1 .. Len(cur_string[d])
         PROVE  /\ cur_string[d][h].id <= count'
                /\ \A i \in 1 .. Len(messages') : cur_string[d][h].id < messages'[i].id
    <3>1. cur_string[d][h].id \in Nat /\ cur_string[d][h].id <= count
      BY <2>8
    <3>2. \A i \in 1 .. Len(messages) : cur_string[d][h].id < messages[i].id
      BY DEF QueueInv
    <3>3. QED
      BY <3>1, <3>2, <2>2, <2>4, <2>5, SMTT(20)
  <2>13. QueueInv'
    BY <2>4, <2>9, <2>10, <2>11, <2>12 DEF QueueInv
  <2>14. WireInv'
    BY <2>4 DEF WireInv, OneWorker, Working, Increasing
  <2>15. QED
    BY <2>13, <2>14
<1>6. ASSUME NEW c \in Caller, CallerLocks(c) PROVE QueueInv' /\ WireInv'
  BY <1>6, OrderInvFrame DEF CallerLocks, Working
<1>7. ASSUME NEW c \in Caller, CallerSends(c) PROVE QueueInv' /\ WireInv'
  BY <1>7, OrderInvFrame DEF CallerSends, Working
<1>8. ASSUME NEW c \in Caller, CallerKilled(c) PROVE QueueInv' /\ WireInv'
  BY <1>8, OrderInvFrame DEF CallerKilled, Working
<1>9. ASSUME NEW c \in Caller, Dequeue(c) PROVE QueueInv' /\ WireInv'
  <2>1. PICK k \in 1 .. Len(messages) :
          /\ cur_string' = [cur_string EXCEPT ![c] = <<messages[k]>>]
          /\ messages' = Behind(messages, k)
    BY <1>9 DEF Dequeue
  <2>2. /\ worker[c] = "poll"
        /\ worker' = [worker EXCEPT ![c] = "lock"]
        /\ UNCHANGED <<count, wire>>
    BY <1>9 DEF Dequeue
  <2>3. /\ messages \in Seq(Message) /\ Len(messages) \in Nat
        /\ wire \in Seq(Message) /\ count \in Nat
        /\ cur_string \in [Caller -> Seq(Message)]
        /\ worker \in [Caller -> WorkerStep]
    BY <1>t DEF TypeOK
  <2>4. /\ Len(messages') = Len(messages) - k
        /\ \A i \in 1 .. Len(messages') :
             k + i \in 1 .. Len(messages) /\ messages'[i] = messages[k + i]
    BY <2>1, <2>3, BehindProperties
  <2>5. \A i \in 1 .. Len(messages) : messages[i].id \in Nat
    BY <2>3, Ids
  <2>6. /\ \A d \in Caller : d # c => cur_string'[d] = cur_string[d]
        /\ Len(cur_string'[c]) = 1 /\ cur_string'[c][1] = messages[k]
    BY <2>1, <2>3
  <2>7. Increasing(messages')
    <3>1. SUFFICES ASSUME NEW i \in 1 .. Len(messages'), NEW j \in 1 .. Len(messages'), i < j
                   PROVE  messages'[i].id < messages'[j].id
      BY DEF Increasing
    <3>2. k + i < k + j /\ k + i \in 1 .. Len(messages) /\ k + j \in 1 .. Len(messages)
      BY <3>1, <2>3, <2>4
    <3>3. QED
      BY <3>2, <2>4 DEF QueueInv, Increasing
  <2>8. /\ \A i \in 1 .. Len(messages') : messages'[i].id <= count
        /\ \A w \in 1 .. Len(wire) :
             wire[w].id <= count /\ \A i \in 1 .. Len(messages') : wire[w].id < messages'[i].id
    BY <2>3, <2>4 DEF QueueInv
  <2>9. ASSUME NEW d \in Caller, NEW h \in 1 .. Len(cur_string'[d])
        PROVE  /\ cur_string'[d][h].id <= count
               /\ \A i \in 1 .. Len(messages') : cur_string'[d][h].id < messages'[i].id
    <3>1. CASE d # c
      BY <3>1, <2>3, <2>4, <2>6 DEF QueueInv
    <3>2. CASE d = c
      <4>1. h = 1 /\ cur_string'[d][h] = messages[k]
        BY <3>2, <2>6
      <4>2. \A i \in 1 .. Len(messages') : k < k + i /\ k + i \in 1 .. Len(messages)
        BY <2>1, <2>3, <2>4
      <4>3. QED
        BY <4>1, <4>2, <2>1, <2>4 DEF QueueInv, Increasing
    <3>3. QED
      BY <3>1, <3>2
  <2>10. QueueInv'
    BY <2>2, <2>7, <2>8, <2>9 DEF QueueInv
  <2>11. ASSUME OneWorker'
         PROVE  /\ Increasing(wire')
                /\ \A d \in Caller : \A h \in 1 .. Len(cur_string'[d]) :
                     \A w \in 1 .. Len(wire') : wire'[w].id < cur_string'[d][h].id
    <3>1. OneWorker
      BY <2>11, <2>2, <2>3 DEF OneWorker, Working
    <3>2. Increasing(wire')
      BY <3>1, <2>2 DEF WireInv, Increasing
    <3>3. ASSUME NEW d \in Caller, NEW h \in 1 .. Len(cur_string'[d]),
                 NEW w \in 1 .. Len(wire)
          PROVE  wire[w].id < cur_string'[d][h].id
      <4>1. CASE d # c
        BY <4>1, <3>1, <2>6 DEF WireInv
      <4>2. CASE d = c
        <5>1. h = 1 /\ cur_string'[d][h] = messages[k]
          BY <4>2, <2>6
        <5>2. QED
          BY <5>1, <2>1 DEF QueueInv
      <4>3. QED
        BY <4>1, <4>2
    <3>4. QED
      BY <3>2, <3>3, <2>2
  <2>12. QED
    BY <2>10, <2>11 DEF WireInv
<1>10. ASSUME NEW c \in Caller, WorkerLocks(c) PROVE QueueInv' /\ WireInv'
  <2>1. \A d \in Caller : Working(d) => Working(d)'
    BY <1>10, <1>t DEF WorkerLocks, Working, TypeOK
  <2>2. QED
    BY <1>10, <2>1, OrderInvFrame DEF WorkerLocks
<1>11. ASSUME NEW c \in Caller, WorkerSends(c) PROVE QueueInv' /\ WireInv'
  <2> DEFINE m == cur_string[c][1]
  <2>1. /\ wire' = Append(wire, m)
        /\ cur_string' = [cur_string EXCEPT ![c] = << >>]
        /\ worker[c] = "send"
        /\ worker' = [worker EXCEPT ![c] = "poll"]
        /\ UNCHANGED <<messages, count>>
    BY <1>11 DEF WorkerSends, Deleted, Loop
  <2>2. /\ messages \in Seq(Message) /\ Len(messages) \in Nat
        /\ wire \in Seq(Message) /\ count \in Nat
        /\ cur_string \in [Caller -> Seq(Message)]
        /\ worker \in [Caller -> WorkerStep]
        /\ Len(cur_string[c]) = 1
    BY <1>t, <2>1 DEF TypeOK
  <2>a. 1 \in 1 .. Len(cur_string[c]) /\ cur_string[c] \in Seq(Message)
    BY <2>2
  <2>3. /\ m \in Message /\ m.id \in Nat /\ m.id <= count
        /\ \A i \in 1 .. Len(messages) : m.id < messages[i].id
    BY <2>a, Ids DEF QueueInv
  <2>4. OneWorker => \A w \in 1 .. Len(wire) : wire[w].id < m.id
    BY <2>2 DEF WireInv
  <2> HIDE DEF m
  <2>5. \A w \in 1 .. Len(wire') :
          \/ w \in 1 .. Len(wire) /\ wire'[w] = wire[w]
          \/ w = Len(wire) + 1 /\ wire'[w] = m
    BY <2>1, <2>2, <2>3
  <2>6. /\ \A d \in Caller : d # c => cur_string'[d] = cur_string[d]
        /\ Len(cur_string'[c]) = 0
    BY <2>1, <2>2
  <2>7. QueueInv'
    BY <2>1, <2>3, <2>5, <2>6 DEF QueueInv, Increasing
  <2>8. ASSUME OneWorker'
        PROVE  /\ Increasing(wire')
               /\ \A d \in Caller : \A h \in 1 .. Len(cur_string'[d]) :
                    \A w \in 1 .. Len(wire') : wire'[w].id < cur_string'[d][h].id
    <3>1. OneWorker
      BY <2>8, <2>1, <2>2 DEF OneWorker, Working
    <3>2. \A w \in 1 .. Len(wire) : wire[w].id \in Nat
      BY <2>2, Ids
    <3>3. Increasing(wire')
      <4>1. SUFFICES ASSUME NEW i \in 1 .. Len(wire'), NEW j \in 1 .. Len(wire'), i < j
                     PROVE  wire'[i].id < wire'[j].id
        BY DEF Increasing
      <4>2. i \in 1 .. Len(wire) /\ wire'[i] = wire[i]
        BY <4>1, <2>1, <2>2, <2>3
      <4>3. CASE j \in 1 .. Len(wire) /\ wire'[j] = wire[j]
        BY <4>1, <4>2, <4>3, <3>1 DEF WireInv, Increasing
      <4>4. CASE wire'[j] = m
        BY <4>2, <4>4, <3>1, <2>4
      <4>5. QED
        BY <4>3, <4>4, <2>5
    <3>4. \A d \in Caller : Len(cur_string'[d]) = 0
      <4>1. ASSUME NEW d \in Caller, d # c PROVE worker[d] = "none"
        BY <3>1, <4>1, <2>1 DEF OneWorker, Working
      <4>2. ASSUME NEW d \in Caller, d # c PROVE Len(cur_string[d]) = 0
        BY <4>1, <4>2, <1>t DEF TypeOK
      <4>3. QED
        BY <4>2, <2>6
    <3>5. QED
      BY <3>3, <3>4
  <2>9. QED
    BY <2>7, <2>8 DEF WireInv
<1>12. ASSUME NEW c \in Caller, WorkerFails(c) PROVE QueueInv' /\ WireInv'
  BY <1>12, OrderInvFrame DEF WorkerFails, Working
<1>13. ASSUME NEW p \in {"SEND_ALL", "SEND_LAST"}, SetSendPolicy(p)
       PROVE QueueInv' /\ WireInv'
  BY <1>13, OrderInvFrame DEF SetSendPolicy, Working
<1>14. CASE PeerGone
  BY <1>14, OrderInvFrame DEF PeerGone, Working
<1>15. CASE UNCHANGED vars
  BY <1>15, OrderInvFrame DEF vars, Working
<1>16. QED
  BY <1>1, <1>2, <1>3, <1>4, <1>5, <1>6, <1>7, <1>8, <1>9, <1>10, <1>11,
     <1>12, <1>13, <1>14, <1>15 DEF Next, CallStep, AsyncSend

\* While at most one AsyncSend thread exists, queued messages reach the socket
\* in the order they were queued (rpc.h:55-56), for any number of callers and
\* messages and whatever the policies drop.
THEOREM SentInOrderAlways == Spec => []SentInOrder
<1>1. OrderInv => SentInOrder
  BY DEF OrderInv, WireInv, SentInOrder
<1>2. QED
  BY <1>1, OrderInvInit, OrderInvStep, PTL DEF Spec

------------------------------------------------------------------------------
(***************************************************************************)
(* What SEND_LAST forgets.  DroppedForNewer is inductive once the deque is *)
(* known to be in order.                                                   *)
(***************************************************************************)

\* A message that left the deque stays visible until the end: a step that does
\* not touch what is held keeps DroppedForNewer.
LEMMA DroppedFrame ==
  ASSUME DroppedForNewer, TypeOK, count' \in Nat, count <= count',
         UNCHANGED <<cur_string, wire, dropped>>
  PROVE  DroppedForNewer'
<1>1. \A n \in 1 .. count : n \in 1 .. count'
  BY DEF TypeOK
<1>2. QED
  BY <1>1 DEF DroppedForNewer, Sent, HeldBy

\* A step that drops messages takes a newer one, and a step that lets go of a
\* message sends it.
LEMMA DroppedStep == OrderInv /\ DroppedForNewer /\ [Next]_vars => DroppedForNewer'
<1> SUFFICES ASSUME TypeOK, QueueInv, DroppedForNewer, [Next]_vars
             PROVE  DroppedForNewer'
  BY DEF OrderInv, TInv
<1> USE DEF callVars, workerVars
<1>0. count \in Nat
  BY DEF TypeOK
<1>1. ASSUME NEW c \in Caller, CallAsync(c) \/ CallSync(c) PROVE DroppedForNewer'
  BY <1>0, <1>1, DroppedFrame DEF CallAsync, CallSync
<1>2. ASSUME NEW c \in Caller, Spawn(c) \/ MarkStarted(c) PROVE DroppedForNewer'
  BY <1>0, <1>2, DroppedFrame DEF Spawn, MarkStarted
<1>3. ASSUME NEW c \in Caller, Push(c) PROVE DroppedForNewer'
  BY <1>0, <1>3, DroppedFrame DEF Push
<1>4. ASSUME NEW c \in Caller, CallerLocks(c) \/ CallerSends(c) \/ CallerKilled(c)
      PROVE DroppedForNewer'
  BY <1>0, <1>4, DroppedFrame DEF CallerLocks, CallerSends, CallerKilled
<1>5. ASSUME NEW c \in Caller, Dequeue(c) PROVE DroppedForNewer'
  <2>1. PICK k \in 1 .. Len(messages) :
          /\ FrontIs(messages, send_policy, k)
          /\ cur_string' = [cur_string EXCEPT ![c] = <<messages[k]>>]
          /\ dropped' = dropped \cup {messages[i] : i \in 1 .. k - 1}
    BY <1>5 DEF Dequeue
  <2>2. UNCHANGED <<count, wire>> /\ worker[c] = "poll"
    BY <1>5 DEF Dequeue
  <2>3. /\ cur_string \in [Caller -> Seq(Message)] /\ Len(cur_string[c]) = 0
        /\ messages \in Seq(Message)
    BY <2>2 DEF TypeOK
  <2>4. /\ \A d \in Caller : d # c => cur_string'[d] = cur_string[d]
        /\ Len(cur_string'[c]) = 1 /\ cur_string'[c][1] = messages[k]
    BY <2>1, <2>3
  <2>5. /\ messages[k] \in Message
        /\ messages[k].id \in 1 .. count
    <3>1. messages[k] \in Message /\ messages[k].id <= count
      BY <2>3, Ids DEF QueueInv
    <3>2. messages[k].id \in Nat \ {0}
      BY <3>1 DEF Message
    <3>3. QED
      BY <3>1, <3>2, <1>0
  <2>i. PICK nid \in 1 .. count : nid = messages[k].id
    BY <2>5
  <2>6. HeldBy(nid, c)'
    <3>1. 1 \in 1 .. Len(cur_string'[c]) /\ cur_string'[c][1].id = nid
      BY <2>4, <2>i
    <3>2. QED
      BY <3>1 DEF HeldBy
  <2>7. ASSUME NEW m \in dropped
        PROVE  /\ ~ m.ensured
               /\ \E n \in 1 .. count' :
                    n > m.id /\ (Sent(n)' \/ \E d \in Caller : HeldBy(n, d)')
    <3>1. ~ m.ensured
      BY DEF DroppedForNewer
    <3>2. PICK n \in 1 .. count : n > m.id /\ (Sent(n) \/ \E d \in Caller : HeldBy(n, d))
      BY DEF DroppedForNewer
    <3>3. CASE Sent(n)
      BY <3>1, <3>2, <3>3, <2>2 DEF Sent
    <3>4. ASSUME NEW d \in Caller, HeldBy(n, d) PROVE HeldBy(n, d)'
      BY <3>4, <2>3, <2>4 DEF HeldBy
    <3>5. QED
      BY <3>1, <3>2, <3>3, <3>4, <2>2
  <2>8. ASSUME NEW i \in 1 .. k - 1
        PROVE  /\ ~ messages[i].ensured
               /\ messages[k].id > messages[i].id
    <3>1. ~ messages[i].ensured
      BY <2>1 DEF FrontIs
    <3>2. i \in 1 .. Len(messages) /\ i < k
      BY <2>1, <2>3
    <3>3. messages[i].id < messages[k].id
      BY <3>2 DEF QueueInv, Increasing
    <3>4. messages[i].id \in Nat /\ messages[k].id \in Nat
      BY <3>2, <2>3, Ids
    <3>5. QED
      BY <3>1, <3>3, <3>4
  <2>9. ASSUME NEW m \in dropped'
        PROVE  /\ ~ m.ensured
               /\ \E n \in 1 .. count' :
                    n > m.id /\ (Sent(n)' \/ \E d \in Caller : HeldBy(n, d)')
    <3>1. CASE m \in dropped
      BY <3>1, <2>7
    <3>2. CASE \E i \in 1 .. k - 1 : m = messages[i]
      <4>1. PICK i \in 1 .. k - 1 : m = messages[i]
        BY <3>2
      <4>2. ~ m.ensured /\ nid > m.id
        BY <4>1, <2>8, <2>i
      <4>3. nid \in 1 .. count'
        BY <2>2
      <4>4. QED
        BY <4>2, <4>3, <2>6
    <3>3. QED
      BY <3>1, <3>2, <2>1
  <2>10. QED
    BY <2>9 DEF DroppedForNewer
<1>6. ASSUME NEW c \in Caller, WorkerLocks(c) \/ WorkerFails(c) PROVE DroppedForNewer'
  BY <1>0, <1>6, DroppedFrame DEF WorkerLocks, WorkerFails
<1>7. ASSUME NEW c \in Caller, WorkerSends(c) PROVE DroppedForNewer'
  <2>1. /\ wire' = Append(wire, cur_string[c][1])
        /\ cur_string' = [cur_string EXCEPT ![c] = << >>]
        /\ worker[c] = "send"
        /\ UNCHANGED <<count, dropped>>
    BY <1>7 DEF WorkerSends, Deleted
  <2>2. /\ wire \in Seq(Message)
        /\ cur_string \in [Caller -> Seq(Message)] /\ Len(cur_string[c]) = 1
    BY <2>1 DEF TypeOK
  <2>3. cur_string[c][1] \in Message
    <3>1. cur_string[c] \in Seq(Message) /\ 1 \in 1 .. Len(cur_string[c])
      BY <2>2
    <3>2. QED
      BY <3>1, Ids
  <2>4. /\ Len(wire') = Len(wire) + 1
        /\ \A i \in 1 .. Len(wire) : wire'[i] = wire[i]
        /\ wire'[Len(wire) + 1] = cur_string[c][1]
        /\ \A d \in Caller : d # c => cur_string'[d] = cur_string[d]
    BY <2>1, <2>2, <2>3
  <2>5. ASSUME NEW n, Sent(n) PROVE Sent(n)'
    BY <2>5, <2>2, <2>4 DEF Sent
  <2>6. ASSUME NEW n, NEW d \in Caller, HeldBy(n, d) PROVE Sent(n)' \/ HeldBy(n, d)'
    <3>1. CASE d # c
      BY <3>1, <2>6, <2>4 DEF HeldBy
    <3>2. CASE d = c
      <4>1. cur_string[c][1].id = n
        BY <3>2, <2>6, <2>2 DEF HeldBy
      <4>2. QED
        BY <4>1, <2>2, <2>4 DEF Sent
    <3>3. QED
      BY <3>1, <3>2
  <2>7. QED
    BY <2>1, <2>5, <2>6 DEF DroppedForNewer
<1>8. ASSUME NEW p \in {"SEND_ALL", "SEND_LAST"}, SetSendPolicy(p) PROVE DroppedForNewer'
  BY <1>0, <1>8, DroppedFrame DEF SetSendPolicy
<1>9. CASE PeerGone \/ UNCHANGED vars
  BY <1>0, <1>9, DroppedFrame DEF PeerGone, vars
<1>10. QED
  BY <1>1, <1>2, <1>3, <1>4, <1>5, <1>6, <1>7, <1>8, <1>9 DEF Next, CallStep, AsyncSend

\* A message is dropped only when it is not ensured and a newer one was already
\* taken to be sent (rpc.cpp:111-119), whatever the policy was before, however
\* many AsyncSend threads drain the deque.
THEOREM DroppedForNewerAlways == Spec => []DroppedForNewer
<1>1. Init => DroppedForNewer
  BY DEF Init, DroppedForNewer
<1>2. QED
  BY <1>1, OrderInvInit, OrderInvStep, DroppedStep, PTL DEF Spec

------------------------------------------------------------------------------
(***************************************************************************)
(* One place for each message.  InOnePlace counts places; the invariant    *)
(* says that every number is somewhere and that two places of one number   *)
(* are the same.  The deque needs nothing more than QueueInv: it is in     *)
(* order, and newer than all that left it.                                 *)
(***************************************************************************)
Waits(n) == \E i \in 1 .. Len(messages) : messages[i].id = n

\* No message is lost.
SomewhereInv ==
  \A n \in 1 .. count :
    Waits(n) \/ (\E c \in Caller : HeldBy(n, c)) \/ Sent(n) \/ Dropped(n)

\* Nothing is sent twice.
SentOnceInv == \A i, j \in 1 .. Len(wire) : wire[i].id = wire[j].id => i = j

\* What a thread holds, no other thread holds, and it is neither sent nor dropped.
HeldInv ==
  \A c \in Caller, n \in Nat :
    HeldBy(n, c) =>
      ~ Sent(n) /\ ~ Dropped(n) /\ \A d \in Caller : HeldBy(n, d) => d = c

\* What is dropped is older than the deque, not sent, and dropped once.
DroppedInv ==
  \A m \in dropped :
    /\ m.id <= count
    /\ \A i \in 1 .. Len(messages) : m.id < messages[i].id
    /\ ~ Sent(m.id)
    /\ \A k \in dropped : k.id = m.id => k = m

PlaceInv == SomewhereInv /\ SentOnceInv /\ HeldInv /\ DroppedInv

\* Nothing is anywhere at first.
LEMMA PlaceInvInit == Init => PlaceInv
<1> SUFFICES ASSUME Init PROVE PlaceInv
  OBVIOUS
<1>1. /\ Len(messages) = 0 /\ Len(wire) = 0 /\ dropped = {} /\ count = 0
      /\ \A c \in Caller : Len(cur_string[c]) = 0
  BY DEF Init
<1>2. QED
  BY <1>1 DEF PlaceInv, SomewhereInv, SentOnceInv, HeldInv, DroppedInv, HeldBy, Sent, Dropped

\* The invariant is about these five variables.
LEMMA PlaceInvFrame ==
  ASSUME PlaceInv, UNCHANGED <<messages, count, cur_string, wire, dropped>>
  PROVE  PlaceInv'
BY DEF PlaceInv, SomewhereInv, SentOnceInv, HeldInv, DroppedInv, Waits, HeldBy, Sent, Dropped

\* A push puts the new number into the deque and nowhere else.
LEMMA PlaceInvPush ==
  ASSUME TypeOK, QueueInv, PlaceInv, NEW c \in Caller, Push(c)
  PROVE  PlaceInv'
<1>1. PICK e \in BOOLEAN :
        messages' = Pushed(messages, [id |-> count + 1, ensured |-> e])
  BY DEF Push
<1>2. UNCHANGED <<cur_string, wire, dropped>> /\ count' = count + 1
  BY DEF Push, workerVars
<1>3. /\ messages \in Seq(Message) /\ Len(messages) \in Nat /\ count \in Nat
      /\ wire \in Seq(Message) /\ cur_string \in [Caller -> Seq(Message)]
      /\ dropped \in SUBSET Message
  BY DEF TypeOK
<1> DEFINE m == [id |-> count + 1, ensured |-> e]
<1>4. m \in Message /\ m.id = count + 1
  BY <1>3 DEF Message
<1> HIDE DEF m
<1>5. /\ Len(messages') = Len(messages) + 1
      /\ \A i \in 1 .. Len(messages) : messages'[i] = messages[i]
      /\ messages'[Len(messages) + 1] = m
  <2>1. messages' = Pushed(messages, m)
    BY <1>1 DEF m
  <2>2. messages \in Seq(Message) /\ m \in Message
    BY <1>3, <1>4
  <2>3. QED
    BY ONLY <2>1, <2>2, PushedProperties
<1>6. SomewhereInv'
  <2>1. ASSUME NEW n \in 1 .. count'
        PROVE  \/ \E i \in 1 .. Len(messages') : messages'[i].id = n
               \/ \E d \in Caller : HeldBy(n, d)
               \/ Sent(n)
               \/ Dropped(n)
    <3>1. CASE n \in 1 .. count
      <4>1. CASE \E i \in 1 .. Len(messages) : messages[i].id = n
        BY <4>1, <1>3, <1>5
      <4>2. QED
        BY <3>1, <4>1 DEF PlaceInv, SomewhereInv, Waits
    <3>2. CASE n = count + 1
      <4>1. /\ Len(messages) + 1 \in 1 .. Len(messages')
            /\ messages'[Len(messages) + 1].id = n
        BY <3>2, <1>3, <1>4, <1>5
      <4>2. QED
        BY <4>1
    <3>3. n \in 1 .. count \/ n = count + 1
      BY <1>2, <1>3
    <3>4. QED
      BY <3>1, <3>2, <3>3
  <2>2. QED
    BY <2>1, <1>2 DEF SomewhereInv, Waits, HeldBy, Sent, Dropped
<1>7. SentOnceInv' /\ HeldInv'
  BY <1>2 DEF PlaceInv, SentOnceInv, HeldInv, HeldBy, Sent, Dropped
<1>8. DroppedInv'
  <2>1. ASSUME NEW k \in dropped'
        PROVE  /\ k.id <= count'
               /\ \A i \in 1 .. Len(messages') : k.id < messages'[i].id
    <3>1. /\ k.id \in Nat /\ k.id <= count
          /\ \A i \in 1 .. Len(messages) : k.id < messages[i].id
      BY <1>2, <1>3 DEF PlaceInv, DroppedInv, Message
    <3>2. \A i \in 1 .. Len(messages') :
            \/ i \in 1 .. Len(messages) /\ messages'[i] = messages[i]
            \/ messages'[i] = m
      BY <1>3, <1>5
    <3>3. /\ count \in Nat /\ count' = count + 1 /\ m.id = count + 1
      BY <1>2, <1>3, <1>4
    <3>4. k.id <= count'
      BY ONLY <3>1, <3>3
    <3>5. ASSUME NEW i \in 1 .. Len(messages') PROVE k.id < messages'[i].id
      <4>1. CASE i \in 1 .. Len(messages) /\ messages'[i] = messages[i]
        BY <3>1, <4>1
      <4>2. CASE messages'[i] = m
        BY ONLY <3>1, <3>3, <4>2
      <4>3. QED
        BY <3>2, <4>1, <4>2
    <3>6. QED
      BY <3>4, <3>5
  <2>2. \A k \in dropped' : ~ Sent(k.id)' /\ \A j \in dropped' : j.id = k.id => j = k
    BY <1>2 DEF PlaceInv, DroppedInv, Sent
  <2>3. QED
    BY <2>1, <2>2 DEF DroppedInv
<1>9. QED
  BY <1>6, <1>7, <1>8 DEF PlaceInv


\* A critical section of AsyncSend moves the front to the thread's hand, and
\* what was before it among the dropped.
LEMMA PlaceInvDequeue ==
  ASSUME TypeOK, QueueInv, PlaceInv, NEW c \in Caller, Dequeue(c)
  PROVE  PlaceInv'
<1>1. PICK k \in 1 .. Len(messages) :
        /\ cur_string' = [cur_string EXCEPT ![c] = <<messages[k]>>]
        /\ messages' = Behind(messages, k)
        /\ dropped' = dropped \cup {messages[i] : i \in 1 .. k - 1}
  BY DEF Dequeue
<1>2. UNCHANGED <<count, wire>> /\ worker[c] = "poll"
  BY DEF Dequeue
<1>3. /\ messages \in Seq(Message) /\ Len(messages) \in Nat /\ count \in Nat
      /\ wire \in Seq(Message) /\ cur_string \in [Caller -> Seq(Message)]
      /\ dropped \in SUBSET Message
      /\ \A d \in Caller :
           Len(cur_string[d]) = IF worker[d] \in {"lock", "send"} THEN 1 ELSE 0
  BY DEF TypeOK
<1>c. Len(cur_string[c]) = 0
  BY <1>2, <1>3
<1>4. /\ Len(messages') = Len(messages) - k
      /\ \A i \in 1 .. Len(messages') :
           k + i \in 1 .. Len(messages) /\ messages'[i] = messages[k + i]
  <2>1. messages \in Seq(Message) /\ k \in 1 .. Len(messages)
    BY <1>3
  <2>2. QED
    BY ONLY <2>1, <1>1, BehindProperties
<1>5. \A i \in 1 .. Len(messages) : messages[i] \in Message /\ messages[i].id \in Nat
  BY <1>3, Ids
<1>6. /\ \A d \in Caller : d # c => cur_string'[d] = cur_string[d]
      /\ Len(cur_string'[c]) = 1 /\ cur_string'[c][1] = messages[k]
  BY <1>1, <1>3
<1>7. PICK front \in Nat : front = messages[k].id
  BY <1>5
<1>8. \A n : (\E h \in 1 .. Len(cur_string'[c]) : cur_string'[c][h].id = n) <=> n = front
  BY <1>6, <1>7
<1>9. \A i, j \in 1 .. Len(messages) :
        /\ i < j => messages[i].id < messages[j].id
        /\ messages[i].id = messages[j].id => i = j
  BY <1>3, <1>5 DEF QueueInv, Increasing
<1>10. \A w \in 1 .. Len(wire) : \A i \in 1 .. Len(messages) : wire[w].id < messages[i].id
  BY DEF QueueInv
<1>11. \A d \in Caller : \A h \in 1 .. Len(cur_string[d]) :
         \A i \in 1 .. Len(messages) : cur_string[d][h].id < messages[i].id
  BY DEF QueueInv
<1>12. \A m \in dropped : m.id \in Nat /\ \A i \in 1 .. Len(messages) : m.id < messages[i].id
  BY <1>3 DEF PlaceInv, DroppedInv, Message
<1>13. \A m \in dropped' :
         m \in dropped \/ \E i \in 1 .. k - 1 : i \in 1 .. Len(messages) /\ m = messages[i]
  BY <1>1, <1>3
<1>14. SomewhereInv'
  <2>1. ASSUME NEW n \in 1 .. count
        PROVE  \/ \E i \in 1 .. Len(messages') : messages'[i].id = n
               \/ \E d \in Caller : \E h \in 1 .. Len(cur_string'[d]) : cur_string'[d][h].id = n
               \/ Sent(n)
               \/ \E m \in dropped' : m.id = n
    <3>1. ASSUME NEW i \in 1 .. Len(messages), messages[i].id = n
          PROVE  \/ \E j \in 1 .. Len(messages') : messages'[j].id = n
                 \/ n = front
                 \/ \E m \in dropped' : m.id = n
      <4>1. CASE i < k
        BY <4>1, <3>1, <1>1, <1>3
      <4>2. CASE i = k
        BY <4>2, <3>1, <1>7
      <4>3. CASE i > k
        <5>1. i - k \in 1 .. Len(messages') /\ k + (i - k) = i
          BY <4>3, <1>3, <1>4
        <5>2. QED
          BY <5>1, <3>1, <1>4
      <4>4. QED
        BY <4>1, <4>2, <4>3, <1>3
    <3>2. ASSUME NEW d \in Caller, HeldBy(n, d)
          PROVE  \E h \in 1 .. Len(cur_string'[d]) : cur_string'[d][h].id = n
      <4>1. d # c
        BY <3>2, <1>c DEF HeldBy
      <4>2. QED
        BY <4>1, <3>2, <1>6 DEF HeldBy
    <3>3. Dropped(n) => \E m \in dropped' : m.id = n
      BY <1>1 DEF Dropped
    <3>4. QED
      BY <3>1, <3>2, <3>3, <1>8 DEF PlaceInv, SomewhereInv, Waits
  <2>2. QED
    BY <2>1, <1>2 DEF SomewhereInv, Waits, HeldBy, Sent, Dropped
<1>15. SentOnceInv'
  BY <1>2 DEF PlaceInv, SentOnceInv
<1>16. HeldInv'
  <2>1. ~ Sent(front)
    BY <1>3, <1>7, <1>10, Ids DEF Sent
  <2>2. ASSUME NEW d \in Caller PROVE ~ HeldBy(front, d)
    <3>1. \A h \in 1 .. Len(cur_string[d]) : cur_string[d][h].id < front
      BY <1>7, <1>11
    <3>2. \A h \in 1 .. Len(cur_string[d]) : cur_string[d][h].id \in Nat
      BY <1>3, Ids
    <3>3. QED
      BY <3>1, <3>2 DEF HeldBy
  <2>3. \A m \in dropped' : m.id # front
    <3>1. \A m \in dropped : m.id # front
      BY <1>7, <1>12
    <3>2. \A i \in 1 .. k - 1 : messages[i].id # front
      BY <1>3, <1>5, <1>7, <1>9
    <3>3. QED
      BY <3>1, <3>2, <1>1
  <2>4. ASSUME NEW d \in Caller, d # c, NEW n \in Nat, HeldBy(n, d)
        PROVE  /\ ~ Sent(n) /\ n # front
               /\ \A m \in dropped' : m.id # n
               /\ \A b \in Caller : HeldBy(n, b) => b = d
    <3>1. ~ Sent(n) /\ ~ Dropped(n) /\ \A b \in Caller : HeldBy(n, b) => b = d
      BY <2>4 DEF PlaceInv, HeldInv
    <3>2. \A i \in 1 .. Len(messages) : messages[i].id # n
      BY <2>4, <1>5, <1>11 DEF HeldBy
    <3>3. \A m \in dropped' : m.id # n
      BY <3>1, <3>2, <1>13 DEF Dropped
    <3>4. QED
      BY <3>1, <3>2, <3>3, <1>7
  <2>5. \A d \in Caller : \A n \in Nat :
          (\E h \in 1 .. Len(cur_string'[d]) : cur_string'[d][h].id = n)
            <=> (d = c /\ n = front) \/ (d # c /\ HeldBy(n, d))
    BY <1>6, <1>8 DEF HeldBy
  <2>6. ASSUME NEW d \in Caller, NEW n \in Nat,
               \E h \in 1 .. Len(cur_string'[d]) : cur_string'[d][h].id = n
        PROVE  /\ ~ Sent(n)
               /\ ~ \E m \in dropped' : m.id = n
               /\ \A b \in Caller :
                    (\E h \in 1 .. Len(cur_string'[b]) : cur_string'[b][h].id = n) => b = d
    <3>1. CASE d = c /\ n = front
      BY <3>1, <2>1, <2>2, <2>3, <2>5
    <3>2. CASE d # c /\ HeldBy(n, d)
      BY <3>2, <2>4, <2>5
    <3>3. QED
      BY <2>5, <2>6, <3>1, <3>2
  <2>7. QED
    BY <2>6, <1>2 DEF HeldInv, HeldBy, Sent, Dropped
<1>17. DroppedInv'
  <2>1. ASSUME NEW m \in dropped'
        PROVE  /\ m.id <= count
               /\ \A i \in 1 .. Len(messages') : m.id < messages'[i].id
               /\ ~ Sent(m.id)
               /\ \A j \in dropped' : j.id = m.id => j = m
    <3>1. CASE m \in dropped
      <4>1. /\ m.id <= count /\ ~ Sent(m.id)
            /\ \A j \in dropped : j.id = m.id => j = m
        BY <3>1 DEF PlaceInv, DroppedInv
      <4>2. \A i \in 1 .. Len(messages) : m.id < messages[i].id /\ m.id # messages[i].id
        BY <3>1, <1>5, <1>12
      <4>3. QED
        BY <4>1, <4>2, <1>4, <1>13
    <3>2. ASSUME NEW i \in 1 .. k - 1, i \in 1 .. Len(messages), m = messages[i]
          PROVE  /\ m.id <= count
                 /\ \A p \in 1 .. Len(messages') : m.id < messages'[p].id
                 /\ ~ Sent(m.id)
                 /\ \A j \in dropped' : j.id = m.id => j = m
      <4>1. m.id <= count
        BY <3>2 DEF QueueInv
      <4>2. \A p \in 1 .. Len(messages') : i < k + p
        BY <1>3
      <4>3. \A p \in 1 .. Len(messages') : m.id < messages'[p].id
        BY <3>2, <4>2, <1>4, <1>9
      <4>4. ~ Sent(m.id)
        BY <3>2, <1>3, <1>5, <1>10, Ids DEF Sent
      <4>5. \A j \in dropped : j.id # m.id
        BY <3>2, <1>5, <1>12
      <4>6. \A j \in dropped' : j.id = m.id => j = m
        BY <3>2, <4>5, <1>9, <1>13
      <4>7. QED
        BY <4>1, <4>3, <4>4, <4>6
    <3>3. QED
      BY <3>1, <3>2, <1>13
  <2>2. QED
    BY <2>1, <1>2 DEF DroppedInv, Sent
<1>18. QED
  BY <1>14, <1>15, <1>16, <1>17 DEF PlaceInv

\* A send moves the message from the thread's hand to the socket.
LEMMA PlaceInvSends ==
  ASSUME TypeOK, QueueInv, PlaceInv, NEW c \in Caller, WorkerSends(c)
  PROVE  PlaceInv'
<1> DEFINE m == cur_string[c][1]
<1>1. /\ wire' = Append(wire, m)
      /\ cur_string' = [cur_string EXCEPT ![c] = << >>]
      /\ worker[c] = "send"
      /\ UNCHANGED <<messages, count, dropped>>
  BY DEF WorkerSends, Deleted
<1>2. /\ wire \in Seq(Message) /\ Len(wire) \in Nat
      /\ cur_string \in [Caller -> Seq(Message)] /\ Len(cur_string[c]) = 1
  BY <1>1 DEF TypeOK
<1>3. m \in Message /\ m.id \in Nat
  <2>1. cur_string[c] \in Seq(Message) /\ 1 \in 1 .. Len(cur_string[c])
    BY <1>2
  <2>2. QED
    BY <2>1, Ids
<1>4. \A n : HeldBy(n, c) <=> n = m.id
  BY <1>2 DEF HeldBy
<1> HIDE DEF m
<1>5. /\ Len(wire') = Len(wire) + 1
      /\ \A i \in 1 .. Len(wire) : wire'[i] = wire[i]
      /\ wire'[Len(wire) + 1] = m
      /\ \A d \in Caller : d # c => cur_string'[d] = cur_string[d]
      /\ Len(cur_string'[c]) = 0
  BY <1>1, <1>2, <1>3
<1>6. \A i \in 1 .. Len(wire') :
        \/ i \in 1 .. Len(wire) /\ wire'[i] = wire[i]
        \/ i = Len(wire) + 1 /\ wire'[i] = m
  BY <1>2, <1>5
<1>7. ASSUME NEW n
      PROVE  (\E i \in 1 .. Len(wire') : wire'[i].id = n) <=> Sent(n) \/ n = m.id
  <2>1. Len(wire) + 1 \in 1 .. Len(wire') /\ \A i \in 1 .. Len(wire) : i \in 1 .. Len(wire')
    BY <1>2, <1>5
  <2>2. QED
    BY <2>1, <1>5, <1>6 DEF Sent
<1>8. \A d \in Caller : \A n :
        (\E h \in 1 .. Len(cur_string'[d]) : cur_string'[d][h].id = n)
          <=> d # c /\ HeldBy(n, d)
  BY <1>5 DEF HeldBy
<1>9. /\ ~ Sent(m.id) /\ ~ Dropped(m.id)
      /\ \A d \in Caller : HeldBy(m.id, d) => d = c
  BY <1>3, <1>4 DEF PlaceInv, HeldInv
<1>10. SomewhereInv'
  <2>1. ASSUME NEW n \in 1 .. count
        PROVE  \/ Waits(n)
               \/ \E d \in Caller : \E h \in 1 .. Len(cur_string'[d]) : cur_string'[d][h].id = n
               \/ \E i \in 1 .. Len(wire') : wire'[i].id = n
               \/ Dropped(n)
    BY <1>4, <1>7, <1>8, SMTT(20) DEF PlaceInv, SomewhereInv
  <2>2. QED
    BY <2>1, <1>1 DEF SomewhereInv, Waits, HeldBy, Sent, Dropped
<1>11. SentOnceInv'
  <2>1. \A i \in 1 .. Len(wire) : wire[i].id # m.id
    BY <1>9 DEF Sent
  <2>2. \A i, j \in 1 .. Len(wire') : wire'[i].id = wire'[j].id => i = j
    BY <2>1, <1>6 DEF PlaceInv, SentOnceInv
  <2>3. QED
    BY <2>2 DEF SentOnceInv
<1>12. HeldInv'
  <2>1. ASSUME NEW d \in Caller, NEW n \in Nat, d # c, HeldBy(n, d)
        PROVE  /\ ~ (Sent(n) \/ n = m.id) /\ ~ Dropped(n)
               /\ \A b \in Caller : b # c /\ HeldBy(n, b) => b = d
    BY <2>1, <1>9 DEF PlaceInv, HeldInv
  <2>2. ASSUME NEW d \in Caller, NEW n \in Nat,
               \E h \in 1 .. Len(cur_string'[d]) : cur_string'[d][h].id = n
        PROVE  /\ ~ \E i \in 1 .. Len(wire') : wire'[i].id = n
               /\ ~ Dropped(n)
               /\ \A b \in Caller :
                    (\E h \in 1 .. Len(cur_string'[b]) : cur_string'[b][h].id = n) => b = d
    <3>1. d # c /\ HeldBy(n, d)
      BY <2>2, <1>8
    <3>2. QED
      BY <3>1, <2>1, <1>7, <1>8
  <2>3. QED
    BY <2>2, <1>1 DEF HeldInv, HeldBy, Sent, Dropped
<1>13. DroppedInv'
  <2>1. ASSUME NEW k \in dropped PROVE ~ \E i \in 1 .. Len(wire') : wire'[i].id = k.id
    BY <1>7, <1>9 DEF PlaceInv, DroppedInv, Dropped
  <2>2. QED
    BY <2>1, <1>1 DEF PlaceInv, DroppedInv, Sent
<1>14. QED
  BY <1>10, <1>11, <1>12, <1>13 DEF PlaceInv

\* Every step keeps each message in one place.
LEMMA PlaceInvStep == OrderInv /\ PlaceInv /\ [Next]_vars => PlaceInv'
<1> SUFFICES ASSUME TypeOK, QueueInv, PlaceInv, [Next]_vars
             PROVE  PlaceInv'
  BY DEF OrderInv, TInv
<1> USE DEF callVars, workerVars
<1>1. ASSUME NEW c \in Caller, CallAsync(c) \/ CallSync(c) PROVE PlaceInv'
  BY <1>1, PlaceInvFrame DEF CallAsync, CallSync
<1>2. ASSUME NEW c \in Caller, Spawn(c) \/ MarkStarted(c) PROVE PlaceInv'
  BY <1>2, PlaceInvFrame DEF Spawn, MarkStarted
<1>3. ASSUME NEW c \in Caller, Push(c) PROVE PlaceInv'
  BY <1>3, PlaceInvPush
<1>4. ASSUME NEW c \in Caller, CallerLocks(c) \/ CallerSends(c) \/ CallerKilled(c)
      PROVE PlaceInv'
  BY <1>4, PlaceInvFrame DEF CallerLocks, CallerSends, CallerKilled
<1>5. ASSUME NEW c \in Caller, Dequeue(c) PROVE PlaceInv'
  BY <1>5, PlaceInvDequeue
<1>6. ASSUME NEW c \in Caller, WorkerLocks(c) \/ WorkerFails(c) PROVE PlaceInv'
  BY <1>6, PlaceInvFrame DEF WorkerLocks, WorkerFails
<1>7. ASSUME NEW c \in Caller, WorkerSends(c) PROVE PlaceInv'
  BY <1>7, PlaceInvSends
<1>8. ASSUME NEW p \in {"SEND_ALL", "SEND_LAST"}, SetSendPolicy(p) PROVE PlaceInv'
  BY <1>8, PlaceInvFrame DEF SetSendPolicy
<1>9. CASE PeerGone \/ UNCHANGED vars
  BY <1>9, PlaceInvFrame DEF PeerGone, vars
<1>10. QED
  BY <1>1, <1>2, <1>3, <1>4, <1>5, <1>6, <1>7, <1>8, <1>9 DEF Next, CallStep, AsyncSend

\* The places of a number, counted: there is one.
LEMMA OnePlace == OrderInv /\ PlaceInv => InOnePlace
<1> SUFFICES ASSUME TypeOK, QueueInv, PlaceInv, NEW n \in 1 .. count
             PROVE  \E p \in Places(n) : Places(n) = {p}
  BY DEF OrderInv, TInv, InOnePlace
<1>1. /\ messages \in Seq(Message) /\ wire \in Seq(Message) /\ count \in Nat
      /\ cur_string \in [Caller -> Seq(Message)] /\ dropped \in SUBSET Message
  BY DEF TypeOK
<1>2. /\ \A i \in 1 .. Len(messages) : messages[i].id \in Nat
      /\ n \in Nat
  BY <1>1, Ids
<1> DEFINE D == {i \in 1 .. Len(messages) : messages[i].id = n}
           H == {c \in Caller : HeldBy(n, c)}
           W == {i \in 1 .. Len(wire) : wire[i].id = n}
           X == {m \in dropped : m.id = n}
<1>3. Waits(n) => ~ Sent(n) /\ ~ Dropped(n) /\ \A c \in Caller : ~ HeldBy(n, c)
  <2> SUFFICES ASSUME NEW i \in 1 .. Len(messages), messages[i].id = n
               PROVE  ~ Sent(n) /\ ~ Dropped(n) /\ \A c \in Caller : ~ HeldBy(n, c)
    BY DEF Waits
  <2>1. ~ Sent(n)
    BY <1>2 DEF QueueInv, Sent
  <2>2. ~ Dropped(n)
    BY <1>2 DEF PlaceInv, DroppedInv, Dropped
  <2>3. ASSUME NEW c \in Caller PROVE ~ HeldBy(n, c)
    <3>1. \A h \in 1 .. Len(cur_string[c]) : cur_string[c][h].id < n
      BY DEF QueueInv
    <3>2. QED
      BY <3>1, <1>2 DEF HeldBy
  <2>4. QED
    BY <2>1, <2>2, <2>3
<1>4. \A i, j \in D : i = j
  BY <1>1, <1>2 DEF QueueInv, Increasing
<1>5. \A i, j \in W : i = j
  BY DEF PlaceInv, SentOnceInv
<1>6. \A c, d \in H : c = d
  BY <1>2 DEF PlaceInv, HeldInv
<1>7. \A m, k \in X : m = k
  BY DEF PlaceInv, DroppedInv
<1>8. /\ D # {} <=> Waits(n)
      /\ W # {} <=> Sent(n)
      /\ X # {} <=> Dropped(n)
      /\ H # {} <=> \E c \in Caller : HeldBy(n, c)
  BY DEF Waits, Sent, Dropped
<1>9. (\E c \in Caller : HeldBy(n, c)) => ~ Sent(n) /\ ~ Dropped(n)
  BY <1>2 DEF PlaceInv, HeldInv
<1>10. Dropped(n) => ~ Sent(n)
  BY DEF PlaceInv, DroppedInv, Dropped
<1>11. D # {} \/ H # {} \/ W # {} \/ X # {}
  BY <1>8 DEF PlaceInv, SomewhereInv
<1>12. Places(n) = ({"deque"} \X D) \cup ({"held"} \X H) \cup ({"wire"} \X W)
                     \cup ({"dropped"} \X X)
  BY DEF Places
<1> HIDE DEF D, H, W, X
<1>13. CASE D # {}
  <2>p. PICK i \in D : TRUE
    BY <1>13
  <2>1. D = {i}
    BY <2>p, <1>4
  <2>2. H = {} /\ W = {} /\ X = {}
    BY <1>3, <1>8, <1>13
  <2>3. Places(n) = {<<"deque", i>>}
    BY <2>1, <2>2, <1>12
  <2>4. QED
    BY <2>3
<1>14. CASE H # {}
  <2>p. PICK c \in H : TRUE
    BY <1>14
  <2>1. H = {c}
    BY <2>p, <1>6
  <2>2. D = {} /\ W = {} /\ X = {}
    BY <1>3, <1>8, <1>9, <1>14
  <2>3. Places(n) = {<<"held", c>>}
    BY <2>1, <2>2, <1>12
  <2>4. QED
    BY <2>3
<1>15. CASE W # {}
  <2>p. PICK i \in W : TRUE
    BY <1>15
  <2>1. W = {i}
    BY <2>p, <1>5
  <2>2. D = {} /\ H = {} /\ X = {}
    BY <1>3, <1>8, <1>9, <1>10, <1>15
  <2>3. Places(n) = {<<"wire", i>>}
    BY <2>1, <2>2, <1>12
  <2>4. QED
    BY <2>3
<1>16. CASE X # {}
  <2>p. PICK m \in X : TRUE
    BY <1>16
  <2>1. X = {m}
    BY <2>p, <1>7
  <2>2. D = {} /\ H = {} /\ W = {}
    BY <1>3, <1>8, <1>9, <1>10, <1>16
  <2>3. Places(n) = {<<"dropped", m>>}
    BY <2>1, <2>2, <1>12
  <2>4. QED
    BY <2>3
<1>17. QED
  BY <1>11, <1>13, <1>14, <1>15, <1>16

\* Every message that SendMessage queued is in exactly one of the deque, a
\* thread's hand, the socket and the dropped (rpc.cpp:103-129): however many
\* AsyncSend threads drain the deque, none is lost, sent twice, or both sent
\* and dropped.
THEOREM InOnePlaceAlways == Spec => []InOnePlace
BY OrderInvInit, OrderInvStep, PlaceInvInit, PlaceInvStep, OnePlace, PTL DEF Spec


------------------------------------------------------------------------------
(***************************************************************************)
(* What one critical section leaves behind, and the line of one caller.    *)
(***************************************************************************)

\* What FrontIs picks: the front, unless SEND_LAST prunes a deque of more than
\* two messages up to an ensured one or the newest.
LEMMA FrontProperties ==
  ASSUME NEW q \in Seq(Message), NEW policy, NEW k \in 1 .. Len(q), FrontIs(q, policy, k)
  PROVE  /\ k # 1 => policy = "SEND_LAST"
         /\ \A i \in 1 .. k - 1 : ~ q[i].ensured
         /\ policy = "SEND_LAST" => Len(q) - k <= 1 \/ q[k].ensured
<1>1. Len(q) \in Nat
  OBVIOUS
<1>2. CASE policy = "SEND_LAST" /\ Len(q) > 2
  BY <1>1, <1>2 DEF FrontIs
<1>3. CASE ~ (policy = "SEND_LAST" /\ Len(q) > 2)
  <2>1. k = 1
    BY <1>3 DEF FrontIs
  <2>2. QED
    BY <1>1, <1>3, <2>1
<1>4. QED
  BY <1>2, <1>3

\* With SEND_LAST, an AsyncSend thread that takes a message nobody insisted on
\* leaves at most one behind (rpc.cpp:111-127): for any number of callers.
THEOREM AtMostOneBehindAlways == Spec => AtMostOneBehind
<1>1. ASSUME TypeOK, [Next]_vars, NEW c \in Caller,
             worker[c] = "poll", worker'[c] = "lock", send_policy = "SEND_LAST"
      PROVE  Len(messages') <= 1 \/ cur_string'[c][1].ensured
  <2> USE DEF callVars, workerVars
  <2>1. /\ worker \in [Caller -> WorkerStep] /\ messages \in Seq(Message)
        /\ cur_string \in [Caller -> Seq(Message)]
    BY <1>1 DEF TypeOK
  <2>2. CASE Dequeue(c)
    <3>1. PICK k \in 1 .. Len(messages) :
            /\ FrontIs(messages, send_policy, k)
            /\ cur_string' = [cur_string EXCEPT ![c] = <<messages[k]>>]
            /\ messages' = Behind(messages, k)
      BY <2>2 DEF Dequeue
    <3>2. Len(messages) - k <= 1 \/ messages[k].ensured
      BY <3>1, <2>1, <1>1, FrontProperties
    <3>3. Len(messages') = Len(messages) - k
      BY <3>1, <2>1, BehindProperties
    <3>4. cur_string'[c][1] = messages[k]
      BY <3>1, <2>1
    <3>5. QED
      BY <3>2, <3>3, <3>4
  <2>3. ASSUME NEW d \in Caller, d # c, Spawn(d) \/ Dequeue(d) \/ WorkerLocks(d) \/ WorkerSends(d)
        PROVE  FALSE
    BY <2>3, <2>1, <1>1 DEF Spawn, Dequeue, WorkerLocks, WorkerSends
  <2>4. ~ Spawn(c) /\ ~ WorkerLocks(c) /\ ~ WorkerSends(c)
    BY <2>1, <1>1 DEF Spawn, WorkerLocks, WorkerSends
  <2>5. ~ UNCHANGED worker
    BY <1>1
  <2>6. \E d \in Caller : Spawn(d) \/ Dequeue(d) \/ WorkerLocks(d) \/ WorkerSends(d)
    BY <2>5, <1>1 DEF Next, CallStep, AsyncSend, CallAsync, CallSync, MarkStarted, Push,
       CallerLocks, CallerSends, CallerKilled, WorkerFails, SetSendPolicy, PeerGone, vars
  <2>7. QED
    BY <2>2, <2>3, <2>4, <2>6
<1>2. TypeOK /\ [Next]_vars =>
        [\A c \in Caller :
           /\ worker[c] = "poll" /\ worker'[c] = "lock"
           /\ send_policy = "SEND_LAST"
           => Len(messages') <= 1 \/ cur_string'[c][1].ensured]_vars
  BY <1>1
<1>3. QED
  BY <1>2, TypeCorrect, PTL DEF Spec, AtMostOneBehind


------------------------------------------------------------------------------
(***************************************************************************)
(* The refinement of OrderedDelivery, for at most one caller: the message  *)
(* in the hand of its AsyncSend thread, then the deque, are the line.      *)
(***************************************************************************)
OneCaller == \A c, d \in Caller : c = d

\* A message pushed on the deque is at the end of the line.
LEMMA LineAppend ==
  ASSUME NEW S, NEW q \in Seq(S), NEW s \in Seq(S), NEW m \in S
  PROVE  q \o Append(s, m) = Append(q \o s, m)
OBVIOUS

\* The message in hand is the first of the line.
LEMMA LineHead ==
  ASSUME NEW S, NEW s \in Seq(S), NEW m \in S
  PROVE  <<m>> \o s # << >> /\ Head(<<m>> \o s) = m /\ Tail(<<m>> \o s) = s
OBVIOUS

\* Taking the k-th message of the deque skips those before it.
LEMMA LineFrom ==
  ASSUME NEW S, NEW q \in Seq(S), NEW k \in 1 .. Len(q)
  PROVE  <<q[k]>> \o SubSeq(q, k + 1, Len(q)) = SubSeq(q, k, Len(q))
OBVIOUS

\* Nothing in hand: the line is the deque.
LEMMA LineWhole ==
  ASSUME NEW S, NEW q \in Seq(S)
  PROVE  << >> \o q = q /\ SubSeq(q, 1, Len(q)) = q
OBVIOUS

\* What is held is what the one thread holds.
LEMMA HeldIs == OneCaller => \A c \in Caller : Held = cur_string[c]
BY DEF OneCaller, Held

\* Nothing is submitted at first.
LEMMA DeliveryInit == Init => Delivery!Init
<1> SUFFICES ASSUME Init PROVE Delivery!Init
  OBVIOUS
<1>1. \A c \in Caller : cur_string[c] = << >>
  BY DEF Init
<1>2. Held = << >>
  BY <1>1 DEF Held
<1>3. << >> \o << >> = << >>
  OBVIOUS
<1>4. QED
  BY <1>2, <1>3 DEF Init, Delivery!Init

\* A step that touches no message is no step of the line.
LEMMA DeliveryFrame ==
  ASSUME UNCHANGED <<messages, count, cur_string, wire, send_policy>>
  PROVE  UNCHANGED Delivery!odVars
BY DEF Delivery!odVars, Held

\* Push submits, WorkerSends transmits, a Dequeue that prunes skips, and
\* SetSendPolicy sets the policy; no other step is seen in the line.
LEMMA DeliveryStep ==
  ASSUME OneCaller, TypeOK, [Next]_vars
  PROVE  [Delivery!Next]_(Delivery!odVars)
<1> USE DEF callVars, workerVars
<1>0. /\ messages \in Seq(Message) /\ wire \in Seq(Message) /\ count \in Nat
      /\ worker \in [Caller -> WorkerStep] /\ cur_string \in [Caller -> Seq(Message)]
      /\ \A d \in Caller :
           Len(cur_string[d]) = IF worker[d] \in {"lock", "send"} THEN 1 ELSE 0
  BY DEF TypeOK
<1>h. \A c \in Caller : Held = cur_string[c] /\ Held' = cur_string'[c]
  BY HeldIs DEF OneCaller, Held
<1>1. ASSUME NEW c \in Caller, CallAsync(c) \/ CallSync(c) \/ Spawn(c) \/ MarkStarted(c)
      PROVE UNCHANGED Delivery!odVars
  BY <1>1, DeliveryFrame DEF CallAsync, CallSync, Spawn, MarkStarted
<1>2. ASSUME NEW c \in Caller, CallerLocks(c) \/ CallerSends(c) \/ CallerKilled(c)
      PROVE UNCHANGED Delivery!odVars
  BY <1>2, DeliveryFrame DEF CallerLocks, CallerSends, CallerKilled
<1>3. ASSUME NEW c \in Caller, Push(c) PROVE Delivery!Submit
  <2>1. PICK e \in BOOLEAN :
          messages' = Pushed(messages, [id |-> count + 1, ensured |-> e])
    BY <1>3 DEF Push
  <2>2. count' = count + 1 /\ Held' = Held /\ UNCHANGED <<wire, send_policy>>
    BY <1>3 DEF Push, Held
  <2> DEFINE m == [id |-> count + 1, ensured |-> e]
  <2>3. m \in Message
    BY <1>0 DEF Message
  <2>4. Held \in Seq(Message)
    BY <1>0, <1>h
  <2>5. Held' \o messages' = Append(Held \o messages, m)
    <3>1. messages' = Append(messages, m)
      BY <2>1 DEF Pushed
    <3>2. Held \o Append(messages, m) = Append(Held \o messages, m)
      <4>1. messages \in Seq(Message) /\ m \in Message /\ Held \in Seq(Message)
        BY <1>0, <2>3, <2>4
      <4> HIDE DEF m
      <4>2. QED
        BY ONLY <4>1, LineAppend
    <3>3. QED
      BY <3>1, <3>2, <2>2, Zenon
  <2>6. QED
    BY <2>2, <2>5 DEF Delivery!Submit
<1>4. ASSUME NEW c \in Caller, Dequeue(c) PROVE [Delivery!Next]_(Delivery!odVars)
  <2>1. PICK k \in 1 .. Len(messages) :
          /\ FrontIs(messages, send_policy, k)
          /\ cur_string' = [cur_string EXCEPT ![c] = <<messages[k]>>]
          /\ messages' = Behind(messages, k)
    BY <1>4 DEF Dequeue
  <2>2. worker[c] = "poll" /\ UNCHANGED <<count, wire, send_policy>>
    BY <1>4 DEF Dequeue
  <2>3. Held = << >>
    BY <1>0, <1>h, <2>2
  <2>4. Held' = <<messages[k]>>
    BY <1>0, <1>h, <2>1
  <2>5. /\ Held \o messages = messages
        /\ Held' \o messages' = SubSeq(messages, k, Len(messages))
        /\ SubSeq(messages, 1, Len(messages)) = messages
    <3>1. messages \in Seq(Message) /\ k \in 1 .. Len(messages)
      BY <1>0
    <3>2. <<messages[k]>> \o SubSeq(messages, k + 1, Len(messages))
            = SubSeq(messages, k, Len(messages))
      BY ONLY <3>1, LineFrom
    <3>3. << >> \o messages = messages /\ SubSeq(messages, 1, Len(messages)) = messages
      BY ONLY <3>1, LineWhole
    <3>4. QED
      BY <2>1, <2>3, <2>4, <3>2, <3>3 DEF Behind
  <2>6. CASE k = 1
    BY <2>2, <2>5, <2>6 DEF Delivery!odVars
  <2>7. CASE k # 1
    <3>1. /\ send_policy = "SEND_LAST"
          /\ \A i \in 1 .. k - 1 : ~ messages[i].ensured
      BY <1>0, <2>1, <2>7, FrontProperties
    <3>2. k - 1 \in 1 .. Len(messages) - 1 /\ (k - 1) + 1 = k
      BY <1>0, <2>7
    <3>3. Delivery!Skip(k - 1)
      BY <2>2, <2>5, <3>1, <3>2 DEF Delivery!Skip
    <3>4. QED
      BY <2>5, <3>2, <3>3 DEF Delivery!Next
  <2>8. QED
    BY <2>6, <2>7
<1>5. ASSUME NEW c \in Caller, WorkerLocks(c) \/ WorkerFails(c)
      PROVE UNCHANGED Delivery!odVars
  BY <1>5, DeliveryFrame DEF WorkerLocks, WorkerFails
<1>6. ASSUME NEW c \in Caller, WorkerSends(c) PROVE Delivery!Transmit
  <2> DEFINE m == cur_string[c][1]
  <2>1. /\ wire' = Append(wire, m)
        /\ cur_string' = [cur_string EXCEPT ![c] = << >>]
        /\ worker[c] = "send"
        /\ UNCHANGED <<messages, count, send_policy>>
    BY <1>6 DEF WorkerSends, Deleted
  <2>2. cur_string[c] = <<m>> /\ m \in Message
    BY <1>0, <2>1
  <2> HIDE DEF m
  <2>3. Held = <<m>> /\ Held' = << >>
    BY <1>0, <1>h, <2>1, <2>2
  <2>4. /\ <<m>> \o messages # << >>
        /\ Head(<<m>> \o messages) = m
        /\ Tail(<<m>> \o messages) = messages
        /\ << >> \o messages = messages
    <3>1. messages \in Seq(Message) /\ m \in Message
      BY <1>0, <2>2
    <3>2. QED
      BY ONLY <3>1, LineHead, LineWhole
  <2>5. QED
    BY <2>1, <2>3, <2>4 DEF Delivery!Transmit
<1>7. ASSUME NEW p \in {"SEND_ALL", "SEND_LAST"}, SetSendPolicy(p) PROVE Delivery!SetPolicy
  BY <1>7 DEF SetSendPolicy, Delivery!SetPolicy, Held
<1>8. CASE PeerGone \/ UNCHANGED vars
  BY <1>8, DeliveryFrame DEF PeerGone, vars
<1>9. QED
  BY <1>1, <1>2, <1>3, <1>4, <1>5, <1>6, <1>7, <1>8
     DEF Next, CallStep, AsyncSend, Delivery!Next

\* For a program with one calling thread, the asynchronous half of SendMessage
\* is the line that rpc.h:53-57 and 69-81 promise, for any number of messages:
\* the unlocked flag, the deque and the mutexes cannot be seen.
THEOREM ImplementsOrderedDeliveryAlways ==
  ASSUME OneCaller
  PROVE  Spec => ImplementsOrderedDelivery
<1>1. TypeOK /\ [Next]_vars => [Delivery!Next]_(Delivery!odVars)
  BY DeliveryStep
<1>2. QED
  BY <1>1, DeliveryInit, TypeCorrect, PTL
     DEF Spec, ImplementsOrderedDelivery, Delivery!Spec
=============================================================================
