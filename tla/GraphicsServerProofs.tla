------------------------- MODULE GraphicsServerProofs -------------------------
(***************************************************************************)
(* Theorems about GraphicsServer for any contents and any number of        *)
(* transactions.                                                           *)
(***************************************************************************)
EXTENDS GraphicsServer, TLAPS

------------------------------------------------------------------------------
(***************************************************************************)
(* Type correctness, with what is needed to know that EndPush pushes a     *)
(* persistent transaction.                                                 *)
(***************************************************************************)
PushInv == net = "push" => received[InHand].persistent

TInv == TypeOK /\ PushInv

\* A transaction is parsed once: a new one changes nothing of those before it.
LEMMA ReceivedGrows ==
  ASSUME received \in Seq(Content), NEW c \in Content,
         received' = Append(received, c)
  PROVE  /\ received' \in Seq(Content)
         /\ Len(received') = Len(received) + 1
         /\ \A n \in Trans : received'[n] = received[n]
         /\ Trans \subseteq Trans'
         /\ Frames \subseteq Frames'
         /\ Trans \ Frames \subseteq (Trans \ Frames)'
<1>1. /\ received' \in Seq(Content)
      /\ Len(received') = Len(received) + 1
      /\ \A n \in Trans : received'[n] = received[n]
  BY DEF Trans
<1>2. Trans \subseteq Trans'
  BY <1>1 DEF Trans
<1>3. QED
  BY <1>1, <1>2 DEF Frames

\* What a persistent transaction or a frame carries.
LEMMA ContentProperties ==
  ASSUME received \in Seq(Content), NEW n \in Trans
  PROVE  /\ received[n] \in Content
         /\ received[n].persistent \in BOOLEAN
         /\ received[n].scale \in Nat
         /\ n \in Nat \ {0}
<1>1. received[n] \in Content /\ n \in Nat \ {0}
  BY DEF Trans
<1>2. QED
  BY <1>1, ContentAssumption

\* Drawing a transaction keeps the types of what DrawTrans changes.
LEMMA DrawTransType ==
  ASSUME TypeOK, NEW n \in Trans
  PROVE  /\ ScaleAfter(n) \in Nat
         /\ MapAfter(n) \in {0} \cup Trans
         /\ ItemOf(n) \in Item
         /\ ItemOf(n).trans = n
<1>1. received[n].scale \in Nat /\ n \in Nat /\ scale \in Nat
  BY ContentProperties DEF TypeOK
<1>2. MapAfter(n) \in {0} \cup Trans
  BY DEF TypeOK, MapAfter
<1>3. MapAfter(n) \in Nat
  BY <1>2 DEF Trans
<1>4. QED
  BY <1>1, <1>2, <1>3 DEF ScaleAfter, ItemOf, Item

\* The constructor's values have their types.
LEMMA TInvInit == Init => TInv
<1> SUFFICES ASSUME Init PROVE TInv
  OBVIOUS
<1>1. << >> \in Seq(Content) /\ << >> \in Seq(Item) /\ << >> \in Seq(Trans \ Frames)
  OBVIOUS
<1>2. InitialScale \in Nat
  BY DEF InitialScale
<1>3. TypeOK
  BY <1>1, <1>2 DEF Init, TypeOK
<1>4. QED
  BY <1>3 DEF Init, TInv, PushInv

\* Every step keeps the types.
LEMMA TInvStep == TInv /\ [Next]_vars => TInv'
<1> SUFFICES ASSUME TypeOK, PushInv, [Next]_vars
             PROVE  TypeOK' /\ PushInv'
  BY DEF TInv
<1> USE DEF netVars, queueVars, drawVars
<1>1. CASE CreateServer
  BY <1>1 DEF CreateServer, TypeOK, PushInv, Trans, Frames, InHand
<1>2. CASE NetworkFails
  BY <1>2 DEF NetworkFails, TypeOK, PushInv, Trans, Frames, InHand
<1>3. CASE Receive
  <2>1. PICK c \in Content : received' = Append(received, c)
    BY <1>3 DEF Receive
  <2>2. /\ received' \in Seq(Content)
        /\ Len(received') = Len(received) + 1
        /\ Trans \subseteq Trans'
        /\ Frames \subseteq Frames'
        /\ Trans \ Frames \subseteq (Trans \ Frames)'
    BY <2>1, ReceivedGrows DEF TypeOK
  <2>3. net' = "process" /\ received' # << >>
    <3>1. Len(received) \in Nat
      BY DEF TypeOK
    <3>2. received' # << >>
      BY <2>2, <3>1
    <3>3. QED
      BY <1>3, <3>2 DEF Receive
  <2>4. persistent \in Seq((Trans \ Frames)')
    BY <2>2 DEF TypeOK
  <2>5. UNCHANGED <<process, rpc, queueVars, cmd_process, glut, redisplay, drawVars>>
    BY <1>3 DEF Receive
  <2>6. TypeOK'
    BY <2>2, <2>3, <2>4, <2>5 DEF TypeOK
  <2>7. QED
    BY <2>6, <2>3 DEF PushInv
<1>4. CASE ProcessFrame
  <2>1. InHand \in Frames
    BY <1>4 DEF ProcessFrame, TypeOK, Frames, Trans, InHand
  <2>2. Deleting(cmd_wait) \subseteq Trans
    BY DEF Deleting, TypeOK, Frames
  <2>3. UNCHANGED <<Trans, Frames>>
    BY <1>4 DEF ProcessFrame, Trans, Frames
  <2>4. QED
    BY <1>4, <2>1, <2>2, <2>3 DEF ProcessFrame, TypeOK, PushInv
<1>5. CASE BeginPush
  BY <1>5 DEF BeginPush, TypeOK, PushInv, Trans, Frames, InHand
<1>6. CASE EndPush
  <2>1. InHand \in Trans \ Frames
    BY <1>6 DEF EndPush, TypeOK, PushInv, Frames, Trans, InHand
  <2>2. Pushed \in Seq(Trans \ Frames)
    BY <2>1 DEF Pushed, TypeOK
  <2>3. UNCHANGED <<Trans, Frames>>
    BY <1>6 DEF EndPush, Trans, Frames
  <2>4. QED
    BY <1>6, <2>2, <2>3 DEF EndPush, TypeOK, PushInv
<1>7. CASE StartTurn
  BY <1>7 DEF StartTurn, TypeOK, PushInv, Trans, Frames, InHand
<1>8. CASE MouseBeforeServer
  BY <1>8 DEF MouseBeforeServer, TypeOK, PushInv, Trans, Frames, InHand
<1>9. CASE DrawPersistent
  <2>1. PICK n \in Trans : /\ scale' = ScaleAfter(n)
                           /\ map' = MapAfter(n)
                           /\ picture' = Append(picture, ItemOf(n))
    <3>1. persistent[Len(picture) + 1] \in Trans
      BY <1>9 DEF DrawPersistent, TypeOK
    <3>2. QED
      BY <1>9, <3>1 DEF DrawPersistent
  <2>2. scale' \in Nat /\ map' \in {0} \cup Trans /\ picture' \in Seq(Item)
    BY <2>1, DrawTransType DEF TypeOK
  <2>3. UNCHANGED <<Trans, Frames>>
    BY <1>9 DEF DrawPersistent, Trans, Frames
  <2>4. QED
    BY <1>9, <2>2, <2>3 DEF DrawPersistent, TypeOK, PushInv, InHand
<1>10. CASE DrawMovedDeque
  BY <1>10 DEF DrawMovedDeque, TypeOK, PushInv, Trans, Frames, InHand
<1>11. CASE DrawFrame
  <2>1. /\ scale' \in Nat /\ map' \in {0} \cup Trans
        /\ screen' \in [items : Seq(Item), scale : Nat]
    <3>1. CASE cmd_process = 0
      BY <1>11, <3>1 DEF DrawFrame, TypeOK
    <3>2. CASE cmd_process # 0
      <4>1. cmd_process \in Trans
        BY <3>2 DEF TypeOK, Frames
      <4>2. Append(picture, ItemOf(cmd_process)) \in Seq(Item)
        BY <4>1, DrawTransType DEF TypeOK
      <4>3. /\ screen' = [items |-> Append(picture, ItemOf(cmd_process)),
                          scale |-> scaled]
            /\ scale' = ScaleAfter(cmd_process)
            /\ map' = MapAfter(cmd_process)
        BY <1>11, <3>2 DEF DrawFrame
      <4>4. scaled \in Nat
        BY DEF TypeOK
      <4>5. scale' \in Nat /\ map' \in {0} \cup Trans
        BY <4>1, <4>3, DrawTransType
      <4>6. QED
        BY <4>2, <4>3, <4>4, <4>5
    <3>3. QED
      BY <3>1, <3>2
  <2>2. UNCHANGED <<Trans, Frames>>
    BY <1>11 DEF DrawFrame, Trans, Frames
  <2>3. picture' \in Seq(Item)
    BY <1>11 DEF DrawFrame
  <2>4. QED
    BY <1>11, <2>1, <2>2, <2>3 DEF DrawFrame, TypeOK, PushInv, InHand
<1>12. CASE Idle
  BY <1>12 DEF Idle, TypeOK, PushInv, Trans, Frames, InHand
<1>13. CASE TakeFrame
  <2>1. Deleting(cmd_process) \subseteq Trans
    BY DEF Deleting, TypeOK, Frames
  <2>2. UNCHANGED <<Trans, Frames>>
    BY <1>13 DEF TakeFrame, Trans, Frames
  <2>3. QED
    BY <1>13, <2>1, <2>2 DEF TakeFrame, Taken, TypeOK, PushInv, InHand
<1>14. CASE UNCHANGED vars
  BY <1>14 DEF vars, TypeOK, PushInv, Trans, Frames, InHand
<1>15. QED
  BY <1>1, <1>2, <1>3, <1>4, <1>5, <1>6, <1>7, <1>8, <1>9, <1>10, <1>11,
     <1>12, <1>13, <1>14 DEF Next, ProcessTransaction, MainLoop, Display

\* Every variable keeps its type: in particular cmd_wait and cmd_process only
\* ever hold frames, and the persistent deque only persistent transactions
\* (graphics_server.cpp:285-293).
THEOREM TypeCorrect == Spec => []TypeOK
<1>1. TInv => TypeOK
  BY DEF TInv
<1>2. QED
  BY <1>1, TInvInit, TInvStep, PTL DEF Spec

------------------------------------------------------------------------------
(***************************************************************************)
(* The flag that Idle reads without the mutex.                             *)
(***************************************************************************)
\* Only the critical sections that store and take a frame touch flag or frame.
LEMMA DirtyStep == TInv /\ DirtyMeansWaiting /\ [Next]_vars => DirtyMeansWaiting'
<1> SUFFICES ASSUME TypeOK, DirtyMeansWaiting, [Next]_vars
             PROVE  DirtyMeansWaiting'
  BY DEF TInv
<1> USE DEF netVars, queueVars, drawVars, DirtyMeansWaiting
<1>1. CASE ProcessFrame
  <2>1. InHand # 0
    BY <1>1 DEF ProcessFrame, InHand, TypeOK
  <2>2. QED
    BY <1>1, <2>1 DEF ProcessFrame
<1>2. CASE TakeFrame
  BY <1>2 DEF TakeFrame, Taken
<1>3. CASE CreateServer \/ NetworkFails \/ Receive \/ BeginPush \/ EndPush
  BY <1>3 DEF CreateServer, NetworkFails, Receive, BeginPush, EndPush
<1>4. CASE StartTurn \/ MouseBeforeServer \/ DrawPersistent \/ DrawMovedDeque
             \/ DrawFrame \/ Idle
  BY <1>4 DEF StartTurn, MouseBeforeServer, DrawPersistent, DrawMovedDeque,
              DrawFrame, Idle
<1>5. CASE UNCHANGED vars
  BY <1>5 DEF vars
<1>6. QED
  BY <1>1, <1>2, <1>3, <1>4, <1>5 DEF Next, ProcessTransaction, MainLoop, Display

\* isDirty is true exactly while a frame waits, so Idle's look at it without
\* the mutex neither misses a frame for good nor finds none behind a true flag
\* it then trusts (graphics_server.cpp:179-186).
THEOREM DirtyMeansWaitingAlways == Spec => []DirtyMeansWaiting
<1>1. Init => DirtyMeansWaiting
  BY DEF Init, DirtyMeansWaiting
<1>2. QED
  BY <1>1, TInvInit, TInvStep, DirtyStep, PTL DEF Spec

------------------------------------------------------------------------------
(***************************************************************************)
(* Ownership.  That what is deleted are frames, while the deque holds only *)
(* persistent transactions, is what keeps the two apart.                   *)
(***************************************************************************)
Handed == net \in {"process", "push"}

Pushes(n) == \E i \in 1 .. Len(persistent) : persistent[i] = n

Kept(n) ==
  \/ Handed /\ n = InHand
  \/ cmd_wait = n
  \/ cmd_process = n
  \/ Pushes(n)
  \/ n \in deleted

OwnInv ==
  /\ \A n \in Trans : Kept(n)
  /\ deleted \subseteq Frames
  /\ cmd_wait \notin deleted /\ cmd_process \notin deleted
  /\ cmd_wait = cmd_process => cmd_wait = 0
  /\ Handed => /\ InHand \notin deleted
               /\ InHand # cmd_wait /\ InHand # cmd_process
               /\ ~ Pushes(InHand)
  /\ \A i, j \in 1 .. Len(persistent) : persistent[i] = persistent[j] => i = j

\* The inductive form of ownership implies the property.
LEMMA OwnInvOneOwner == TypeOK /\ OwnInv => OneOwner
<1> SUFFICES ASSUME TypeOK, OwnInv PROVE OneOwner
  OBVIOUS
<1>1. ASSUME NEW n \in Trans
      PROVE  \E o \in Owner : \A p \in Owner : Owns(p, n) <=> p = o
  <2>1. n # 0
    BY DEF Trans
  <2>2. Pushes(n) => n \notin Frames
    BY DEF Pushes, TypeOK
  <2>3. n = cmd_wait \/ n = cmd_process => n \in Frames
    BY <2>1 DEF TypeOK
  <2>4. CASE Handed /\ n = InHand
    <3>1. \A p \in Owner : Owns(p, n) <=> p = "hand"
      BY <2>4 DEF Owns, Owner, Handed, Pushes, OwnInv
    <3>2. QED
      BY <3>1 DEF Owner
  <2>5. CASE cmd_wait = n /\ ~ (Handed /\ n = InHand)
    <3>1. \A p \in Owner : Owns(p, n) <=> p = "wait"
      BY <2>1, <2>2, <2>3, <2>5 DEF Owns, Owner, Handed, Pushes, OwnInv
    <3>2. QED
      BY <3>1 DEF Owner
  <2>6. CASE cmd_process = n /\ ~ (Handed /\ n = InHand)
    <3>1. \A p \in Owner : Owns(p, n) <=> p = "process"
      BY <2>1, <2>2, <2>3, <2>6 DEF Owns, Owner, Handed, Pushes, OwnInv
    <3>2. QED
      BY <3>1 DEF Owner
  <2>7. CASE Pushes(n) /\ ~ (Handed /\ n = InHand)
    <3>1. \A p \in Owner : Owns(p, n) <=> p = "persistent"
      BY <2>2, <2>3, <2>7 DEF Owns, Owner, Handed, Pushes, OwnInv
    <3>2. QED
      BY <3>1 DEF Owner
  <2>8. CASE n \in deleted /\ ~ (Handed /\ n = InHand)
    <3>1. \A p \in Owner : Owns(p, n) <=> p = "nobody"
      BY <2>2, <2>8 DEF Owns, Owner, Handed, Pushes, OwnInv
    <3>2. QED
      BY <3>1 DEF Owner
  <2>9. QED
    BY <2>4, <2>5, <2>6, <2>7, <2>8 DEF OwnInv, Kept
<1>2. QED
  BY <1>1 DEF OneOwner, OwnInv

\* Most steps do not touch what owns transactions.
LEMMA OwnInvFrame ==
  ASSUME OwnInv, Handed' = Handed,
         UNCHANGED <<received, deleted, cmd_wait, cmd_process, persistent>>
  PROVE  OwnInv'
BY DEF OwnInv, Kept, Pushes, InHand, Trans, Frames

\* The hand-overs keep ownership: parsing creates an owner, ProcessTransaction,
\* push_back and Idle each pass it on or delete.
LEMMA OwnInvStep == TInv /\ OwnInv /\ [Next]_vars => OwnInv'
<1> SUFFICES ASSUME TypeOK, PushInv, OwnInv, [Next]_vars PROVE OwnInv'
  BY DEF TInv
<1> USE DEF netVars, queueVars, drawVars
<1>1. CASE CreateServer
  BY <1>1, OwnInvFrame DEF CreateServer, Handed
<1>2. CASE NetworkFails
  BY <1>2, OwnInvFrame DEF NetworkFails, Handed
<1>3. CASE Receive
  <2>1. PICK c \in Content : received' = Append(received, c)
    BY <1>3 DEF Receive
  <2>2. /\ Len(received') = Len(received) + 1
        /\ Frames \subseteq Frames'
    BY <2>1, ReceivedGrows DEF TypeOK
  <2>3. UNCHANGED <<deleted, cmd_wait, cmd_process, persistent>>
    BY <1>3 DEF Receive
  <2>4. Len(received) \in Nat
    BY DEF TypeOK
  <2>5. ~ Handed /\ Handed'
    BY <1>3 DEF Receive, Handed
  <2>6. InHand' \notin {0} \cup Trans /\ Trans' = Trans \cup {InHand'}
    BY <2>2, <2>4 DEF InHand, Trans
  <2>7. /\ InHand' \notin deleted' /\ ~ Pushes(InHand)'
        /\ InHand' # cmd_wait' /\ InHand' # cmd_process'
    <3>1. ~ Pushes(InHand)'
      BY <2>3, <2>6 DEF Pushes, TypeOK
    <3>2. QED
      BY <3>1, <2>3, <2>6 DEF TypeOK, Frames
  <2>8. \A n \in Trans' : Kept(n)'
    BY <2>3, <2>5, <2>6 DEF OwnInv, Kept, Pushes
  <2>9. QED
    BY <2>2, <2>3, <2>7, <2>8 DEF OwnInv
<1>4. CASE ProcessFrame
  <2>1. /\ deleted' = deleted \cup ({cmd_wait} \ {0})
        /\ cmd_wait' = InHand
        /\ UNCHANGED <<received, persistent, cmd_process>>
        /\ Handed /\ ~ Handed'
    BY <1>4 DEF ProcessFrame, Deleting, Handed
  <2>2. UNCHANGED <<Trans, Frames, InHand>> /\ InHand \in Trans
    BY <1>4, <2>1 DEF ProcessFrame, Trans, Frames, InHand, TypeOK
  <2>3. \A n \in Trans' : Kept(n)'
    <3>1. ASSUME NEW n \in Trans PROVE Kept(n)'
      <4>1. Kept(n) /\ n # 0
        BY DEF OwnInv, Trans
      <4>2. QED
        BY <4>1, <2>1 DEF Kept, Pushes
    <3>2. QED
      BY <3>1, <2>2
  <2>4. deleted' \subseteq Frames'
    BY <2>1, <2>2 DEF OwnInv, TypeOK
  <2>5. InHand # 0
    BY <2>2 DEF Trans
  <2>6. /\ cmd_wait' \notin deleted'
        /\ cmd_process' \notin deleted'
        /\ cmd_wait' = cmd_process' => cmd_wait' = 0
    BY <2>1, <2>5 DEF OwnInv
  <2>7. QED
    BY <2>1, <2>3, <2>4, <2>6 DEF OwnInv
<1>5. CASE BeginPush
  BY <1>5, OwnInvFrame DEF BeginPush, Handed
<1>6. CASE EndPush
  <2>1. /\ persistent' = Append(persistent, InHand)
        /\ UNCHANGED <<received, deleted, cmd_wait, cmd_process>>
        /\ Handed /\ ~ Handed'
    BY <1>6 DEF EndPush, Pushed, Handed
  <2>2. UNCHANGED <<Trans, Frames, InHand>>
    BY <2>1 DEF Trans, Frames, InHand
  <2>3. persistent \in Seq(Trans \ Frames) /\ InHand \in Nat
    BY DEF TypeOK, InHand
  <2>4. /\ Len(persistent') = Len(persistent) + 1
        /\ \A i \in 1 .. Len(persistent) : persistent'[i] = persistent[i]
        /\ persistent'[Len(persistent) + 1] = InHand
    BY <2>1, <2>3
  <2>5. ASSUME NEW n, Pushes(n) \/ n = InHand PROVE Pushes(n)'
    BY <2>3, <2>4, <2>5 DEF Pushes
  <2>6. \A n \in Trans' : Kept(n)'
    <3>1. ASSUME NEW n \in Trans PROVE Kept(n)'
      <4>1. Kept(n)
        BY DEF OwnInv
      <4>2. QED
        BY <4>1, <2>1, <2>5 DEF Kept
    <3>2. QED
      BY <3>1, <2>2
  <2>7. ASSUME NEW i \in 1 .. Len(persistent'), NEW j \in 1 .. Len(persistent'),
               persistent'[i] = persistent'[j]
        PROVE  i = j
    <3>1. ~ Pushes(InHand)
      BY <2>1 DEF OwnInv
    <3>2. \A k \in 1 .. Len(persistent) : persistent[k] # InHand
      BY <3>1 DEF Pushes
    <3>3. /\ i \in 1 .. Len(persistent) \/ i = Len(persistent) + 1
          /\ j \in 1 .. Len(persistent) \/ j = Len(persistent) + 1
      BY <2>3, <2>4
    <3>4. QED
      BY <2>7, <3>2, <3>3, <2>4 DEF OwnInv
  <2>8. QED
    BY <2>1, <2>2, <2>6, <2>7 DEF OwnInv
<1>7. CASE TakeFrame
  <2>1. Handed' = Handed /\ UNCHANGED <<received, persistent>>
    BY <1>7 DEF TakeFrame, Handed
  <2>2. CASE cmd_wait = 0
    BY <1>7, <2>1, <2>2, OwnInvFrame DEF TakeFrame
  <2>3. CASE cmd_wait # 0
    <3>1. /\ deleted' = deleted \cup ({cmd_process} \ {0})
          /\ cmd_process' = cmd_wait
          /\ cmd_wait' = 0
      BY <1>7, <2>3 DEF TakeFrame, Taken, Deleting
    <3>2. UNCHANGED <<Trans, Frames, InHand>>
      BY <2>1 DEF Trans, Frames, InHand
    <3>3. \A n \in Trans' : Kept(n)'
      <4>1. ASSUME NEW n \in Trans PROVE Kept(n)'
        <5>1. Kept(n) /\ n # 0
          BY DEF OwnInv, Trans
        <5>2. QED
          BY <5>1, <2>1, <3>1, <3>2 DEF Kept, Pushes
      <4>2. QED
        BY <4>1, <3>2
    <3>4. deleted' \subseteq Frames' /\ 0 \notin Frames
      <4>1. deleted \subseteq Frames /\ cmd_process \in {0} \cup Frames
        BY DEF OwnInv, TypeOK
      <4>2. 0 \notin Frames
        BY DEF Frames, Trans
      <4>3. QED
        BY <3>1, <3>2, <4>1, <4>2
    <3>5. /\ cmd_wait' \notin deleted'
          /\ cmd_process' \notin deleted'
      BY <3>1, <3>4, <2>3 DEF OwnInv
    <3>6. Handed => InHand # 0
      BY DEF Handed, TypeOK, InHand
    <3>7. Handed' => /\ InHand' \notin deleted'
                     /\ InHand' # cmd_wait' /\ InHand' # cmd_process'
                     /\ ~ Pushes(InHand)'
      BY <2>1, <3>1, <3>2, <3>6 DEF OwnInv, Pushes
    <3>8. QED
      BY <2>1, <3>1, <3>3, <3>4, <3>5, <3>7, <2>3 DEF OwnInv
  <2>4. QED
    BY <2>2, <2>3
<1>8. CASE StartTurn \/ MouseBeforeServer \/ DrawPersistent \/ DrawMovedDeque
             \/ DrawFrame \/ Idle
  BY <1>8, OwnInvFrame DEF StartTurn, MouseBeforeServer, DrawPersistent,
                           DrawMovedDeque, DrawFrame, Idle, Handed
<1>9. CASE UNCHANGED vars
  BY <1>9, OwnInvFrame DEF vars, Handed
<1>10. QED
  BY <1>1, <1>2, <1>3, <1>4, <1>5, <1>6, <1>7, <1>8, <1>9
     DEF Next, ProcessTransaction, MainLoop, Display

\* At first there is nothing to own.
LEMMA OwnInvInit == Init => OwnInv
BY DEF Init, OwnInv, Trans, Handed

\* From the moment it is parsed until it is deleted, a transaction has exactly
\* one owner, whatever the two threads do between the critical sections: no
\* double delete, no use after delete, no leak (graphics_server.cpp:183-186 and
\* 282-294).
THEOREM OneOwnerAlways == Spec => []OneOwner
<1>1. TInv /\ OwnInv => OneOwner
  BY OwnInvOneOwner DEF TInv
<1>2. QED
  BY <1>1, TInvInit, TInvStep, OwnInvInit, OwnInvStep, PTL DEF Spec

------------------------------------------------------------------------------
(***************************************************************************)
(* The canvas.  Display does not lock, but persistent only ever grows, so  *)
(* what it has drawn is always a prefix, and all of it when the loop ends. *)
(***************************************************************************)
PictureInv ==
  /\ Len(picture) <= Len(persistent)
  /\ \A i \in 1 .. Len(picture) : picture[i].trans = persistent[i]

\* A push and a turn of the loop both keep the picture a prefix of the deque.
LEMMA PictureStep == TInv /\ PictureInv /\ [Next]_vars => PictureInv'
<1> SUFFICES ASSUME TypeOK, PictureInv, [Next]_vars PROVE PictureInv'
  BY DEF TInv
<1> USE DEF netVars, queueVars, drawVars
<1>0. /\ persistent \in Seq(Nat) /\ picture \in Seq(Item)
      /\ \A i \in 1 .. Len(persistent) : persistent[i] \in Trans
  BY DEF TypeOK, Trans
<1>1. CASE EndPush
  <2>1. persistent' = Append(persistent, InHand) /\ picture' = picture
    BY <1>1 DEF EndPush, Pushed
  <2>2. InHand \in Nat
    BY DEF InHand, TypeOK
  <2>3. /\ Len(persistent') = Len(persistent) + 1
        /\ \A i \in 1 .. Len(persistent) : persistent'[i] = persistent[i]
    BY <2>1, <2>2, <1>0
  <2>4. Len(picture) <= Len(persistent')
    BY <2>3, <1>0 DEF PictureInv
  <2>5. QED
    BY <2>1, <2>3, <2>4, <1>0 DEF PictureInv
<1>2. CASE DrawPersistent
  <2>1. /\ Len(picture) < Len(persistent)
        /\ picture' = Append(picture, ItemOf(persistent[Len(picture) + 1]))
        /\ persistent' = persistent
    BY <1>2 DEF DrawPersistent
  <2>2. Len(picture) + 1 \in 1 .. Len(persistent)
    BY <2>1, <1>0
  <2>3. /\ ItemOf(persistent[Len(picture) + 1]) \in Item
        /\ ItemOf(persistent[Len(picture) + 1]).trans = persistent[Len(picture) + 1]
    BY <2>2, <1>0, DrawTransType
  <2>4. /\ Len(picture') = Len(picture) + 1
        /\ \A i \in 1 .. Len(picture) : picture'[i] = picture[i]
        /\ picture'[Len(picture) + 1].trans = persistent[Len(picture) + 1]
    BY <2>1, <2>3, <1>0
  <2>5. ASSUME NEW i \in 1 .. Len(picture') PROVE picture'[i].trans = persistent[i]
    <3>1. i \in 1 .. Len(picture) \/ i = Len(picture) + 1
      BY <2>4, <1>0
    <3>2. QED
      BY <3>1, <2>4 DEF PictureInv
  <2>6. QED
    BY <2>1, <2>2, <2>4, <2>5 DEF PictureInv
<1>3. CASE DrawFrame
  <2>1. picture' = << >> /\ persistent' = persistent
    BY <1>3 DEF DrawFrame
  <2>2. Len(picture') = 0 /\ Len(persistent) >= 0
    BY <2>1, <1>0
  <2>3. QED
    BY <2>1, <2>2 DEF PictureInv
<1>4. CASE CreateServer \/ NetworkFails \/ Receive \/ ProcessFrame \/ BeginPush
  BY <1>4 DEF CreateServer, NetworkFails, Receive, ProcessFrame, BeginPush, PictureInv
<1>5. CASE StartTurn \/ MouseBeforeServer \/ DrawMovedDeque \/ Idle \/ TakeFrame
  BY <1>5 DEF StartTurn, MouseBeforeServer, DrawMovedDeque, Idle, TakeFrame, PictureInv
<1>6. CASE UNCHANGED vars
  BY <1>6 DEF vars, PictureInv
<1>7. QED
  BY <1>1, <1>2, <1>3, <1>4, <1>5, <1>6 DEF Next, ProcessTransaction, MainLoop, Display

\* The numbers of the items of a finished picture.
LEMMA IdsOfPicture ==
  ASSUME TypeOK, PictureInv, Len(picture) = Len(persistent)
  PROVE  /\ Ids(picture) = persistent
         /\ \A n \in Trans : Ids(Append(picture, ItemOf(n))) = persistent \o <<n>>
<1>0. /\ persistent \in Seq(Nat) /\ picture \in Seq(Item)
  BY DEF TypeOK, Trans
<1>1. Ids(picture) = persistent
  <2>1. Ids(picture) = [i \in 1 .. Len(persistent) |-> persistent[i]]
    BY DEF Ids, PictureInv
  <2>2. QED
    BY <2>1, <1>0
<1>2. ASSUME NEW n \in Trans PROVE Ids(Append(picture, ItemOf(n))) = persistent \o <<n>>
  <2> DEFINE q == Append(picture, ItemOf(n))
             p == persistent \o <<n>>
  <2>1. ItemOf(n) \in Item /\ ItemOf(n).trans = n /\ n \in Nat
    BY DrawTransType DEF Trans
  <2>2. /\ Len(q) = Len(persistent) + 1
        /\ \A i \in 1 .. Len(persistent) : q[i] = picture[i]
        /\ q[Len(persistent) + 1] = ItemOf(n)
    BY <2>1, <1>0
  <2>3. <<n>> \in Seq(Nat) /\ Len(<<n>>) = 1 /\ <<n>>[1] = n
    BY <2>1
  <2>4. /\ p \in Seq(Nat)
        /\ Len(p) = Len(persistent) + 1
        /\ \A i \in 1 .. Len(persistent) : p[i] = persistent[i]
        /\ p[Len(persistent) + 1] = n
    BY <2>3, <1>0
  <2>5. \A i \in 1 .. Len(persistent) + 1 : q[i].trans = p[i]
    <3>1. ASSUME NEW i \in 1 .. Len(persistent) + 1 PROVE q[i].trans = p[i]
      <4>1. i \in 1 .. Len(persistent) \/ i = Len(persistent) + 1
        BY <1>0
      <4>2. QED
        BY <4>1, <2>1, <2>2, <2>4 DEF PictureInv
    <3>2. QED
      BY <3>1
  <2>6. Ids(q) = [i \in 1 .. Len(p) |-> p[i]]
    BY <2>2, <2>4, <2>5 DEF Ids
  <2>7. QED
    BY <2>6, <2>4
<1>3. QED
  BY <1>1, <1>2

\* The server starts with an empty canvas.
LEMMA CanvasInit == Init => Paints!Init
<1> SUFFICES ASSUME Init PROVE Paints!Init
  OBVIOUS
<1>1. Ids(screen.items) = << >>
  <2>1. screen.items = << >>
    BY DEF Init
  <2>2. Ids(screen.items) = [i \in 1 .. 0 |-> screen.items[i].trans]
    BY <2>1 DEF Ids
  <2>3. QED
    BY <2>2
<1>2. QED
  BY <1>1 DEF Init, Paints!Init

\* Every step of the server is a step of the canvas or none.
LEMMA CanvasStep ==
  TInv /\ PictureInv /\ [Next]_vars => [Paints!Next]_(Paints!canvasVars)
<1> SUFFICES ASSUME TypeOK, PictureInv, [Next]_vars
             PROVE  Paints!Next \/ UNCHANGED Paints!canvasVars
  BY DEF TInv
<1> USE DEF netVars, queueVars, drawVars
<1>1. CASE ProcessFrame
  <2>1. InHand # 0 /\ Len(received) \in Nat
    BY <1>1 DEF ProcessFrame, InHand, TypeOK
  <2>2. Paints!AcceptFrame
    BY <1>1, <2>1 DEF ProcessFrame, InHand, Paints!AcceptFrame
  <2>3. QED
    BY <2>2 DEF Paints!Next
<1>2. CASE EndPush
  <2>1. Len(received) \in Nat
    BY DEF TypeOK
  <2>2. Paints!AcceptPersistent
    BY <1>2, <2>1 DEF EndPush, Pushed, InHand, Paints!AcceptPersistent
  <2>3. QED
    BY <2>2 DEF Paints!Next
<1>3. CASE TakeFrame
  <2>1. CASE cmd_wait = 0
    BY <1>3, <2>1 DEF TakeFrame, Paints!canvasVars
  <2>2. CASE cmd_wait # 0
    <3>1. Paints!Advance
      BY <1>3, <2>2 DEF TakeFrame, Taken, Paints!Advance
    <3>2. QED
      BY <3>1 DEF Paints!Next
  <2>3. QED
    BY <2>1, <2>2
<1>4. CASE DrawFrame
  <2>1. /\ Len(picture) = Len(persistent)
        /\ UNCHANGED <<net, received, persistent, cmd_wait, cmd_process>>
    BY <1>4 DEF DrawFrame
  <2>2. Ids(screen'.items) = persistent \o (IF cmd_process = 0 THEN << >> ELSE <<cmd_process>>)
    <3>1. CASE cmd_process = 0
      <4>1. screen'.items = picture
        BY <1>4, <3>1 DEF DrawFrame
      <4>2. persistent \o << >> = persistent
        BY DEF TypeOK
      <4>3. QED
        BY <3>1, <4>1, <4>2, <2>1, IdsOfPicture
    <3>2. CASE cmd_process # 0
      <4>1. screen'.items = Append(picture, ItemOf(cmd_process))
        BY <1>4, <3>2 DEF DrawFrame
      <4>2. cmd_process \in Trans
        BY <3>2 DEF TypeOK, Frames
      <4>3. QED
        BY <3>2, <4>1, <4>2, <2>1, IdsOfPicture
    <3>3. QED
      BY <3>1, <3>2
  <2>3. Paints!Paint
    BY <2>1, <2>2 DEF Paints!Paint, Ids
  <2>4. QED
    BY <2>3 DEF Paints!Next
<1>5. CASE Receive
  <2>1. PICK c \in Content : received' = Append(received, c)
    BY <1>5 DEF Receive
  <2>2. Len(received') = Len(received) + 1 /\ Len(received) \in Nat
    BY <2>1 DEF TypeOK
  <2>3. QED
    BY <1>5, <2>2 DEF Receive, Paints!canvasVars, Ids
<1>6. CASE CreateServer \/ NetworkFails \/ BeginPush
  BY <1>6 DEF CreateServer, NetworkFails, BeginPush, Paints!canvasVars, Ids
<1>7. CASE StartTurn \/ MouseBeforeServer \/ DrawPersistent \/ DrawMovedDeque \/ Idle
  BY <1>7 DEF StartTurn, MouseBeforeServer, DrawPersistent, DrawMovedDeque,
              Idle, Paints!canvasVars, Ids
<1>8. CASE UNCHANGED vars
  BY <1>8 DEF vars, Paints!canvasVars, Ids
<1>9. QED
  BY <1>1, <1>2, <1>3, <1>4, <1>5, <1>6, <1>7, <1>8
     DEF Next, ProcessTransaction, MainLoop, Display

\* The server implements the canvas: although Display takes no lock and
\* persistent transactions are pushed while it draws, every picture it shows is
\* all of the persistent transactions accepted so far, in order, under one
\* frame that is never older than the last (graphics_server.cpp:140-190 and
\* 282-294, graphics.h:42-48).
THEOREM ImplementsCanvasAlways == Spec => ImplementsCanvas
<1>1. Init => PictureInv
  BY DEF Init, PictureInv
<1>2. QED
  BY <1>1, CanvasInit, CanvasStep, PictureStep, TInvInit, TInvStep, PTL
     DEF Spec, ImplementsCanvas, Paints!Spec


------------------------------------------------------------------------------
(***************************************************************************)
(* The background of a frame.  The deque is in the order of receipt and,   *)
(* by OwnInv, holds every persistent transaction but the one in hand; a    *)
(* picture is finished when it shows the whole deque.                      *)
(***************************************************************************)
BaseInv == \A i, j \in 1 .. Len(persistent) : i < j => persistent[i] < persistent[j]

\* What a list of items on a screen must be.
Background(items) ==
  /\ \A i \in 1 .. Len(items) : items[i].trans \in Trans
  /\ \A i \in 1 .. Len(items) :
       ~ received[items[i].trans].persistent =>
         /\ i = Len(items)
         /\ \A n \in Trans : received[n].persistent /\ n < items[i].trans =>
              \E j \in 1 .. Len(items) : items[j].trans = n
  /\ \A i, j \in 1 .. Len(items) :
       /\ i < j
       /\ received[items[i].trans].persistent
       /\ received[items[j].trans].persistent
       => items[i].trans < items[j].trans

ScreenInv == Background(screen.items)

\* A push puts the newest transaction at the end of the deque.
LEMMA BaseStep == TInv /\ OwnInv /\ BaseInv /\ [Next]_vars => BaseInv'
<1> SUFFICES ASSUME TypeOK, OwnInv, BaseInv, [Next]_vars PROVE BaseInv'
  BY DEF TInv
<1> USE DEF netVars, queueVars, drawVars
<1>1. CASE EndPush
  <2>1. /\ persistent' = Append(persistent, InHand) /\ net = "push"
        /\ persistent \in Seq(Trans \ Frames) /\ received \in Seq(Content)
    BY <1>1 DEF EndPush, Pushed, TypeOK
  <2>2. InHand \in Nat /\ \A i \in 1 .. Len(persistent) : persistent[i] \in 1 .. InHand
    BY <2>1 DEF InHand, Trans
  <2>3. \A i \in 1 .. Len(persistent) : persistent[i] # InHand
    BY <2>1 DEF OwnInv, Handed, Pushes
  <2>4. \A i \in 1 .. Len(persistent) : persistent[i] < InHand
    BY <2>2, <2>3
  <2>5. /\ Len(persistent') = Len(persistent) + 1 /\ Len(persistent) \in Nat
        /\ \A i \in 1 .. Len(persistent) : persistent'[i] = persistent[i]
        /\ persistent'[Len(persistent) + 1] = InHand
    BY <2>1
  <2>6. ASSUME NEW i \in 1 .. Len(persistent'), NEW j \in 1 .. Len(persistent'), i < j
        PROVE  persistent'[i] < persistent'[j]
    <3>1. i \in 1 .. Len(persistent) /\ (j \in 1 .. Len(persistent) \/ j = Len(persistent) + 1)
      BY <2>5, <2>6
    <3>2. QED
      BY <3>1, <2>4, <2>5, <2>6 DEF BaseInv
  <2>7. QED
    BY <2>6 DEF BaseInv
<1>2. CASE CreateServer \/ NetworkFails \/ Receive \/ ProcessFrame \/ BeginPush
  BY <1>2 DEF CreateServer, NetworkFails, Receive, ProcessFrame, BeginPush, BaseInv
<1>3. CASE StartTurn \/ Display \/ MouseBeforeServer \/ DrawMovedDeque \/ Idle \/ TakeFrame
  BY <1>3 DEF StartTurn, Display, DrawPersistent, DrawFrame, MouseBeforeServer,
              DrawMovedDeque, Idle, TakeFrame, BaseInv
<1>4. CASE UNCHANGED vars
  BY <1>4 DEF vars, BaseInv
<1>5. QED
  BY <1>1, <1>2, <1>3, <1>4 DEF Next, ProcessTransaction, MainLoop

\* The deque alone, and the deque with a frame over it, are backgrounds.
LEMMA FinishedPicture ==
  ASSUME TypeOK, OwnInv, BaseInv, PictureInv, Len(picture) = Len(persistent)
  PROVE  /\ Background(picture)
         /\ \A f \in Frames : Background(Append(picture, ItemOf(f)))
<1>0. /\ persistent \in Seq(Trans \ Frames) /\ picture \in Seq(Item)
      /\ received \in Seq(Content) /\ Len(persistent) \in Nat
      /\ deleted \subseteq Frames /\ cmd_wait \in {0} \cup Frames
      /\ cmd_process \in {0} \cup Frames
  BY DEF TypeOK, OwnInv
<1>1. \A i \in 1 .. Len(persistent) : picture[i].trans = persistent[i]
  BY DEF PictureInv
<1>2. \A i \in 1 .. Len(persistent) :
        persistent[i] \in Trans /\ received[persistent[i]].persistent
  BY <1>0 DEF Frames
<1>3. Background(picture)
  BY <1>1, <1>2 DEF Background, BaseInv
<1>4. ASSUME NEW f \in Frames PROVE Background(Append(picture, ItemOf(f)))
  <2> DEFINE q == Append(picture, ItemOf(f))
  <2>1. f \in Trans /\ ~ received[f].persistent
    BY <1>4 DEF Frames
  <2>2. ItemOf(f) \in Item /\ ItemOf(f).trans = f
    BY <2>1, DrawTransType
  <2>3. /\ Len(q) = Len(persistent) + 1
        /\ \A i \in 1 .. Len(persistent) : q[i].trans = persistent[i]
        /\ q[Len(persistent) + 1].trans = f
    BY <2>2, <1>0, <1>1
  <2> HIDE DEF q
  <2>4. \A i \in 1 .. Len(q) :
          \/ i \in 1 .. Len(persistent) /\ q[i].trans = persistent[i]
          \/ i = Len(persistent) + 1 /\ q[i].trans = f
    BY <2>3, <1>0
  <2>5. \A i \in 1 .. Len(persistent) : i \in 1 .. Len(q)
    BY <2>3, <1>0
  <2>6. ASSUME NEW n \in Trans, received[n].persistent, n < f
        PROVE  \E j \in 1 .. Len(q) : q[j].trans = n
    <3>1. n \notin Frames /\ n # 0
      BY <2>6 DEF Frames, Trans
    <3>2. n # InHand
      BY <2>6, <2>1, <1>0 DEF InHand, Trans
    <3>3. Pushes(n)
      BY <3>1, <3>2, <1>0 DEF OwnInv, Kept
    <3>4. QED
      BY <3>3, <2>3, <2>5 DEF Pushes
  <2>7. \A i \in 1 .. Len(q) : q[i].trans \in Trans
    BY <2>1, <2>4, <1>2
  <2>8. ASSUME NEW i \in 1 .. Len(q), ~ received[q[i].trans].persistent
        PROVE  i = Len(q) /\ q[i].trans = f
    BY <2>8, <2>3, <2>4, <1>2
  <2>9. ASSUME NEW i \in 1 .. Len(q), NEW j \in 1 .. Len(q), i < j,
               received[q[j].trans].persistent
        PROVE  q[i].trans < q[j].trans
    <3>1. j \in 1 .. Len(persistent)
      BY <2>9, <2>1, <2>4
    <3>2. i \in 1 .. Len(persistent)
      BY <3>1, <2>9, <1>0, <2>3
    <3>3. QED
      BY <3>1, <3>2, <2>3, <2>9 DEF BaseInv
  <2>10. Background(q)
    BY <2>6, <2>7, <2>8, <2>9 DEF Background
  <2>11. QED
    BY <2>10 DEF q
<1>5. QED
  BY <1>3, <1>4

\* A transaction received later changes nothing of what is shown.
LEMMA BackgroundReceive ==
  ASSUME TypeOK, Receive, NEW items, Background(items), Len(items) \in Nat
  PROVE  /\ \A i \in 1 .. Len(items) : items[i].trans \in Trans'
         /\ \A i \in 1 .. Len(items) :
              ~ received'[items[i].trans].persistent =>
                /\ i = Len(items)
                /\ \A n \in Trans' : received'[n].persistent /\ n < items[i].trans =>
                     \E j \in 1 .. Len(items) : items[j].trans = n
         /\ \A i, j \in 1 .. Len(items) :
              /\ i < j
              /\ received'[items[i].trans].persistent
              /\ received'[items[j].trans].persistent
              => items[i].trans < items[j].trans
<1>1. PICK c \in Content : received' = Append(received, c)
  BY DEF Receive
<1>2. /\ received \in Seq(Content) /\ Len(received') = Len(received) + 1
      /\ Len(received) \in Nat
      /\ \A n \in Trans : received'[n] = received[n]
      /\ Trans \subseteq Trans'
  <2>1. received \in Seq(Content)
    BY DEF TypeOK
  <2>2. Len(received) \in Nat
    BY <2>1
  <2>3. QED
    BY ONLY <2>1, <2>2, <1>1, ReceivedGrows
<1>3. \A i \in 1 .. Len(items) :
        items[i].trans \in Trans /\ received'[items[i].trans] = received[items[i].trans]
  BY <1>2 DEF Background
<1>4. ASSUME NEW i \in 1 .. Len(items), ~ received'[items[i].trans].persistent,
             NEW n \in Trans', received'[n].persistent, n < items[i].trans
      PROVE  \E j \in 1 .. Len(items) : items[j].trans = n
  <2>1. n \in Trans
    <3>1. items[i].trans \in 1 .. Len(received) /\ n \in 1 .. Len(received')
      BY <1>3, <1>4 DEF Trans
    <3>2. QED
      BY <3>1, <1>2, <1>4 DEF Trans
  <2>2. QED
    BY <2>1, <1>2, <1>3, <1>4 DEF Background
<1>5. QED
  BY <1>2, <1>3, <1>4 DEF Background

\* What is on the screen stays right: only DrawFrame changes it.
LEMMA ScreenStep ==
  TInv /\ OwnInv /\ BaseInv /\ PictureInv /\ ScreenInv /\ [Next]_vars => ScreenInv'
<1> SUFFICES ASSUME TypeOK, OwnInv, BaseInv, PictureInv, ScreenInv, [Next]_vars
             PROVE  ScreenInv'
  BY DEF TInv
<1> USE DEF netVars, queueVars, drawVars
<1>1. CASE DrawFrame
  <2>1. Len(picture) = Len(persistent) /\ received' = received
    BY <1>1 DEF DrawFrame
  <2>2. Background(screen'.items)
    <3>1. CASE cmd_process = 0
      BY <3>1, <1>1, <2>1, FinishedPicture DEF DrawFrame
    <3>2. CASE cmd_process # 0
      <4>1. cmd_process \in Frames
        BY <3>2 DEF TypeOK
      <4>2. screen'.items = Append(picture, ItemOf(cmd_process))
        BY <3>2, <1>1 DEF DrawFrame
      <4>3. QED
        BY <4>1, <4>2, <2>1, FinishedPicture
    <3>3. QED
      BY <3>1, <3>2
  <2>3. QED
    BY <2>1, <2>2 DEF ScreenInv, Background, Trans
<1>2. CASE Receive
  <2>1. screen' = screen /\ Len(screen.items) \in Nat
    BY <1>2 DEF Receive, TypeOK
  <2>2. QED
    BY <1>2, <2>1, BackgroundReceive, SMTT(20) DEF ScreenInv, Background
<1>3. CASE CreateServer \/ NetworkFails \/ ProcessTransaction
  BY <1>3 DEF CreateServer, NetworkFails, ProcessTransaction, ProcessFrame, BeginPush,
              EndPush, ScreenInv, Background, Trans
<1>4. CASE StartTurn \/ DrawPersistent \/ MouseBeforeServer \/ DrawMovedDeque \/ Idle \/ TakeFrame
  BY <1>4 DEF StartTurn, DrawPersistent, MouseBeforeServer, DrawMovedDeque, Idle,
              TakeFrame, ScreenInv, Background, Trans
<1>5. CASE UNCHANGED vars
  BY <1>5 DEF vars, ScreenInv, Background, Trans
<1>6. QED
  BY <1>1, <1>2, <1>3, <1>4, <1>5 DEF Next, MainLoop, Display

\* The property, read off the items.
LEMMA ScreenInvUnderFrame == TypeOK /\ ScreenInv => PersistentUnderFrame
<1> SUFFICES ASSUME TypeOK, ScreenInv PROVE PersistentUnderFrame
  OBVIOUS
<1> DEFINE items == screen.items
           shown == Ids(items)
<1>1. items \in Seq(Item) /\ Len(items) \in Nat
  BY DEF TypeOK
<1>2. \A i \in 1 .. Len(items) : items[i].trans \in Nat
  BY DEF ScreenInv, Background, Trans
<1>3. Len(shown) = Len(items) /\ \A i \in 1 .. Len(items) : shown[i] = items[i].trans
  <2>1. shown = [i \in 1 .. Len(items) |-> items[i].trans]
    BY DEF Ids
  <2>2. shown \in [1 .. Len(items) -> Nat]
    BY <2>1, <1>2
  <2>3. shown \in Seq(Nat) /\ Len(shown) = Len(items)
    BY <2>2, <1>1
  <2>4. QED
    BY <2>1, <2>3
<1>4. ASSUME NEW f \in FrameOf(items)
      PROVE  /\ shown[Len(shown)] = f
             /\ \A n \in Trans : received[n].persistent /\ n < f =>
                  \E i \in 1 .. Len(shown) : shown[i] = n
  <2>1. PICK i \in 1 .. Len(items) :
          ~ received[items[i].trans].persistent /\ f = items[i].trans
    BY <1>4 DEF FrameOf
  <2>2. /\ i = Len(items)
        /\ \A n \in Trans : received[n].persistent /\ n < f =>
             \E j \in 1 .. Len(items) : items[j].trans = n
    BY <2>1 DEF ScreenInv, Background
  <2>3. QED
    BY <2>1, <2>2, <1>3
<1>5. \A i, j \in 1 .. Len(shown) :
        /\ i < j
        /\ received[shown[i]].persistent
        /\ received[shown[j]].persistent
        => shown[i] < shown[j]
  BY <1>3 DEF ScreenInv, Background
<1>6. QED
  BY <1>4, <1>5 DEF PersistentUnderFrame

\* A frame on the screen is over all of the persistent transactions received
\* before it, in the order of receipt (graphics.h:43-47), whatever was pushed
\* while Display was in its unlocked loop.
THEOREM PersistentUnderFrameAlways == Spec => []PersistentUnderFrame
<1>1. Init => PictureInv /\ BaseInv /\ ScreenInv
  <2> SUFFICES ASSUME Init PROVE PictureInv /\ BaseInv /\ ScreenInv
    OBVIOUS
  <2>1. Len(persistent) = 0 /\ Len(picture) = 0 /\ Len(screen.items) = 0
    BY DEF Init
  <2>2. QED
    BY <2>1 DEF PictureInv, BaseInv, ScreenInv, Background
<1>2. TInv => TypeOK
  BY DEF TInv
<1>3. QED
  BY <1>1, <1>2, TInvInit, TInvStep, OwnInvInit, OwnInvStep, BaseStep, PictureStep,
     ScreenStep, ScreenInvUnderFrame, PTL DEF Spec


------------------------------------------------------------------------------
(***************************************************************************)
(* The scale.  Display draws with the scale it found; what it draws leaves *)
(* the scale that its last transaction with one sets.                      *)
(***************************************************************************)

\* If items set a scale at all, s is the one that the last of them sets.
LastSets(items, s) ==
  Scaling(items) # {} =>
    \E i \in Scaling(items) :
      /\ \A j \in Scaling(items) : j <= i
      /\ received[items[i].trans].scale = s

\* Between two pictures the scale is that of the picture shown; during one, it
\* is that of what was drawn so far, and the picture is drawn with the former.
ScaleInv ==
  /\ glut # "draw" => picture = << >> /\ LastSets(screen.items, scale)
  /\ glut = "draw" => LastSets(picture, scale) /\ LastSets(screen.items, scaled)

\* Nothing drawn sets nothing.
LEMMA NothingSets == \A s : LastSets(<< >>, s)
BY DEF LastSets, Scaling

\* The last transaction to set a scale is one.
LEMMA LastSetsScale ==
  ASSUME NEW items, NEW s, Len(items) \in Nat, LastSets(items, s), Scaling(items) # {}
  PROVE  LastScale(items) = s
<1>1. PICK i \in Scaling(items) :
        /\ \A j \in Scaling(items) : j <= i
        /\ received[items[i].trans].scale = s
  BY DEF LastSets
<1>2. \A k \in Scaling(items) : (\A j \in Scaling(items) : j <= k) => k = i
  BY <1>1 DEF Scaling
<1>3. (CHOOSE k \in Scaling(items) : \A j \in Scaling(items) : j <= k) = i
  BY <1>1, <1>2
<1>4. QED
  BY <1>1, <1>3 DEF LastScale

\* DrawTrans of one more transaction leaves the scale of the list with it.
LEMMA DrawnSets ==
  ASSUME TypeOK, NEW items \in Seq(Item), NEW n \in Trans, LastSets(items, scale)
  PROVE  LastSets(Append(items, ItemOf(n)), ScaleAfter(n))
<1> DEFINE q == Append(items, ItemOf(n))
<1>1. ItemOf(n) \in Item /\ ItemOf(n).trans = n
  BY DrawTransType
<1>2. /\ Len(items) \in Nat /\ Len(q) = Len(items) + 1
      /\ \A i \in 1 .. Len(items) : q[i] = items[i]
      /\ q[Len(items) + 1].trans = n
  BY <1>1
<1> HIDE DEF q
<1>3. \A i \in 1 .. Len(q) :
        \/ i \in 1 .. Len(items) /\ q[i] = items[i]
        \/ i = Len(items) + 1 /\ q[i].trans = n
  <2>1. \A i \in 1 .. Len(q) : i \in 1 .. Len(items) \/ i = Len(items) + 1
    BY <1>2
  <2>2. QED
    BY <2>1, <1>2
<1>4. \A i \in Scaling(q) : i \in 1 .. Len(q) /\ received[q[i].trans].scale # 0
  BY DEF Scaling
<1>5. CASE received[n].scale # 0
  <2>1. Len(items) + 1 \in Scaling(q)
    BY <1>2, <1>5 DEF Scaling
  <2>2. \A j \in Scaling(q) : j <= Len(items) + 1
    BY <1>2, <1>4
  <2>3. ScaleAfter(n) = received[n].scale
    BY <1>5 DEF ScaleAfter
  <2>4. LastSets(q, ScaleAfter(n))
    BY <2>1, <2>2, <2>3, <1>2 DEF LastSets
  <2>5. QED
    BY <2>4 DEF q
<1>6. CASE received[n].scale = 0
  <2>1. Scaling(q) = Scaling(items)
    <3>1. ASSUME NEW i \in Scaling(q) PROVE i \in Scaling(items)
      BY <1>3, <1>4, <1>6 DEF Scaling
    <3>2. ASSUME NEW i \in Scaling(items) PROVE i \in Scaling(q)
      BY <1>2 DEF Scaling
    <3>3. QED
      BY <3>1, <3>2
  <2>2. \A i \in Scaling(items) : q[i] = items[i]
    BY <1>2 DEF Scaling
  <2>3. ScaleAfter(n) = scale
    BY <1>6 DEF ScaleAfter
  <2>4. LastSets(q, ScaleAfter(n))
    BY <2>1, <2>2, <2>3 DEF LastSets
  <2>5. QED
    BY <2>4 DEF q
<1>7. QED
  BY <1>5, <1>6

\* The frame takes part if there is one.
LEMMA FrameSets ==
  ASSUME TypeOK, LastSets(picture, scale), DrawFrame
  PROVE  LastSets(screen'.items, scale') /\ screen'.items \in Seq(Item)
<1>0. picture \in Seq(Item) /\ cmd_process \in {0} \cup Frames
  BY DEF TypeOK
<1>1. CASE cmd_process = 0
  BY <1>0, <1>1 DEF DrawFrame, drawVars
<1>2. CASE cmd_process # 0
  <2>1. cmd_process \in Trans
    BY <1>0, <1>2 DEF Frames
  <2>2. /\ screen'.items = Append(picture, ItemOf(cmd_process))
        /\ scale' = ScaleAfter(cmd_process)
    BY <1>2 DEF DrawFrame
  <2>3. LastSets(Append(picture, ItemOf(cmd_process)), ScaleAfter(cmd_process))
    BY <1>0, <2>1, DrawnSets
  <2>4. ItemOf(cmd_process) \in Item
    BY <2>1, DrawTransType
  <2>5. QED
    BY <1>0, <2>2, <2>3, <2>4
<1>3. QED
  BY <1>1, <1>2

\* A transaction received later sets nothing of what was drawn.
LEMMA ReceiveSets ==
  ASSUME TypeOK, Receive, NEW items, NEW s, LastSets(items, s),
         \A i \in 1 .. Len(items) : items[i].trans \in Trans
  PROVE  LET S == {i \in 1 .. Len(items) : received'[items[i].trans].scale # 0}
         IN  S # {} => \E i \in S : /\ \A j \in S : j <= i
                                    /\ received'[items[i].trans].scale = s
<1>1. PICK c \in Content : received' = Append(received, c)
  BY DEF Receive
<1>2. received \in Seq(Content)
  BY DEF TypeOK
<1>3. \A n \in Trans : received'[n] = received[n]
  BY ONLY <1>1, <1>2, ReceivedGrows
<1>4. \A i \in 1 .. Len(items) : received'[items[i].trans] = received[items[i].trans]
  BY <1>3
<1>5. {i \in 1 .. Len(items) : received'[items[i].trans].scale # 0} = Scaling(items)
  BY <1>4 DEF Scaling
<1>6. QED
  BY <1>4, <1>5 DEF LastSets, Scaling

\* Every step keeps the scales.
LEMMA ScaleStep ==
  TInv /\ PictureInv /\ ScreenInv /\ ScaleInv /\ [Next]_vars => ScaleInv'
<1> SUFFICES ASSUME TypeOK, PictureInv, ScreenInv, ScaleInv, [Next]_vars
             PROVE  ScaleInv'
  BY DEF TInv
<1> USE DEF netVars, queueVars, drawVars
<1>1. CASE StartTurn
  <2>1. /\ picture = << >> /\ LastSets(screen.items, scale)
        /\ UNCHANGED <<received, picture, screen, scale>>
        /\ glut' = "draw" => scaled' = scale
    BY <1>1 DEF StartTurn, ScaleInv
  <2>2. LastSets(picture, scale)
    BY <2>1, NothingSets
  <2>3. QED
    BY <2>1, <2>2 DEF ScaleInv, LastSets, Scaling
<1>2. CASE DrawPersistent
  <2>1. /\ glut = "draw" /\ Len(picture) < Len(persistent)
        /\ scale' = ScaleAfter(persistent[Len(picture) + 1])
        /\ picture' = Append(picture, ItemOf(persistent[Len(picture) + 1]))
        /\ UNCHANGED <<received, glut, screen, scaled>>
    BY <1>2 DEF DrawPersistent
  <2>2. picture \in Seq(Item) /\ persistent \in Seq(Trans \ Frames)
    BY DEF TypeOK
  <2>3. PICK n \in Trans : n = persistent[Len(picture) + 1]
    BY <2>1, <2>2
  <2>4. LastSets(Append(picture, ItemOf(n)), ScaleAfter(n))
    BY <2>1, <2>2, DrawnSets DEF ScaleInv
  <2>5. LastSets(picture', scale')
    BY <2>1, <2>3, <2>4
  <2>6. LastSets(screen.items, scaled)
    BY <2>1 DEF ScaleInv
  <2>7. QED
    BY <2>1, <2>5, <2>6 DEF ScaleInv, LastSets, Scaling
<1>3. CASE DrawFrame
  <2>1. /\ glut = "draw" /\ glut' = "idle" /\ picture' = << >> /\ received' = received
    BY <1>3 DEF DrawFrame
  <2>2. LastSets(screen'.items, scale')
    BY <1>3, <2>1, FrameSets DEF ScaleInv
  <2>3. QED
    BY <2>1, <2>2 DEF ScaleInv, LastSets, Scaling
<1>4. CASE Receive
  <2>1. UNCHANGED <<glut, picture, scale, scaled, screen>>
    BY <1>4 DEF Receive
  <2>2. \A i \in 1 .. Len(screen.items) : screen.items[i].trans \in Trans
    BY DEF ScreenInv, Background
  <2>3. \A i \in 1 .. Len(picture) : picture[i].trans \in Trans
    <3>1. persistent \in Seq(Trans \ Frames) /\ picture \in Seq(Item)
      BY DEF TypeOK
    <3>2. \A i \in 1 .. Len(picture) : i \in 1 .. Len(persistent)
      BY <3>1 DEF PictureInv
    <3>3. QED
      BY <3>1, <3>2 DEF PictureInv
  <2>4. CASE glut # "draw"
    <3>1. picture = << >> /\ LastSets(screen.items, scale)
      BY <2>4 DEF ScaleInv
    <3>2. QED
      BY <1>4, <2>1, <2>2, <2>4, <3>1, ReceiveSets DEF ScaleInv, LastSets, Scaling
  <2>5. CASE glut = "draw"
    <3>1. LastSets(picture, scale) /\ LastSets(screen.items, scaled)
      BY <2>5 DEF ScaleInv
    <3>2. LastSets(picture, scale)'
      BY <1>4, <2>1, <2>3, <3>1, ReceiveSets DEF LastSets, Scaling
    <3>3. LastSets(screen.items, scaled)'
      <4>1. PICK shown : shown = screen.items
        OBVIOUS
      <4>2. /\ LastSets(shown, scaled)
            /\ \A i \in 1 .. Len(shown) : shown[i].trans \in Trans
        BY <4>1, <2>2, <3>1
      <4>3. LET S == {i \in 1 .. Len(shown) : received'[shown[i].trans].scale # 0}
            IN  S # {} => \E i \in S : /\ \A j \in S : j <= i
                                       /\ received'[shown[i].trans].scale = scaled
        BY <1>4, <4>2, ReceiveSets
      <4>4. shown = screen'.items /\ scaled' = scaled
        BY <4>1, <2>1
      <4>5. QED
        BY ONLY <4>3, <4>4 DEF LastSets, Scaling
    <3>4. QED
      BY <2>1, <2>5, <3>2, <3>3 DEF ScaleInv
  <2>6. QED
    BY <2>4, <2>5
<1>5. CASE CreateServer \/ NetworkFails \/ ProcessTransaction
  BY <1>5 DEF CreateServer, NetworkFails, ProcessTransaction, ProcessFrame, BeginPush,
              EndPush, ScaleInv, LastSets, Scaling
<1>6. CASE MouseBeforeServer \/ DrawMovedDeque \/ Idle \/ TakeFrame
  BY <1>6 DEF MouseBeforeServer, DrawMovedDeque, Idle, TakeFrame, ScaleInv, LastSets, Scaling
<1>7. CASE UNCHANGED vars
  BY <1>7 DEF vars, ScaleInv, LastSets, Scaling
<1>8. QED
  BY <1>1, <1>2, <1>3, <1>4, <1>5, <1>6, <1>7 DEF Next, MainLoop, Display

\* A picture shown twice in a row is, the second time, in the scale that its
\* own transactions set last (graphics_server.cpp:148-157).
THEOREM ScaleCatchesUpAlways == Spec => ScaleCatchesUp
<1> DEFINE Caught ==
             screen.items # << >> /\ screen'.items = screen.items
               /\ picture' = << >> /\ glut = "draw" /\ glut' = "idle"
               /\ Scaling(screen.items) # {}
               => screen'.scale = LastScale(screen.items)
<1>1. TypeOK /\ ScaleInv /\ [Next]_vars => [Caught]_vars
  <2> SUFFICES ASSUME TypeOK, ScaleInv, [Next]_vars, glut = "draw", glut' = "idle",
                      Scaling(screen.items) # {}
               PROVE  screen'.scale = LastScale(screen.items)
    OBVIOUS
  <2> USE DEF netVars, queueVars, drawVars
  <2>1. DrawFrame
    BY DEF Next, CreateServer, NetworkFails, Receive, ProcessTransaction, ProcessFrame,
       BeginPush, EndPush, MainLoop, StartTurn, Display, DrawPersistent, Idle, TakeFrame,
       MouseBeforeServer, DrawMovedDeque, vars
  <2>2. screen'.scale = scaled
    BY <2>1 DEF DrawFrame
  <2>3. LastSets(screen.items, scaled) /\ Len(screen.items) \in Nat
    BY DEF ScaleInv, TypeOK
  <2>4. QED
    BY <2>2, <2>3, LastSetsScale
<1>2. Init => PictureInv /\ BaseInv /\ ScreenInv /\ ScaleInv
  <2> SUFFICES ASSUME Init PROVE PictureInv /\ BaseInv /\ ScreenInv /\ ScaleInv
    OBVIOUS
  <2>1. /\ Len(persistent) = 0 /\ Len(picture) = 0 /\ Len(screen.items) = 0
        /\ picture = << >> /\ screen.items = << >> /\ glut = "events"
    BY DEF Init
  <2>2. PictureInv /\ BaseInv /\ ScreenInv
    BY <2>1 DEF PictureInv, BaseInv, ScreenInv, Background
  <2>3. ScaleInv
    BY <2>1, NothingSets DEF ScaleInv
  <2>4. QED
    BY <2>2, <2>3
<1>3. TInv => TypeOK
  BY DEF TInv
<1>4. QED
  BY <1>1, <1>2, <1>3, TInvInit, TInvStep, OwnInvInit, OwnInvStep, BaseStep, PictureStep,
     ScreenStep, ScaleStep, PTL DEF Spec, ScaleCatchesUp
=============================================================================
