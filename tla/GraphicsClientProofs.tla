------------------------ MODULE GraphicsClientProofs ------------------------
(***************************************************************************)
(* Theorems about GraphicsClient for any threads, shapes, data and bounds. *)
(***************************************************************************)
EXTENDS GraphicsClient, SequenceLemmas, WellFoundedInduction, TLAPS

Adding(t) == call[t] \in {"drawing", "mapping"}
current == cur_trans.items

\* One call is in progress at most, DrawMap included.
CallInv == \A t, u \in Thread : call[t] # "none" /\ call[u] # "none" => t = u

\* The walk over the list is one over nothing only when the socket is off the list.
SkipInv == \A t \in Thread : call[t] = "skipping" => ~listed

\* Only the last item may be unset, while the call that added it is in progress.
ItemInv ==
  /\ \A f \in 1 .. Len(Frames) : Len(Frames[f].items) <= MaxItems
  /\ \A k \in 1 .. Len(current) - 1 : current[k] # Unset
  /\ current # << >> /\ current[Len(current)] = Unset <=> \E t \in Thread : Adding(t)

\* The places of all the data brought so far.
Brought == BringData(Len(wire) + 1, Len(current))

\* old_data is what was brought last, in whichever frame that was.
KeptData ==
  IF old_data = None THEN Brought = {}
  ELSE \E p \in Brought :
         /\ \A q \in Brought : NotBefore(p, q)
         /\ Frames[p[1]].items[p[2]].data = old_data

\* Frames that are lost take their data with them.
DataInv == Open => KeptData

IInv == TypeOK /\ CallInv /\ SkipInv /\ ItemInv /\ DataInv

------------------------------------------------------------------------------
(***************************************************************************)
(* The operators of the model.                                             *)
(***************************************************************************)

\* A transaction is its items and its flag.
LEMMA TransactionFields ==
  /\ \A tr \in Transaction : tr.items \in Seq(Item) /\ tr.persistent \in BOOLEAN
  /\ \A s \in Seq(Item), b \in BOOLEAN : [items |-> s, persistent |-> b] \in Transaction
  /\ EmptyTransaction \in Transaction
  /\ EmptyTransaction.items = << >> /\ EmptyTransaction.persistent = FALSE
<1>1. << >> \in Seq(Item)
  OBVIOUS
<1>2. QED
  BY <1>1 DEF Transaction, EmptyTransaction

\* An item that is set is a shape or a map, never what add_message() gives.
LEMMA Items ==
  /\ Unset \in Item
  /\ \A shape \in Shape :
       /\ ShapeItem(shape) \in Item /\ ShapeItem(shape) # Unset
       /\ ShapeItem(shape).shape = shape /\ ShapeItem(shape).shape # "map"
       /\ ShapeItem(shape).data = None
  /\ \A data \in Data \cup {None} :
       /\ MapItem(data) \in Item /\ MapItem(data) # Unset
       /\ MapItem(data).shape = "map" /\ MapItem(data).data = data
  /\ Unset.data = None
BY NoneAssumption DEF Item, Unset, ShapeItem, MapItem

\* The frames are those sent and the one being filled.
LEMMA FramesAre ==
  ASSUME wire \in Seq(Transaction), cur_trans \in Transaction
  PROVE  /\ Frames \in Seq(Transaction)
         /\ Len(Frames) = Len(wire) + 1 /\ Len(wire) \in Nat
         /\ \A f \in 1 .. Len(wire) : Frames[f] = wire[f]
         /\ Frames[Len(wire) + 1] = cur_trans
         /\ current \in Seq(Item)
         /\ \A f \in 1 .. Len(wire) + 1 :
              Frames[f].items \in Seq(Item) /\ Frames[f].persistent \in BOOLEAN
<1>1. /\ Frames \in Seq(Transaction)
      /\ Len(Frames) = Len(wire) + 1 /\ Len(wire) \in Nat
      /\ \A f \in 1 .. Len(wire) : Frames[f] = wire[f]
      /\ Frames[Len(wire) + 1] = cur_trans
  BY AppendProperties DEF Frames
<1>2. \A f \in 1 .. Len(wire) + 1 : Frames[f] \in Transaction
  BY <1>1
<1>3. QED
  BY <1>1, <1>2, TransactionFields DEF current

\* add_message() adds an unset item.
LEMMA AddEffect ==
  ASSUME TypeOK, AddMessage
  PROVE  /\ cur_trans' \in Transaction
         /\ cur_trans'.persistent = cur_trans.persistent
         /\ current' = Append(current, Unset)
         /\ current' \in Seq(Item)
         /\ Len(current') = Len(current) + 1 /\ Len(current') <= MaxItems
         /\ \A k \in 1 .. Len(current) : current'[k] = current[k]
         /\ current'[Len(current) + 1] = Unset
<1>1. current \in Seq(Item) /\ cur_trans.persistent \in BOOLEAN
  BY TransactionFields DEF TypeOK, current
<1>2. /\ cur_trans'.items = Append(cur_trans.items, Unset)
      /\ cur_trans'.persistent = cur_trans.persistent
      /\ cur_trans' = [items |-> cur_trans'.items, persistent |-> cur_trans'.persistent]
  BY DEF AddMessage, TypeOK, Transaction
<1>3. current' = Append(current, Unset)
  BY <1>2 DEF current
<1>4. /\ current' \in Seq(Item)
      /\ Len(current') = Len(current) + 1
      /\ \A k \in 1 .. Len(current) : current'[k] = current[k]
      /\ current'[Len(current) + 1] = Unset
  BY <1>1, <1>3, Items, AppendProperties
<1>5. Len(current') <= MaxItems
  BY <1>1, <1>4, BoundsAssumption DEF AddMessage, current
<1>6. cur_trans' \in Transaction
  BY <1>1, <1>2, <1>4, TransactionFields DEF current
<1>7. QED
  BY <1>2, <1>3, <1>4, <1>5, <1>6

\* The call sets the item it added, the last one, and no other.
LEMMA SetEffect ==
  ASSUME TypeOK, current # << >>, NEW item \in Item, cur_trans' = SetMessage(item)
  PROVE  /\ cur_trans' \in Transaction
         /\ cur_trans'.persistent = cur_trans.persistent
         /\ current' \in Seq(Item)
         /\ Len(current') = Len(current)
         /\ \A k \in 1 .. Len(current) - 1 : current'[k] = current[k]
         /\ current'[Len(current)] = item
<1>1. current \in Seq(Item) /\ cur_trans.persistent \in BOOLEAN
  BY TransactionFields DEF TypeOK, current
<1>2. /\ cur_trans'.items = [current EXCEPT ![Len(current)] = item]
      /\ cur_trans'.persistent = cur_trans.persistent
      /\ cur_trans' = [items |-> cur_trans'.items, persistent |-> cur_trans'.persistent]
  BY DEF SetMessage, TypeOK, Transaction, current
<1>3. current' = [current EXCEPT ![Len(current)] = item]
  BY <1>2 DEF current
<1>4. Len(current) \in 1 .. Len(current) /\ Len(current) \in Nat
  BY <1>1
<1>5. /\ current' \in Seq(Item)
      /\ Len(current') = Len(current)
      /\ \A j \in 1 .. Len(current) :
           current'[j] = IF j = Len(current) THEN item ELSE current[j]
  BY <1>1, <1>3, <1>4, ExceptSeq
<1>6. cur_trans' \in Transaction
  BY <1>1, <1>2, <1>5, TransactionFields DEF current
<1>7. QED
  BY <1>2, <1>4, <1>5, <1>6
------------------------------------------------------------------------------
(***************************************************************************)
(* The data of the maps.                                                   *)
(***************************************************************************)

\* A bounded set of numbers has a largest.
LEMMA Largest ==
  ASSUME NEW b \in Nat, NEW S \in SUBSET (0 .. b), S # {}
  PROVE  \E m \in S : \A n \in S : n <= m
<1> DEFINE T == {b - n : n \in S}
<1>1. \A n \in S : n \in Nat /\ b - n \in Nat
  OBVIOUS
<1>2. T \subseteq Nat /\ T # {}
  BY <1>1
<1>3. \E x \in T : \A y \in T : ~(<<y, x>> \in OpToRel(<, Nat))
  BY <1>2, NatLessThanWellFounded, WFMin
<1>4. PICK x \in T : \A y \in T : ~(y < x)
  BY <1>2, <1>3 DEF OpToRel
<1>5. PICK m \in S : x = b - m
  OBVIOUS
<1>6. \A n \in S : n <= m
  BY <1>1, <1>4, <1>5
<1>7. QED
  BY <1>6

\* Of some places one is the last.
LEMMA SomeLatest ==
  ASSUME NEW a \in Nat, NEW b \in Nat, NEW P \in SUBSET ((1 .. a) \X (1 .. b)), P # {}
  PROVE  Latest(P) \in P
<1> DEFINE F == {p[1] : p \in P}
<1>1. F \in SUBSET (0 .. a) /\ F # {}
  OBVIOUS
<1>2. PICK m \in F : \A n \in F : n <= m
  BY <1>1, Largest
<1> DEFINE I == {p[2] : p \in {q \in P : q[1] = m}}
<1>3. I \in SUBSET (0 .. b) /\ I # {}
  OBVIOUS
<1>4. PICK i \in I : \A n \in I : n <= i
  BY <1>3, Largest
<1>5. PICK p \in P : p[1] = m /\ p[2] = i
  OBVIOUS
<1>6. ASSUME NEW q \in P PROVE NotBefore(p, q)
  <2>1. q[1] \in F /\ q[1] <= m /\ q[1] \in Nat /\ m \in Nat
    BY <1>1, <1>2
  <2>2. q[1] = m => q[2] \in I /\ q[2] <= i
    BY <1>4
  <2>3. QED
    BY <1>5, <2>1, <2>2 DEF NotBefore
<1>7. \E q \in P : \A r \in P : NotBefore(q, r)
  BY <1>6
<1>8. QED
  BY <1>7 DEF Latest

\* And only one.
LEMMA OneLatest ==
  ASSUME NEW a \in Nat, NEW b \in Nat, NEW P \in SUBSET ((1 .. a) \X (1 .. b)),
         NEW p \in P, \A q \in P : NotBefore(p, q)
  PROVE  Latest(P) = p
<1>1. Latest(P) \in P /\ \A q \in P : NotBefore(Latest(P), q)
  BY DEF Latest
<1>2. NotBefore(Latest(P), p) /\ NotBefore(p, Latest(P))
  BY <1>1
<1>3. /\ Latest(P) = <<Latest(P)[1], Latest(P)[2]>> /\ p = <<p[1], p[2]>>
      /\ Latest(P)[1] \in Nat /\ Latest(P)[2] \in Nat /\ p[1] \in Nat /\ p[2] \in Nat
  BY <1>1
<1>4. Latest(P)[1] = p[1] /\ Latest(P)[2] = p[2]
  BY <1>2, <1>3 DEF NotBefore
<1>5. QED
  BY <1>3, <1>4

\* The frames up to f, and frame f up to item k, are what they were.
Same(f, k) ==
  /\ \A g \in 1 .. f - 1 : Frames'[g].items = Frames[g].items
  /\ \A j \in 1 .. k :
       /\ j \in DOMAIN Frames'[f].items <=> j \in DOMAIN Frames[f].items
       /\ Frames'[f].items[j] = Frames[f].items[j]

\* Then so is what was brought up to there, and what is shown there.
LEMMA SameShown ==
  ASSUME NEW f \in Nat, NEW k \in Nat, Same(f, k)
  PROVE  /\ BringData(f, k)' = BringData(f, k)
         /\ k # 0 => Shown(f, k)' = Shown(f, k)
<1>1. ASSUME NEW p \in (1 .. f) \X (1 .. MaxItems), p[1] < f \/ p[2] <= k
      PROVE  /\ p[2] \in DOMAIN Frames'[p[1]].items <=> p[2] \in DOMAIN Frames[p[1]].items
             /\ Frames'[p[1]].items[p[2]] = Frames[p[1]].items[p[2]]
  <2>1. p[1] \in 1 .. f /\ p[2] \in 1 .. MaxItems
    OBVIOUS
  <2>2. CASE p[1] < f
    <3>1. p[1] \in 1 .. f - 1
      BY <2>1, <2>2
    <3>2. QED
      BY <3>1 DEF Same
  <2>3. CASE p[1] = f /\ p[2] <= k
    <3>1. p[2] \in 1 .. k
      BY <2>1, <2>3, BoundsAssumption
    <3>2. QED
      BY <2>3, <3>1 DEF Same
  <2>4. QED
    BY <1>1, <2>1, <2>2, <2>3
<1>2. BringData(f, k)' = BringData(f, k)
  BY <1>1 DEF BringData
<1>3. ASSUME k # 0 PROVE Shown(f, k)' = Shown(f, k)
  <2>1. Frames'[f].items[k] = Frames[f].items[k]
    BY <1>3 DEF Same
  <2>2. CASE BringData(f, k) = {}
    BY <1>2, <2>1, <2>2 DEF Shown
  <2>3. CASE BringData(f, k) # {}
    <3> DEFINE last == Latest(BringData(f, k))
    <3>1. last \in BringData(f, k)
      <4>1. BringData(f, k) \in SUBSET ((1 .. f) \X (1 .. MaxItems))
        BY DEF BringData
      <4>2. QED
        BY <2>3, <4>1, SomeLatest, BoundsAssumption
    <3>2. Frames'[last[1]].items[last[2]] = Frames[last[1]].items[last[2]]
      BY <1>1, <3>1 DEF BringData
    <3> HIDE DEF last
    <3>3. last' = last
      BY <1>2 DEF last
    <3>4. /\ Shown(f, k) = IF Frames[f].items[k].shape # "map" \/ BringData(f, k) = {}
                            THEN Frames[f].items[k]
                            ELSE MapItem(Frames[last[1]].items[last[2]].data)
          /\ Shown(f, k)' = IF Frames'[f].items[k].shape # "map" \/ BringData(f, k)' = {}
                             THEN Frames'[f].items[k]
                             ELSE MapItem(Frames'[last'[1]].items[last'[2]].data)
      BY DEF Shown, last
    <3>5. QED
      BY <1>2, <2>1, <3>2, <3>3, <3>4
  <2>4. QED
    BY <2>2, <2>3
<1>4. QED
  BY <1>2, <1>3

\* All data brought is that of the items there are.
LEMMA BroughtAre ==
  ASSUME wire \in Seq(Transaction), cur_trans \in Transaction
  PROVE  Brought = {p \in (1 .. Len(wire) + 1) \X (1 .. MaxItems) :
                      /\ p[2] \in DOMAIN Frames[p[1]].items
                      /\ Frames[p[1]].items[p[2]].data # None}
<1>1. /\ Len(wire) \in Nat /\ Frames[Len(wire) + 1].items = current
      /\ current \in Seq(Item) /\ Len(current) \in Nat
  BY FramesAre DEF current
<1>2. ASSUME NEW p \in (1 .. Len(wire) + 1) \X (1 .. MaxItems),
             p[2] \in DOMAIN Frames[p[1]].items
      PROVE  p[1] < Len(wire) + 1 \/ p[2] <= Len(current)
  <2>1. p[1] \in 1 .. Len(wire) + 1
    OBVIOUS
  <2>2. CASE p[1] = Len(wire) + 1
    BY <1>1, <1>2, <2>2
  <2>3. QED
    BY <1>1, <2>1, <2>2
<1>3. QED
  BY <1>2 DEF Brought, BringData

\* While no frame ends, the frames before the current one are what they were.
LEMMA SameFrames ==
  ASSUME wire \in Seq(Transaction), cur_trans \in Transaction,
         cur_trans' \in Transaction, wire' = wire
  PROVE  /\ Len(wire)' = Len(wire) /\ Frames' \in Seq(Transaction)
         /\ \A f \in 1 .. Len(wire) : Frames'[f] = Frames[f]
         /\ Frames[Len(wire) + 1].items = current
         /\ Frames'[Len(wire) + 1].items = current'
<1>1. /\ Frames' \in Seq(Transaction)
      /\ \A f \in 1 .. Len(wire) : Frames'[f] = wire[f]
      /\ Frames'[Len(wire) + 1] = cur_trans'
  BY AppendProperties DEF Frames
<1>2. QED
  BY <1>1, FramesAre DEF current
------------------------------------------------------------------------------
(***************************************************************************)
(* The invariant.                                                          *)
(***************************************************************************)

\* The constructor's values.
LEMMA IInvInit == Init => IInv
<1> SUFFICES ASSUME Init PROVE IInv
  OBVIOUS
<1>1. /\ cur_trans = EmptyTransaction /\ wire = << >> /\ old_data = None
      /\ call = [t \in Thread |-> "none"] /\ graphics_mutex = None
      /\ enabled \in BOOLEAN /\ listed = enabled /\ torn = FALSE
  BY DEF Init
<1>2. << >> \in Seq(Transaction) /\ Len(<< >>) = 0
  OBVIOUS
<1>3. TypeOK
  <2>1. cur_trans \in Transaction /\ wire \in Seq(Transaction)
    BY <1>1, <1>2, TransactionFields
  <2>2. call \in [Thread -> {"none", "drawing", "mapping", "sending", "skipping"}]
    BY <1>1
  <2>3. \A t \in Thread :
          graphics_mutex = t <=> call[t] \in {"drawing", "sending", "skipping"}
    BY <1>1, NoneAssumption
  <2>4. QED
    BY <1>1, <2>1, <2>2, <2>3 DEF TypeOK
<1>4. CallInv
  BY <1>1 DEF CallInv
<1>5. current = << >>
  BY <1>1, TransactionFields DEF current
<1>6. ItemInv
  <2>1. /\ Len(Frames) = 1 /\ Frames[1].items = << >>
    BY <1>1, <1>2, <1>5, TransactionFields, FramesAre DEF current
  <2>2. \A f \in 1 .. Len(Frames) : Len(Frames[f].items) <= MaxItems
    BY <1>2, <2>1, BoundsAssumption
  <2>3. \A t \in Thread : ~Adding(t)
    BY <1>1 DEF Adding
  <2>4. QED
    BY <1>2, <1>5, <2>2, <2>3 DEF ItemInv
<1>7. DataInv
  <2>1. Frames[1].items = << >> /\ Len(wire) = 0
    BY <1>1, <1>2, <1>5, TransactionFields, FramesAre DEF current
  <2>2. DOMAIN Frames[1].items = {}
    BY <2>1
  <2>3. Brought = {}
    BY <2>1, <2>2 DEF Brought, BringData
  <2>4. QED
    BY <1>1, <2>3 DEF DataInv, KeptData
<1>8. SkipInv
  BY <1>1 DEF SkipInv
<1>9. QED
  BY <1>3, <1>4, <1>6, <1>7, <1>8 DEF IInv

\* Every step keeps the types, the mutex and the one call at a time.
LEMMA TypesStep == IInv /\ [Next]_vars => TypeOK' /\ CallInv'
<1> SUFFICES ASSUME TypeOK, CallInv, ItemInv, [Next]_vars PROVE TypeOK' /\ CallInv'
  BY DEF IInv
<1> DEFINE Locked == \A t \in Thread :
                       graphics_mutex = t <=> call[t] \in {"drawing", "sending", "skipping"}
           CallTypes ==
             call \in [Thread -> {"none", "drawing", "mapping", "sending", "skipping"}]
<1>1. ASSUME NEW t \in Thread, NEW name \in {"drawing", "sending", "skipping"}, Enter(t, name)
      PROVE  CallTypes' /\ graphics_mutex' \in Thread \cup {None} /\ Locked' /\ CallInv'
  <2>1. \A u \in Thread : call[u] = "none"
    BY <1>1, NoneAssumption DEF Enter, TypeOK
  <2>2. QED
    BY <1>1, <2>1 DEF Enter, TypeOK, CallInv
<1>2. ASSUME NEW t \in Thread, Leave(t), call[t] \in {"drawing", "sending", "skipping"}
      PROVE  CallTypes' /\ graphics_mutex' \in Thread \cup {None} /\ Locked' /\ CallInv'
  <2>1. \A u \in Thread : u # t => call[u] = "none"
    BY <1>2 DEF TypeOK, CallInv
  <2>2. QED
    BY <1>2, <2>1, NoneAssumption DEF Leave, TypeOK, CallInv
<1>3. ASSUME NEW t \in Thread, BeginDraw(t) PROVE TypeOK' /\ CallInv'
  <2>1. CallTypes' /\ graphics_mutex' \in Thread \cup {None} /\ Locked' /\ CallInv'
    BY <1>1, <1>3 DEF BeginDraw
  <2>2. cur_trans' \in Transaction
    BY <1>3, AddEffect DEF BeginDraw
  <2>3. QED
    BY <1>3, <2>1, <2>2 DEF BeginDraw, TypeOK, connection
<1>4. ASSUME NEW t \in Thread, EndDraw(t) PROVE TypeOK' /\ CallInv'
  <2>1. CallTypes' /\ graphics_mutex' \in Thread \cup {None} /\ Locked' /\ CallInv'
    BY <1>2, <1>4 DEF EndDraw
  <2>2. current # << >>
    BY <1>4 DEF EndDraw, ItemInv, Adding
  <2>3. cur_trans' \in Transaction
    BY <1>4, <2>2, SetEffect, Items DEF EndDraw
  <2>4. QED
    BY <1>4, <2>1, <2>3 DEF EndDraw, TypeOK, connection
<1>5. ASSUME NEW t \in Thread, BeginMap(t) PROVE TypeOK' /\ CallInv'
  <2>1. cur_trans' \in Transaction
    BY <1>5, AddEffect DEF BeginMap
  <2>2. QED
    BY <1>5, <2>1 DEF BeginMap, TypeOK, CallInv, connection
<1>6. ASSUME NEW t \in Thread, EndMap(t) PROVE TypeOK' /\ CallInv'
  <2>1. PICK data \in Data :
          /\ cur_trans' = SetMessage(MapItem(IF old_data # data THEN data ELSE None))
          /\ old_data' = data
    BY <1>6 DEF EndMap
  <2>2. current # << >>
    BY <1>6 DEF EndMap, ItemInv, Adding
  <2>3. cur_trans' \in Transaction
    BY <2>1, <2>2, SetEffect, Items
  <2>4. QED
    BY <1>6, <2>1, <2>3 DEF EndMap, TypeOK, CallInv, connection
<1>7. ASSUME NEW t \in Thread, NEW persistent \in BOOLEAN, BeginFrame(t, persistent)
      PROVE  TypeOK' /\ CallInv'
  <2>1. CallTypes' /\ graphics_mutex' \in Thread \cup {None} /\ Locked' /\ CallInv'
    BY <1>1, <1>7 DEF BeginFrame
  <2>2. cur_trans' \in Transaction
    BY <1>7 DEF BeginFrame, TypeOK, Transaction
  <2>3. QED
    BY <1>7, <2>1, <2>2 DEF BeginFrame, TypeOK, connection
<1>8. Sent \in Seq(Transaction)
  BY AppendProperties DEF Sent, TypeOK
<1>9. ASSUME NEW t \in Thread, EndFrame(t) \/ SkipFrame(t) PROVE TypeOK' /\ CallInv'
  <2>1. CallTypes' /\ graphics_mutex' \in Thread \cup {None} /\ Locked' /\ CallInv'
    BY <1>2, <1>9 DEF EndFrame, SkipFrame
  <2>2. cur_trans' \in Transaction /\ wire' \in Seq(Transaction)
    BY <1>8, <1>9, TransactionFields DEF EndFrame, SkipFrame, TypeOK
  <2>3. QED
    BY <1>9, <2>1, <2>2 DEF EndFrame, SkipFrame, TypeOK, connection
<1>10. ASSUME NEW t \in Thread, FrameThrows(t) \/ Overrun(t) PROVE TypeOK' /\ CallInv'
  <2>1. CallTypes' /\ graphics_mutex' \in Thread \cup {None} /\ Locked' /\ CallInv'
    BY <1>2, <1>10 DEF FrameThrows, Overrun, Throw
  <2>2. torn' \in BOOLEAN
    BY <1>10 DEF FrameThrows, Overrun, TypeOK, connection
  <2>3. QED
    BY <1>8, <1>10, <2>1, <2>2 DEF FrameThrows, Overrun, TypeOK, Unsent, connection
<1>11. ASSUME ConnectionLost PROVE TypeOK' /\ CallInv'
  BY <1>11 DEF ConnectionLost, TypeOK, CallInv
<1>12. CASE UNCHANGED vars
  BY <1>12 DEF vars, connection, TypeOK, CallInv
<1>13. QED
  BY <1>3, <1>4, <1>5, <1>6, <1>7, <1>9, <1>10, <1>11, <1>12 DEF Next

\* Every step keeps all items but the last one set, and their number bounded.
LEMMA ItemStep == IInv /\ [Next]_vars => ItemInv'
<1> SUFFICES ASSUME TypeOK, CallInv, ItemInv, [Next]_vars PROVE ItemInv'
  BY DEF IInv
<1>1. /\ Frames \in Seq(Transaction)
      /\ Len(Frames) = Len(wire) + 1 /\ Len(wire) \in Nat
      /\ \A f \in 1 .. Len(wire) : Frames[f] = wire[f]
      /\ Frames[Len(wire) + 1] = cur_trans
      /\ current \in Seq(Item) /\ Len(current) \in Nat
  BY FramesAre DEF TypeOK
<1>2. \A f \in 1 .. Len(wire) : Len(wire[f].items) <= MaxItems
  BY <1>1 DEF ItemInv
<1>3. Len(current) <= MaxItems
  BY <1>1 DEF ItemInv, current
<1>4. ASSUME cur_trans' \in Transaction, wire' = wire, Len(current') <= MaxItems
      PROVE  \A f \in 1 .. Len(Frames') : Len(Frames'[f].items) <= MaxItems
  <2>1. /\ Len(Frames') = Len(wire) + 1
        /\ \A f \in 1 .. Len(wire) : Frames'[f] = wire[f]
        /\ Frames'[Len(wire) + 1] = cur_trans'
    BY <1>1, <1>4, AppendProperties DEF Frames, TypeOK
  <2>2. QED
    BY <1>1, <1>2, <1>4, <2>1 DEF current
<1>5. ASSUME NEW t \in Thread, BeginDraw(t) \/ BeginMap(t) PROVE ItemInv'
  <2>1. \A u \in Thread : ~Adding(u)
    BY <1>5, NoneAssumption DEF BeginDraw, BeginMap, Enter, TypeOK, Adding
  <2>2. /\ cur_trans' \in Transaction /\ wire' = wire
        /\ Len(current') = Len(current) + 1 /\ Len(current') <= MaxItems
        /\ current' \in Seq(Item)
        /\ \A k \in 1 .. Len(current) : current'[k] = current[k]
        /\ current'[Len(current) + 1] = Unset
    BY <1>5, AddEffect DEF BeginDraw, BeginMap
  <2>3. \A k \in 1 .. Len(current) : current[k] # Unset
    BY <1>1, <2>1 DEF ItemInv
  <2>4. Adding(t)'
    BY <1>5 DEF BeginDraw, BeginMap, Enter, Adding, TypeOK
  <2>5. \A k \in 1 .. Len(current') - 1 : current'[k] # Unset
    BY <1>1, <2>2, <2>3
  <2>6. current' # << >> /\ current'[Len(current')] = Unset
    BY <1>1, <2>2
  <2>7. QED
    BY <1>4, <2>2, <2>4, <2>5, <2>6 DEF ItemInv
<1>6. ASSUME NEW t \in Thread, EndDraw(t) \/ EndMap(t) PROVE ItemInv'
  <2>1. PICK item \in Item : item # Unset /\ cur_trans' = SetMessage(item)
    <3>1. CASE EndDraw(t)
      BY <3>1, Items DEF EndDraw
    <3>2. CASE EndMap(t)
      BY <3>2, Items DEF EndMap
    <3>3. QED
      BY <1>6, <3>1, <3>2
  <2>2. Adding(t)
    BY <1>6 DEF EndDraw, EndMap, Adding
  <2>3. current # << >>
    BY <2>2 DEF ItemInv
  <2>4. /\ cur_trans' \in Transaction /\ wire' = wire
        /\ Len(current') = Len(current) /\ Len(current') <= MaxItems
        /\ \A k \in 1 .. Len(current) - 1 : current'[k] = current[k]
        /\ current'[Len(current)] = item
    BY <1>3, <1>6, <2>1, <2>3, SetEffect DEF EndDraw, EndMap
  <2>5. \A u \in Thread : ~Adding(u)'
    <3>1. call' = [call EXCEPT ![t] = "none"]
      BY <1>6 DEF EndDraw, EndMap, Leave
    <3>2. \A u \in Thread : u # t => call[u] = "none"
      BY <2>2 DEF CallInv, Adding
    <3>3. QED
      BY <3>1, <3>2 DEF Adding, TypeOK
  <2>6. QED
    BY <1>1, <1>4, <2>1, <2>4, <2>5 DEF ItemInv
<1>7. ASSUME NEW t \in Thread, NEW persistent \in BOOLEAN, BeginFrame(t, persistent)
      PROVE  ItemInv'
  <2>1. cur_trans' \in Transaction /\ current' = current /\ wire' = wire
    BY <1>7 DEF BeginFrame, TypeOK, Transaction, current
  <2>2. \A u \in Thread : Adding(u)' <=> Adding(u)
    BY <1>7 DEF BeginFrame, Enter, Adding, TypeOK
  <2>3. QED
    BY <1>3, <1>4, <2>1, <2>2 DEF ItemInv
<1>8. \A f \in 1 .. Len(Sent) : Len(Sent[f].items) <= MaxItems
  <2>1. CASE torn
    BY <1>2, <2>1 DEF Sent
  <2>2. CASE ~torn
    <3>1. /\ Len(Sent) = Len(wire) + 1
          /\ \A f \in 1 .. Len(wire) : Sent[f] = wire[f]
          /\ Sent[Len(wire) + 1] = cur_trans
      BY <2>2, AppendProperties DEF Sent, TypeOK
    <3>2. QED
      BY <1>1, <1>2, <1>3, <3>1 DEF current
  <2>3. QED
    BY <2>1, <2>2
<1>9. ASSUME wire' \in {wire, Sent}, wire' \in Seq(Transaction),
             cur_trans' \in {cur_trans, EmptyTransaction},
             \A u \in Thread : ~Adding(u) /\ ~Adding(u)'
      PROVE  ItemInv'
  <2>1. /\ current' = current \/ (current' = << >> /\ Len(current') = 0)
        /\ Len(current') <= MaxItems
    <3>1. CASE cur_trans' = cur_trans
      BY <1>3, <3>1 DEF current
    <3>2. CASE cur_trans' = EmptyTransaction
      BY <3>2, BoundsAssumption, TransactionFields DEF current
    <3>3. QED
      BY <1>9, <3>1, <3>2
  <2>2. \A f \in 1 .. Len(wire') : Len(wire'[f].items) <= MaxItems
    BY <1>2, <1>8, <1>9
  <2>3. /\ Len(Frames') = Len(wire') + 1 /\ Len(wire') \in Nat
        /\ \A f \in 1 .. Len(wire') : Frames'[f] = wire'[f]
        /\ Frames'[Len(wire') + 1] = cur_trans'
    BY <1>9, AppendProperties, TransactionFields DEF Frames, TypeOK
  <2>4. \A f \in 1 .. Len(Frames') : Len(Frames'[f].items) <= MaxItems
    <3> TAKE f \in 1 .. Len(Frames')
    <3>1. CASE f \in 1 .. Len(wire')
      BY <2>2, <2>3, <3>1
    <3>2. CASE f = Len(wire') + 1
      BY <2>1, <2>3, <3>2 DEF current
    <3>3. QED
      BY <2>3, <3>1, <3>2
  <2>5. /\ \A k \in 1 .. Len(current') - 1 : current'[k] # Unset
        /\ ~(current' # << >> /\ current'[Len(current')] = Unset)
    BY <1>1, <1>9, <2>1 DEF ItemInv
  <2>6. QED
    BY <1>9, <2>4, <2>5 DEF ItemInv
<1>10. ASSUME NEW t \in Thread,
              EndFrame(t) \/ SkipFrame(t) \/ FrameThrows(t) \/ Overrun(t)
       PROVE  ItemInv'
  <2>1. /\ call' = [call EXCEPT ![t] = "none"] /\ call[t] \in {"sending", "skipping"}
        /\ cur_trans' \in {cur_trans, EmptyTransaction}
        /\ wire' \in {wire, Sent}
    BY <1>10 DEF EndFrame, SkipFrame, FrameThrows, Overrun, Throw, Leave, Unsent
  <2>2. \A u \in Thread : ~Adding(u) /\ ~Adding(u)'
    BY <2>1 DEF Adding, TypeOK, CallInv
  <2>3. wire' \in Seq(Transaction)
    BY <2>1, AppendProperties DEF Sent, TypeOK
  <2>4. QED
    BY <1>9, <2>1, <2>2, <2>3
<1>11. CASE ConnectionLost \/ UNCHANGED vars
  BY <1>11 DEF ConnectionLost, vars, ItemInv, Frames, current, Adding
<1>12. QED
  BY <1>5, <1>6, <1>7, <1>10, <1>11 DEF Next

\* The socket never comes back to the list.
LEMMA SkipStep == IInv /\ [Next]_vars => SkipInv'
BY DEF IInv, SkipInv, Next, vars, connection, BeginDraw, EndDraw, BeginMap, EndMap,
       BeginFrame, EndFrame, SkipFrame, FrameThrows, Overrun, ConnectionLost, Enter, Throw,
       Leave, TypeOK

\* A connection that is broken is never made again.
LEMMA OpenStep == IInv /\ [Next]_vars /\ Open' => Open
<1> SUFFICES ASSUME TypeOK, CallInv, [Next]_vars, Open' PROVE Open
  BY DEF IInv
<1>1. ~torn /\ (listed' => listed)
  BY DEF Next, vars, connection, BeginDraw, EndDraw, BeginMap, EndMap, BeginFrame, EndFrame,
         SkipFrame, FrameThrows, Overrun, ConnectionLost, Open, TypeOK
<1>2. ASSUME ~listed, NEW t \in Thread, call'[t] = "sending" PROVE call[t] = "sending"
  BY <1>2 DEF Next, vars, BeginDraw, EndDraw, BeginMap, EndMap, BeginFrame, EndFrame,
         SkipFrame, FrameThrows, Overrun, ConnectionLost, Enter, Throw, Leave, TypeOK
<1>3. QED
  BY <1>1, <1>2 DEF Open

\* Every step keeps old_data what was brought last.
LEMMA DataStep == IInv /\ [Next]_vars => DataInv'
<1> SUFFICES ASSUME TypeOK, TypeOK', CallInv, SkipInv, ItemInv, ItemInv', KeptData,
                    [Next]_vars, Open'
             PROVE  KeptData'
  BY TypesStep, ItemStep, OpenStep DEF IInv, DataInv
<1> DEFINE L == Len(wire)
           place == <<L + 1, Len(current)>>
<1>1. /\ wire \in Seq(Transaction) /\ cur_trans \in Transaction
      /\ wire' \in Seq(Transaction) /\ cur_trans' \in Transaction
      /\ L \in Nat /\ current \in Seq(Item) /\ Len(current) \in Nat
      /\ Frames[L + 1].items = current
      /\ Len(current) <= MaxItems
  BY FramesAre DEF TypeOK, ItemInv, current
<1>2. Brought = {p \in (1 .. L + 1) \X (1 .. MaxItems) :
                   /\ p[2] \in DOMAIN Frames[p[1]].items
                   /\ Frames[p[1]].items[p[2]].data # None}
  BY <1>1, BroughtAre
<1>3. Brought' = {p \in (1 .. Len(wire') + 1) \X (1 .. MaxItems) :
                    /\ p[2] \in DOMAIN Frames'[p[1]].items
                    /\ Frames'[p[1]].items[p[2]].data # None}
  <2>1. (wire \in Seq(Transaction) /\ cur_trans \in Transaction
         => Brought = {p \in (1 .. Len(wire) + 1) \X (1 .. MaxItems) :
                         /\ p[2] \in DOMAIN Frames[p[1]].items
                         /\ Frames[p[1]].items[p[2]].data # None})'
    BY BroughtAre, PTL
  <2>2. QED
    BY <1>1, <2>1
<1>4. ASSUME Brought' = Brought, old_data' = old_data,
             \A p \in Brought : Frames'[p[1]].items[p[2]].data = Frames[p[1]].items[p[2]].data
      PROVE  KeptData'
  BY <1>4 DEF KeptData
<1>5. ASSUME wire' = wire, old_data' = old_data,
             \A k \in 1 .. MaxItems :
               (k \in DOMAIN current /\ current[k].data # None)
                  <=> (k \in DOMAIN current' /\ current'[k].data # None),
             \A k \in 1 .. MaxItems :
               k \in DOMAIN current /\ current[k].data # None => current'[k].data = current[k].data
      PROVE  KeptData'
  <2>1. /\ \A f \in 1 .. L : Frames'[f] = Frames[f]
        /\ Frames'[L + 1].items = current'
    BY <1>1, <1>5, SameFrames
  <2>2. ASSUME NEW p \in (1 .. L + 1) \X (1 .. MaxItems)
        PROVE  /\ p \in Brought' <=> p \in Brought
               /\ p \in Brought =>
                    Frames'[p[1]].items[p[2]].data = Frames[p[1]].items[p[2]].data
    <3>1. p[1] \in 1 .. L \/ p[1] = L + 1
      BY <1>1
    <3>2. CASE p[1] \in 1 .. L
      BY <1>2, <1>3, <1>5, <2>1, <3>2
    <3>3. CASE p[1] = L + 1
      BY <1>1, <1>2, <1>3, <1>5, <2>1, <3>3
    <3>4. QED
      BY <3>1, <3>2, <3>3
  <2>3. Brought' = Brought
    <3>1. Brought \subseteq (1 .. L + 1) \X (1 .. MaxItems)
      BY <1>2
    <3>2. Brought' \subseteq (1 .. L + 1) \X (1 .. MaxItems)
      BY <1>3, <1>5
    <3>3. QED
      BY <2>2, <3>1, <3>2
  <2>4. \A p \in Brought : Frames'[p[1]].items[p[2]].data = Frames[p[1]].items[p[2]].data
    BY <1>2, <2>2
  <2>5. QED
    BY <1>4, <1>5, <2>3, <2>4
<1>6. ASSUME NEW t \in Thread, BeginDraw(t) \/ BeginMap(t) PROVE KeptData'
  <2>1. /\ wire' = wire /\ old_data' = old_data
        /\ current' \in Seq(Item) /\ Len(current') = Len(current) + 1
        /\ \A k \in 1 .. Len(current) : current'[k] = current[k]
        /\ current'[Len(current) + 1] = Unset
    BY <1>6, AddEffect DEF BeginDraw, BeginMap
  <2>2. DOMAIN current' = DOMAIN current \cup {Len(current) + 1} /\ DOMAIN current = 1 .. Len(current)
    BY <1>1, <2>1
  <2>3. QED
    BY <1>5, <2>1, <2>2, Items
<1>7. ASSUME NEW t \in Thread, EndDraw(t) \/ EndMap(t)
      PROVE  current # << >> /\ current[Len(current)].data = None
  <2>1. Adding(t)
    BY <1>7 DEF EndDraw, EndMap, Adding
  <2>2. current # << >> /\ current[Len(current)] = Unset
    BY <2>1 DEF ItemInv
  <2>3. QED
    BY <2>2, Items
<1>8. ASSUME NEW t \in Thread, EndDraw(t) \/ EndMap(t), NEW item \in Item,
             item.data = None, cur_trans' = SetMessage(item), old_data' = old_data
      PROVE  KeptData'
  <2>1. /\ wire' = wire
        /\ current' \in Seq(Item) /\ Len(current') = Len(current)
        /\ \A k \in 1 .. Len(current) - 1 : current'[k] = current[k]
        /\ current'[Len(current)] = item
    BY <1>7, <1>8, SetEffect DEF EndDraw, EndMap
  <2>2. DOMAIN current' = DOMAIN current /\ DOMAIN current = 1 .. Len(current)
    BY <1>1, <2>1
  <2>3. \A k \in 1 .. Len(current) :
          \/ current'[k] = current[k]
          \/ current'[k].data = None /\ current[k].data = None
    <3> TAKE k \in 1 .. Len(current)
    <3>1. k \in 1 .. Len(current) - 1 \/ k = Len(current)
      BY <1>1
    <3>2. QED
      BY <1>7, <1>8, <2>1, <3>1
  <2>4. QED
    BY <1>5, <1>8, <2>1, <2>2, <2>3
<1>9. ASSUME NEW t \in Thread, EndDraw(t) PROVE KeptData'
  BY <1>8, <1>9, Items DEF EndDraw
<1>10. ASSUME NEW t \in Thread, EndMap(t) PROVE KeptData'
  <2>1. PICK data \in Data :
          /\ cur_trans' = SetMessage(MapItem(IF old_data # data THEN data ELSE None))
          /\ old_data' = data
    BY <1>10 DEF EndMap
  <2>2. CASE old_data = data
    BY <1>8, <1>10, <2>1, <2>2, Items
  <2>3. CASE old_data # data
    <3>1. /\ wire' = wire /\ data # None
          /\ current' \in Seq(Item) /\ Len(current') = Len(current)
          /\ \A k \in 1 .. Len(current) - 1 : current'[k] = current[k]
          /\ current'[Len(current)].data = data
      BY <1>7, <1>10, <2>1, <2>3, SetEffect, Items, NoneAssumption DEF EndMap
    <3>2. /\ DOMAIN current' = DOMAIN current /\ DOMAIN current = 1 .. Len(current)
          /\ Len(current) \in 1 .. Len(current)
      BY <1>1, <1>7, <1>10, <3>1
    <3>3. /\ \A f \in 1 .. L : Frames'[f] = Frames[f]
          /\ Frames'[L + 1].items = current'
      BY <1>1, <3>1, SameFrames
    <3>4. place \in Brought'
      BY <1>1, <1>3, <3>1, <3>2, <3>3, BoundsAssumption
    <3>5. \A q \in Brought' : NotBefore(place, q)
      <4> TAKE q \in Brought'
      <4>1. q[1] \in 1 .. L + 1 /\ q[2] \in DOMAIN Frames'[q[1]].items
        BY <1>3, <3>1
      <4>2. CASE q[1] = L + 1
        BY <3>2, <3>3, <4>1, <4>2, <1>1 DEF NotBefore
      <4>3. CASE q[1] # L + 1
        BY <4>1, <4>3, <1>1 DEF NotBefore
      <4>4. QED
        BY <4>2, <4>3
    <3>6. Frames'[place[1]].items[place[2]].data = old_data' /\ old_data' # None
      BY <2>1, <3>1, <3>3
    <3>7. QED
      BY <3>4, <3>5, <3>6 DEF KeptData
  <2>4. QED
    BY <2>2, <2>3
<1>11. ASSUME wire' = wire, current' = current, old_data' = old_data PROVE KeptData'
  BY <1>5, <1>11
<1>12. ASSUME NEW t \in Thread, EndFrame(t) PROVE KeptData'
  <2>1. /\ wire' = Append(wire, cur_trans) /\ cur_trans' = EmptyTransaction
        /\ old_data' = old_data
    BY <1>12 DEF EndFrame, Sent, Open, connection
  <2>2. /\ Len(wire') = L + 1 /\ Frames' \in Seq(Transaction)
        /\ \A f \in 1 .. L + 1 : Frames'[f] = Frames[f]
        /\ Frames'[L + 2].items = << >>
    <3>1. Len(wire') = L + 1 /\ wire' = Frames
      BY <1>1, <2>1, AppendProperties DEF Frames
    <3>2. /\ Frames' \in Seq(Transaction)
          /\ \A f \in 1 .. L + 1 : Frames'[f] = wire'[f]
          /\ Frames'[L + 2] = cur_trans'
      BY <1>1, <3>1, AppendProperties DEF Frames
    <3>3. QED
      BY <2>1, <3>1, <3>2, TransactionFields
  <2>3. ASSUME NEW p PROVE p \in Brought' <=> p \in Brought
    <3>1. p \in Brought' => p[1] \in 1 .. L + 1
      <4>1. p \in Brought' => p[1] \in 1 .. L + 2 /\ p[2] \in DOMAIN Frames'[p[1]].items
        BY <1>1, <1>3, <2>2
      <4>2. QED
        BY <1>1, <2>2, <4>1
    <3>2. QED
      BY <1>1, <1>2, <1>3, <2>2, <3>1
  <2>4. Brought' = Brought
    BY <2>3
  <2>5. \A p \in Brought : Frames'[p[1]].items[p[2]].data = Frames[p[1]].items[p[2]].data
    BY <1>2, <2>2
  <2>6. QED
    BY <1>4, <2>1, <2>4, <2>5
<1>13. ASSUME NEW t \in Thread, NEW persistent \in BOOLEAN, BeginFrame(t, persistent)
       PROVE  KeptData'
  <2>1. current' = current
    BY <1>1, <1>13 DEF BeginFrame, Transaction, current
  <2>2. QED
    BY <1>11, <1>13, <2>1 DEF BeginFrame
<1>14. ASSUME NEW t \in Thread, FrameThrows(t) PROVE KeptData'
  BY <1>11, <1>14 DEF FrameThrows, Unsent, current
<1>15. ASSUME NEW t \in Thread PROVE ~SkipFrame(t) /\ ~Overrun(t)
  <2>1. ASSUME SkipFrame(t) \/ Overrun(t) PROVE ~Open'
    <3>1. /\ call' = [call EXCEPT ![t] = "none"] /\ call[t] \in {"sending", "skipping"}
          /\ listed' = listed
      BY <2>1 DEF SkipFrame, Overrun, Throw, Leave, connection
    <3>2. ~listed
      BY <2>1 DEF SkipFrame, SkipInv, Overrun
    <3>3. QED
      BY <3>1, <3>2 DEF Open, CallInv, TypeOK
  <2>2. QED
    BY <2>1
<1>16. CASE ConnectionLost \/ UNCHANGED vars
  BY <1>11, <1>16 DEF ConnectionLost, vars, current
<1>17. QED
  BY <1>6, <1>9, <1>10, <1>12, <1>13, <1>14, <1>15, <1>16 DEF Next

\* The invariant is inductive.
LEMMA Inductive == Spec => []IInv
<1>1. IInv /\ [Next]_vars => IInv'
  BY TypesStep, SkipStep, ItemStep, DataStep DEF IInv
<1>2. QED
  BY IInvInit, <1>1, PTL DEF Spec

\* Whatever threads draw, the variables are of their types and the mutex is held
\* by exactly the thread that is in a call that takes it (graphics.cpp:33-77).
THEOREM TypeCorrect == Spec => []TypeOK
<1>1. IInv => TypeOK
  BY DEF IInv
<1>2. QED
  BY Inductive, <1>1, PTL
------------------------------------------------------------------------------
(***************************************************************************)
(* The refinement of Sketch.                                               *)
(***************************************************************************)

\* What is drawn in a frame is a sequence as long as its complete items.
LEMMA DrawnInFields ==
  ASSUME NEW f
  PROVE  /\ DrawnIn(f) = [k \in 1 .. Complete(f) |-> DrawnIn(f)[k]]
         /\ \A k \in 1 .. Complete(f) : DrawnIn(f)[k] = Shown(f, k)
BY DEF DrawnIn

\* Frames that are the same up to the complete items of f show the same.
LEMMA SameDrawn ==
  ASSUME NEW f \in Nat, Complete(f) \in Nat, Complete(f)' = Complete(f), Same(f, Complete(f))
  PROVE  DrawnIn(f)' = DrawnIn(f)
<1>1. ASSUME NEW k \in 1 .. Complete(f) PROVE Shown(f, k)' = Shown(f, k)
  <2>1. Same(f, k) /\ k \in Nat /\ k # 0
    BY DEF Same
  <2>2. QED
    BY <2>1, SameShown
<1>2. QED
  BY <1>1 DEF DrawnIn

\* How many items of a frame are complete.
CompleteInv ==
  /\ \A f \in 1 .. Len(wire) : Complete(f) = Len(Frames[f].items) /\ Complete(f) \in Nat
  /\ Complete(Len(wire) + 1) \in Nat
  /\ (\A t \in Thread : ~Adding(t)) => Complete(Len(wire) + 1) = Len(current)
  /\ (\E t \in Thread : Adding(t)) =>
       current # << >> /\ Complete(Len(wire) + 1) = Len(current) - 1

LEMMA CompleteItems == TypeOK /\ ItemInv => CompleteInv
<1> SUFFICES ASSUME TypeOK, ItemInv PROVE CompleteInv
  OBVIOUS
<1>1. /\ Len(wire) \in Nat /\ Frames[Len(wire) + 1].items = current
      /\ current \in Seq(Item) /\ Len(current) \in Nat
      /\ \A f \in 1 .. Len(wire) : Frames[f].items \in Seq(Item)
  BY FramesAre DEF TypeOK, current
<1>2. \A f \in 1 .. Len(wire) : Complete(f) = Len(Frames[f].items) /\ Complete(f) \in Nat
  BY <1>1 DEF Complete
<1>3. Complete(Len(wire) + 1) = IF current # << >> /\ current[Len(current)] = Unset
                               THEN Len(current) - 1 ELSE Len(current)
  BY <1>1 DEF Complete
<1>4. current # << >> => Len(current) - 1 \in Nat
  BY <1>1
<1>5. QED
  BY <1>1, <1>2, <1>3, <1>4 DEF ItemInv, CompleteInv

\* Until a frame ends, what is drawn in the frames sent stays as it is, and so is
\* the book; the page keeps at least what was complete.
LEMMA DrawnStays ==
  ASSUME TypeOK, ItemInv, TypeOK', ItemInv', wire' = wire
  PROVE  /\ \A f \in 1 .. Len(wire) : DrawnIn(f)' = DrawnIn(f)
         /\ \A k \in Nat \ {0} :
              (\A j \in 1 .. k : /\ j \in DOMAIN current' <=> j \in DOMAIN current
                                /\ current'[j] = current[j])
              => Shown(Len(wire) + 1, k)' = Shown(Len(wire) + 1, k)
<1>1. /\ Len(wire) \in Nat
      /\ \A f \in 1 .. Len(wire) : Frames'[f] = Frames[f]
      /\ Frames[Len(wire) + 1].items = current
      /\ Frames'[Len(wire) + 1].items = current'
  BY SameFrames, LenProperties DEF TypeOK
<1>2. ASSUME NEW f \in 1 .. Len(wire) PROVE DrawnIn(f)' = DrawnIn(f)
  <2>1. Complete(f) \in Nat /\ Complete(f)' = Complete(f)
    BY <1>1, CompleteItems DEF Complete, CompleteInv
  <2>2. Same(f, Complete(f)) /\ f \in Nat
    BY <1>1 DEF Same
  <2>3. QED
    BY <2>1, <2>2, SameDrawn
<1>3. ASSUME NEW k \in Nat \ {0},
             \A j \in 1 .. k : /\ j \in DOMAIN current' <=> j \in DOMAIN current
                               /\ current'[j] = current[j]
      PROVE  Shown(Len(wire) + 1, k)' = Shown(Len(wire) + 1, k)
  <2> DEFINE f == Len(wire) + 1
  <2>1. Same(f, k) /\ f \in Nat /\ f' = f
    BY <1>1, <1>3 DEF Same
  <2>2. QED
    BY <2>1, <1>3, SameShown
<1>4. QED
  BY <1>2, <1>3

\* The page, its flag and the book that Sketch is instantiated with.
Page == IF Open THEN DrawnIn(Len(wire) + 1) ELSE << >>
Flag == Open /\ cur_trans.persistent
Book == [f \in DOMAIN wire |-> [drawings |-> DrawnIn(f), persistent |-> wire[f].persistent]]
Drawings == {ShapeItem(shape) : shape \in Shape} \cup {MapItem(data) : data \in Data}

\* Nothing is on the page when the object is constructed.
LEMMA SketchInit == Init => Promised!Init
<1> SUFFICES ASSUME Init PROVE Promised!Init
  OBVIOUS
<1>1. TypeOK /\ ItemInv
  BY IInvInit DEF IInv
<1>2. wire = << >> /\ cur_trans = EmptyTransaction /\ \A t \in Thread : ~Adding(t)
  BY DEF Init, Adding
<1>3. Len(wire) = 0 /\ Len(current) = 0
  BY <1>2, TransactionFields DEF current
<1>4. Complete(Len(wire) + 1) = 0
  BY <1>1, <1>2, <1>3, CompleteItems DEF CompleteInv
<1>5. DrawnIn(Len(wire) + 1) = << >>
  BY <1>4 DEF DrawnIn
<1>6. Open \in BOOLEAN
  BY DEF Open
<1>7. QED
  BY <1>2, <1>5, <1>6, TransactionFields DEF Promised!Init

\* Until a frame ends, the book stays as it is.
LEMMA BookStays ==
  ASSUME TypeOK, ItemInv, TypeOK', ItemInv', wire' = wire
  PROVE  Book' = Book
<1>1. DOMAIN wire = 1 .. Len(wire)
  BY DEF TypeOK
<1>2. \A f \in 1 .. Len(wire) : DrawnIn(f)' = DrawnIn(f)
  BY DrawnStays
<1>3. QED
  BY <1>1, <1>2 DEF Book

\* A call that adds its item has not drawn it yet.
LEMMA BeginStutters ==
  ASSUME TypeOK, CallInv, ItemInv, TypeOK', ItemInv', NEW t \in Thread,
         BeginDraw(t) \/ BeginMap(t)
  PROVE  /\ DrawnIn(Len(wire) + 1)' = DrawnIn(Len(wire) + 1) /\ Book' = Book
         /\ cur_trans'.persistent = cur_trans.persistent
<1>1. \A u \in Thread : ~Adding(u)
  BY NoneAssumption DEF BeginDraw, BeginMap, Enter, TypeOK, Adding
<1>2. Adding(t)'
  BY DEF BeginDraw, BeginMap, Enter, Adding, TypeOK
<1>3. /\ wire' = wire
      /\ cur_trans'.persistent = cur_trans.persistent
      /\ current' \in Seq(Item) /\ Len(current') = Len(current) + 1
      /\ \A k \in 1 .. Len(current) : current'[k] = current[k]
  BY AddEffect DEF BeginDraw, BeginMap
<1>4. /\ Len(wire) \in Nat /\ Len(current) \in Nat
      /\ DOMAIN current = 1 .. Len(current) /\ DOMAIN current' = 1 .. Len(current) + 1
  BY <1>3, FramesAre DEF TypeOK
<1>5. /\ Complete(Len(wire) + 1) = Len(current)
      /\ Complete(Len(wire) + 1)' = Len(current)
  <2>1. CompleteInv /\ CompleteInv'
    BY CompleteItems, PTL
  <2>2. QED
    BY <1>1, <1>2, <1>3, <1>4, <2>1 DEF CompleteInv
<1>6. ASSUME NEW k \in 1 .. Len(current) PROVE Shown(Len(wire) + 1, k)' = Shown(Len(wire) + 1, k)
  <2>1. k \in Nat \ {0} /\ \A j \in 1 .. k : /\ j \in DOMAIN current' <=> j \in DOMAIN current
                                              /\ current'[j] = current[j]
    BY <1>3, <1>4
  <2>2. QED
    BY <1>3, <2>1, DrawnStays
<1>7. DrawnIn(Len(wire) + 1)' = DrawnIn(Len(wire) + 1)
  BY <1>5, <1>6 DEF DrawnIn
<1>8. QED
  BY <1>3, <1>7, BookStays

\* A call that sets its item puts what the item shows on the page.
LEMMA EndDraws ==
  ASSUME TypeOK, CallInv, ItemInv, TypeOK', ItemInv', NEW t \in Thread,
         EndDraw(t) \/ EndMap(t), NEW item \in Item, cur_trans' = SetMessage(item)
  PROVE  /\ Len(current) \in Nat \ {0} /\ current[Len(current)] = Unset
         /\ wire' = wire /\ current' \in Seq(Item) /\ Len(current') = Len(current)
         /\ current'[Len(current)] = item
         /\ cur_trans'.persistent = cur_trans.persistent /\ Book' = Book
         /\ DrawnIn(Len(wire) + 1)' =
              Append(DrawnIn(Len(wire) + 1), Shown(Len(wire) + 1, Len(current))')
<1>1. Adding(t)
  BY DEF EndDraw, EndMap, Adding
<1>2. \A u \in Thread : ~Adding(u)'
  <2>1. call' = [call EXCEPT ![t] = "none"]
    BY DEF EndDraw, EndMap, Leave
  <2>2. \A u \in Thread : u # t => call[u] = "none"
    BY <1>1 DEF CallInv, Adding
  <2>3. QED
    BY <2>1, <2>2 DEF Adding, TypeOK
<1>3. /\ current # << >> /\ current[Len(current)] = Unset
      /\ wire' = wire
      /\ cur_trans'.persistent = cur_trans.persistent
      /\ current' \in Seq(Item) /\ Len(current') = Len(current)
      /\ \A k \in 1 .. Len(current) - 1 : current'[k] = current[k]
      /\ current'[Len(current)] = item
  BY <1>1, SetEffect DEF EndDraw, EndMap, ItemInv
<1>4. /\ Len(wire) \in Nat /\ current \in Seq(Item)
      /\ DOMAIN current = 1 .. Len(current) /\ DOMAIN current' = 1 .. Len(current)
  BY <1>3, FramesAre DEF TypeOK
<1>5. Len(current) \in Nat \ {0}
  BY <1>3, <1>4
<1> DEFINE p == DrawnIn(Len(wire) + 1)
           n == Len(current) - 1
<1>6. Complete(Len(wire) + 1) = n /\ Complete(Len(wire) + 1)' = n + 1
  <2>1. CompleteInv /\ CompleteInv'
    BY CompleteItems, PTL
  <2>2. QED
    BY <1>1, <1>2, <1>3, <1>5, <2>1 DEF CompleteInv
<1>7. ASSUME NEW k \in 1 .. n PROVE Shown(Len(wire) + 1, k)' = Shown(Len(wire) + 1, k)
  <2>1. k \in Nat \ {0} /\ \A j \in 1 .. k : /\ j \in DOMAIN current' <=> j \in DOMAIN current
                                              /\ current'[j] = current[j]
    BY <1>3, <1>4, <1>5
  <2>2. QED
    BY <1>3, <2>1, DrawnStays
<1>8. /\ p = [k \in 1 .. n |-> p[k]] /\ p' = [k \in 1 .. n + 1 |-> p'[k]]
      /\ \A k \in 1 .. n : p'[k] = p[k]
      /\ p'[n + 1] = Shown(Len(wire) + 1, n + 1)'
  <2>1. /\ p = [k \in 1 .. n |-> Shown(Len(wire) + 1, k)]
        /\ p' = [k \in 1 .. n + 1 |-> Shown(Len(wire) + 1, k)']
    BY <1>6 DEF DrawnIn
  <2>2. \A k \in 1 .. n : p[k] = Shown(Len(wire) + 1, k)
    BY ONLY <2>1
  <2>3. \A k \in 1 .. n + 1 : p'[k] = Shown(Len(wire) + 1, k)'
    BY ONLY <2>1
  <2>4. n + 1 \in 1 .. n + 1 /\ 1 .. n \subseteq 1 .. n + 1
    BY <1>5
  <2>5. \A k \in 1 .. n : p'[k] = p[k]
    BY ONLY <1>7, <2>2, <2>3, <2>4
  <2>6. p'[n + 1] = Shown(Len(wire) + 1, n + 1)'
    BY <1>3, <1>5, <2>3, <2>4
  <2>7. p = [k \in 1 .. n |-> p[k]] /\ p' = [k \in 1 .. n + 1 |-> p'[k]]
    BY ONLY <2>1, <2>2, <2>3
  <2>8. QED
    BY ONLY <2>5, <2>6, <2>7
<1>9. p' = Append(p, Shown(Len(wire) + 1, n + 1)')
  <2> HIDE DEF p
  <2>1. n \in Nat
    BY <1>5
  <2>2. QED
    BY <1>8, <2>1, AppendByPlaces
<1>10. n + 1 = Len(current)
  BY <1>5
<1>11. QED
  BY <1>3, <1>5, <1>9, <1>10, BookStays

\* A drawing that is no map is shown as it is, a map with the data kept for it.
ShownInv ==
  current # << >> =>
    /\ current[Len(current)].shape # "map"
         => Shown(Len(wire) + 1, Len(current)) = current[Len(current)]
    /\ current[Len(current)].shape = "map" /\ old_data # None
         => Shown(Len(wire) + 1, Len(current)) = MapItem(old_data)

LEMMA LastShown == TypeOK /\ KeptData => ShownInv
<1> SUFFICES ASSUME TypeOK, KeptData, current # << >> PROVE ShownInv
  BY DEF ShownInv
<1>1. Frames[Len(wire) + 1].items = current /\ Len(wire) \in Nat
  BY FramesAre DEF TypeOK, current
<1>2. Shown(Len(wire) + 1, Len(current)) =
        IF current[Len(current)].shape # "map" \/ Brought = {} THEN current[Len(current)]
        ELSE MapItem(Frames[Latest(Brought)[1]].items[Latest(Brought)[2]].data)
  BY <1>1 DEF Shown, Brought
<1>3. ASSUME old_data # None
      PROVE  /\ Brought # {}
             /\ Frames[Latest(Brought)[1]].items[Latest(Brought)[2]].data = old_data
  <2>1. PICK p \in Brought :
          /\ \A q \in Brought : NotBefore(p, q)
          /\ Frames[p[1]].items[p[2]].data = old_data
    BY <1>3 DEF KeptData
  <2>2. Brought \in SUBSET ((1 .. Len(wire) + 1) \X (1 .. MaxItems))
    BY DEF Brought, BringData
  <2>3. Latest(Brought) = p
    BY <1>1, <2>1, <2>2, OneLatest, BoundsAssumption
  <2>4. QED
    BY <2>1, <2>3
<1>4. QED
  BY <1>2, <1>3 DEF ShownInv

\* A frame that is sent is in the book as it was on the page, and when DrawFrame
\* returns the page is empty.
LEMMA FrameTurnsOver ==
  ASSUME TypeOK, CallInv, ItemInv, TypeOK', ItemInv', ~torn, NEW t \in Thread,
         EndFrame(t) \/ Overrun(t)
  PROVE  /\ Book' = Append(Book, [drawings |-> DrawnIn(Len(wire) + 1),
                                 persistent |-> cur_trans.persistent])
         /\ EndFrame(t) => DrawnIn(Len(wire) + 1)' = << >> /\ cur_trans'.persistent = FALSE
<1> DEFINE L == Len(wire)
<1>1. /\ wire' = Append(wire, cur_trans)
      /\ call' = [call EXCEPT ![t] = "none"] /\ call[t] = "sending"
      /\ EndFrame(t) => cur_trans' = EmptyTransaction
  BY DEF EndFrame, Overrun, Sent, Throw, Leave
<1>2. /\ \A u \in Thread : ~Adding(u)
      /\ \A u \in Thread : ~Adding(u)'
  BY <1>1 DEF Adding, TypeOK, CallInv
<1>3. /\ L \in Nat /\ Len(wire') = L + 1 /\ wire' \in Seq(Transaction)
      /\ DOMAIN wire = 1 .. L /\ DOMAIN wire' = 1 .. L + 1
      /\ \A f \in 1 .. L : wire'[f] = wire[f]
      /\ wire'[L + 1] = cur_trans /\ wire' = Frames
  BY <1>1, AppendProperties DEF TypeOK, Frames
<1>4. /\ \A f \in 1 .. L + 1 : Frames'[f] = Frames[f]
      /\ Frames[L + 1].items = current
      /\ EndFrame(t) => current' = << >> /\ Len(current') = 0
  <2>1. \A f \in 1 .. L + 1 : Frames'[f] = wire'[f]
    BY <1>3, AppendProperties DEF Frames, TypeOK
  <2>2. QED
    BY <1>1, <1>3, <2>1, TransactionFields DEF current
<1>5. CompleteInv /\ CompleteInv'
  BY CompleteItems, PTL
<1>6. ASSUME NEW f \in 1 .. L + 1
      PROVE  DrawnIn(f)' = DrawnIn(f)
  <2>1. Complete(f) = Len(Frames[f].items)
    <3>1. f \in 1 .. L \/ f = L + 1
      BY <1>3
    <3>2. QED
      BY <1>2, <1>4, <1>5, <3>1 DEF CompleteInv
  <2>2. Complete(f)' = Len(Frames'[f].items) /\ Complete(f)' \in Nat
    BY <1>3, <1>5 DEF CompleteInv
  <2>3. Complete(f) \in Nat /\ Complete(f)' = Complete(f)
    BY <1>4, <2>1, <2>2
  <2>4. Same(f, Complete(f)) /\ f \in Nat
    BY <1>3, <1>4 DEF Same
  <2>5. QED
    BY <2>3, <2>4, SameDrawn
<1>7. EndFrame(t) => DrawnIn(Len(wire) + 1)' = << >>
  <2>1. EndFrame(t) => Complete(Len(wire) + 1)' = 0
    BY <1>2, <1>4, <1>5 DEF CompleteInv
  <2>2. QED
    BY <2>1 DEF DrawnIn
<1> DEFINE last == [drawings |-> DrawnIn(L + 1), persistent |-> cur_trans.persistent]
<1>8. Book' = Append(Book, last)
  <2>1. /\ Book = [f \in 1 .. L |-> [drawings |-> DrawnIn(f), persistent |-> wire[f].persistent]]
        /\ Book' = [f \in 1 .. L + 1 |->
                      [drawings |-> DrawnIn(f)', persistent |-> wire'[f].persistent]]
    BY <1>3 DEF Book
  <2>2. \A f \in 1 .. L :
          Book[f] = [drawings |-> DrawnIn(f), persistent |-> wire[f].persistent]
    BY ONLY <2>1
  <2>3. \A f \in 1 .. L + 1 :
          Book'[f] = [drawings |-> DrawnIn(f)', persistent |-> wire'[f].persistent]
    BY ONLY <2>1
  <2>4. \A f \in 1 .. L : Book'[f] = Book[f]
    <3> TAKE f \in 1 .. L
    <3>1. f \in 1 .. L + 1
      BY <1>3
    <3>2. DrawnIn(f)' = DrawnIn(f) /\ wire'[f] = wire[f]
      BY <1>3, <1>6, <3>1
    <3>3. QED
      BY <2>2, <2>3, <3>1, <3>2
  <2>5. Book'[L + 1] = last
    <3>1. L + 1 \in 1 .. L + 1
      BY <1>3
    <3>2. \A f \in 1 .. L + 1 :
            f = L + 1 => Book'[f] = [drawings |-> DrawnIn(f), persistent |-> cur_trans.persistent]
      BY <1>3, <1>6, <2>3
    <3>3. QED
      BY <3>1, <3>2
  <2>6. Book = [f \in 1 .. L |-> Book[f]] /\ Book' = [f \in 1 .. L + 1 |-> Book'[f]]
    BY ONLY <2>1, <2>2, <2>3
  <2> HIDE DEF last, L
  <2>7. L \in Nat
    BY <1>3
  <2>8. Book' = Append(Book, Book'[L + 1])
    BY <2>4, <2>6, <2>7, AppendByPlaces
  <2>9. QED
    BY <2>5, <2>8
<1>9. EndFrame(t) => cur_trans'.persistent = FALSE
  BY <1>1, TransactionFields
<1>10. QED
  BY <1>7, <1>8, <1>9

\* Only the end of a frame, or of the connection, can close it.
LEMMA OpenStays ==
  ASSUME TypeOK, CallInv, NEW t \in Thread,
         \/ BeginDraw(t) \/ EndDraw(t) \/ BeginMap(t) \/ EndMap(t)
         \/ \E persistent \in BOOLEAN : BeginFrame(t, persistent)
  PROVE  Open' = Open
<1>1. torn' = torn /\ listed' = listed
  BY DEF BeginDraw, EndDraw, BeginMap, EndMap, BeginFrame, connection
<1>2. CASE \E persistent \in BOOLEAN : BeginFrame(t, persistent)
  <2>1. (\E u \in Thread : call'[u] = "sending") <=> listed
    BY <1>2, NoneAssumption DEF BeginFrame, Enter, TypeOK
  <2>2. \A u \in Thread : call[u] # "sending"
    BY <1>2, NoneAssumption DEF BeginFrame, Enter, TypeOK
  <2>3. QED
    BY <1>1, <2>1, <2>2 DEF Open
<1>3. CASE BeginDraw(t) \/ EndDraw(t) \/ BeginMap(t) \/ EndMap(t)
  <2>1. \A u \in Thread : call'[u] = "sending" <=> call[u] = "sending"
    BY <1>3, NoneAssumption
    DEF BeginDraw, EndDraw, BeginMap, EndMap, Enter, Leave, TypeOK
  <2>2. QED
    BY <1>1, <2>1 DEF Open
<1>4. QED
  BY <1>2, <1>3

\* Once the connection is broken no step is seen by the server.
LEMMA LostStep ==
  ASSUME IInv, IInv', [Next]_vars, ~Open
  PROVE  UNCHANGED Promised!sketchVars
<1>1. ~Open'
  BY OpenStep
<1>2. wire' = wire
  <2>1. ASSUME NEW t \in Thread, EndFrame(t) \/ Overrun(t) PROVE wire' = wire
    <3>1. torn
      BY <2>1 DEF EndFrame, Overrun, Open
    <3>2. QED
      BY <2>1, <3>1 DEF EndFrame, Overrun, Sent
  <2>2. QED
    BY <2>1 DEF Next, vars, BeginDraw, EndDraw, BeginMap, EndMap, BeginFrame, SkipFrame,
                FrameThrows, ConnectionLost
<1>3. Book' = Book
  BY <1>2, BookStays DEF IInv
<1>4. Open = FALSE /\ Open' = FALSE
  BY <1>1 DEF Open
<1>5. QED
  BY <1>3, <1>4 DEF Promised!sketchVars, Book

\* Every step of the client is a step of the sketch, or changes none of it.
LEMMA SketchStep == IInv /\ IInv' /\ [Next]_vars => [Promised!Next]_(Promised!sketchVars)
<1> SUFFICES ASSUME IInv, IInv', [Next]_vars
             PROVE  Promised!Next \/ UNCHANGED Promised!sketchVars
  OBVIOUS
<1> SUFFICES ASSUME Open PROVE Promised!Next \/ UNCHANGED Promised!sketchVars
  BY LostStep
<1>1. /\ TypeOK /\ CallInv /\ ItemInv /\ KeptData
      /\ TypeOK' /\ CallInv' /\ ItemInv'
  BY DEF IInv, DataInv
<1>2. Open = TRUE /\ Open' \in BOOLEAN
  BY DEF Open
<1>3. ASSUME Page' = Page, Book' = Book, Flag' = Flag, Open' = Open
      PROVE  UNCHANGED Promised!sketchVars
  BY <1>3 DEF Promised!sketchVars, Page, Book, Flag
<1>4. ASSUME NEW d \in Drawings, Page' = Append(Page, d), Book' = Book, Flag' = Flag,
             Open' = Open
      PROVE  Promised!Next
  <2>1. Promised!Draw(d)
    BY <1>4 DEF Promised!Draw, Page, Book, Flag
  <2>2. QED
    BY <2>1 DEF Promised!Next, Drawings
<1>5. ASSUME NEW t \in Thread, BeginDraw(t) \/ BeginMap(t) PROVE UNCHANGED Promised!sketchVars
  <2>1. Open' = Open
    BY <1>1, <1>5, OpenStays
  <2>2. /\ DrawnIn(Len(wire) + 1)' = DrawnIn(Len(wire) + 1) /\ Book' = Book
        /\ cur_trans'.persistent = cur_trans.persistent
    BY <1>1, <1>5, BeginStutters
  <2>3. QED
    BY <1>3, <2>1, <2>2 DEF Page, Flag
<1>6. Open' => ShownInv'
  <2>1. Open' => KeptData'
    BY DEF IInv, DataInv
  <2>2. QED
    BY <1>1, <2>1, LastShown, PTL
<1>7. ASSUME NEW t \in Thread, EndDraw(t) PROVE Promised!Next
  <2>1. PICK shape \in Shape : cur_trans' = SetMessage(ShapeItem(shape))
    BY <1>7 DEF EndDraw
  <2>2. /\ ShapeItem(shape) \in Item /\ ShapeItem(shape).shape # "map"
        /\ ShapeItem(shape) \in Drawings
    BY Items DEF Drawings
  <2>3. /\ Len(current) \in Nat \ {0} /\ Len(current') = Len(current) /\ wire' = wire
        /\ current' \in Seq(Item) /\ current'[Len(current)] = ShapeItem(shape)
        /\ cur_trans'.persistent = cur_trans.persistent /\ Book' = Book
        /\ DrawnIn(Len(wire) + 1)' =
             Append(DrawnIn(Len(wire) + 1), Shown(Len(wire) + 1, Len(current))')
    BY <1>1, <1>7, <2>1, <2>2, EndDraws
  <2>4. Open' = Open
    BY <1>1, <1>7, OpenStays
  <2>5. Shown(Len(wire) + 1, Len(current))' = ShapeItem(shape)
    BY <1>2, <1>6, <2>2, <2>3, <2>4 DEF ShownInv
  <2>6. Page' = Append(Page, ShapeItem(shape)) /\ Flag' = Flag
    BY <1>2, <2>3, <2>4, <2>5 DEF Page, Flag
  <2>7. QED
    BY <1>4, <2>2, <2>3, <2>4, <2>6
<1>8. ASSUME NEW t \in Thread, EndMap(t) PROVE Promised!Next
  <2>1. PICK data \in Data :
          /\ cur_trans' = SetMessage(MapItem(IF old_data # data THEN data ELSE None))
          /\ old_data' = data
    BY <1>8 DEF EndMap
  <2> DEFINE item == MapItem(IF old_data # data THEN data ELSE None)
  <2>2. /\ item \in Item /\ item.shape = "map" /\ data # None
        /\ MapItem(data) \in Drawings
    BY Items, NoneAssumption DEF Drawings
  <2>3. /\ Len(current) \in Nat \ {0} /\ Len(current') = Len(current) /\ wire' = wire
        /\ current' \in Seq(Item) /\ current'[Len(current)] = item
        /\ cur_trans'.persistent = cur_trans.persistent /\ Book' = Book
        /\ DrawnIn(Len(wire) + 1)' =
             Append(DrawnIn(Len(wire) + 1), Shown(Len(wire) + 1, Len(current))')
    BY <1>1, <1>8, <2>1, <2>2, EndDraws
  <2>4. Open' = Open
    BY <1>1, <1>8, OpenStays
  <2>5. Shown(Len(wire) + 1, Len(current))' = MapItem(data)
    <3>1. /\ current' # << >> /\ current'[Len(current')].shape = "map"
          /\ old_data' # None /\ old_data' = data
      BY <2>1, <2>2, <2>3
    <3>2. QED
      BY <1>2, <1>6, <2>4, <3>1 DEF ShownInv
  <2>6. Page' = Append(Page, MapItem(data)) /\ Flag' = Flag
    BY <1>2, <2>3, <2>4, <2>5 DEF Page, Flag
  <2>7. QED
    BY <1>4, <2>2, <2>3, <2>4, <2>6
<1>9. ASSUME wire' = wire, current' = current,
             \A u \in Thread : ~Adding(u), \A u \in Thread : ~Adding(u)'
      PROVE  DrawnIn(Len(wire) + 1)' = DrawnIn(Len(wire) + 1) /\ Book' = Book
  <2>1. Book' = Book
    BY <1>1, <1>9, BookStays
  <2>2. CompleteInv /\ CompleteInv'
    BY <1>1, CompleteItems, PTL
  <2>3. /\ Complete(Len(wire) + 1) = Len(current)
        /\ Complete(Len(wire) + 1)' = Len(current)
    BY <1>9, <2>2 DEF CompleteInv
  <2>4. \A k \in 1 .. Len(current) : Shown(Len(wire) + 1, k)' = Shown(Len(wire) + 1, k)
    BY <1>1, <1>9, DrawnStays
  <2>5. DrawnIn(Len(wire) + 1)' = DrawnIn(Len(wire) + 1)
    BY <2>3, <2>4 DEF DrawnIn
  <2>6. QED
    BY <2>1, <2>5
<1>10. ASSUME NEW t \in Thread, NEW persistent \in BOOLEAN, BeginFrame(t, persistent)
       PROVE  Promised!Next \/ UNCHANGED Promised!sketchVars
  <2>1. /\ \A u \in Thread : ~Adding(u) /\ ~Adding(u)'
        /\ wire' = wire
    BY <1>1, <1>10, NoneAssumption DEF BeginFrame, Enter, TypeOK, Adding
  <2>2. /\ cur_trans'.persistent = (cur_trans.persistent \/ persistent)
        /\ current' = current
    BY <1>1, <1>10 DEF BeginFrame, TypeOK, Transaction, current
  <2>3. Open' = Open
    BY <1>1, <1>10, OpenStays
  <2>4. Page' = Page /\ Book' = Book
    BY <1>9, <2>1, <2>2, <2>3 DEF Page
  <2>5. Flag' = TRUE \/ Flag' = Flag
    BY <1>1, <1>2, <2>2, <2>3, TransactionFields DEF TypeOK, Flag
  <2>6. CASE Flag' = TRUE
    <3>1. Promised!AskPersistent
      BY <2>3, <2>4, <2>6 DEF Promised!AskPersistent, Page, Book, Flag
    <3>2. QED
      BY <3>1 DEF Promised!Next
  <2>7. QED
    BY <1>3, <2>3, <2>4, <2>5, <2>6
<1>11. ASSUME NEW t \in Thread, EndFrame(t) \/ Overrun(t) PROVE Promised!Next
  <2>1. /\ Book' = Append(Book, [drawings |-> Page, persistent |-> Flag])
        /\ EndFrame(t) => DrawnIn(Len(wire) + 1)' = << >> /\ cur_trans'.persistent = FALSE
    <3>1. /\ Book' = Append(Book, [drawings |-> DrawnIn(Len(wire) + 1),
                                 persistent |-> cur_trans.persistent])
          /\ EndFrame(t) =>
               DrawnIn(Len(wire) + 1)' = << >> /\ cur_trans'.persistent = FALSE
      BY <1>1, <1>11, FrameTurnsOver DEF Open
    <3>2. Page = DrawnIn(Len(wire) + 1) /\ Flag = cur_trans.persistent
      BY <1>1, <1>2, TransactionFields DEF Page, Flag, TypeOK
    <3>3. QED
      BY <3>1, <3>2
  <2>2. Overrun(t) => Open' = FALSE
    <3>1. ASSUME Overrun(t) PROVE ~Open'
      BY <1>1, <3>1 DEF Overrun, Throw, Leave, connection, Open, TypeOK, CallInv
    <3>2. QED
      BY <1>2, <3>1
  <2>3. Page' = << >> /\ Flag' = FALSE
    BY <1>2, <1>11, <2>1, <2>2 DEF Page, Flag
  <2>4. Promised!TurnOver
    BY <1>2, <2>1, <2>3 DEF Promised!TurnOver, Promised!NewPage, Page, Book, Flag
  <2>5. QED
    BY <2>4 DEF Promised!Next
<1>12. ASSUME ~Open', Book' = Book PROVE Promised!Next
  <2>1. Open' = FALSE /\ Page' = << >> /\ Flag' = FALSE
    BY <1>2, <1>12 DEF Page, Flag
  <2>2. Promised!Break
    BY <1>2, <1>12, <2>1 DEF Promised!Break, Promised!NewPage, Page, Book, Flag
  <2>3. QED
    BY <2>2 DEF Promised!Next
<1>13. ASSUME wire' = wire, cur_trans' = cur_trans
       PROVE  Promised!Next \/ UNCHANGED Promised!sketchVars
  <2>1. Book' = Book
    BY <1>1, <1>13, BookStays
  <2>2. DrawnIn(Len(wire) + 1)' = DrawnIn(Len(wire) + 1)
    BY <1>13 DEF DrawnIn, Complete, Shown, BringData, Frames
  <2>3. CASE Open'
    BY <1>2, <1>3, <1>13, <2>1, <2>2, <2>3 DEF Page, Flag
  <2>4. QED
    BY <1>12, <2>1, <2>3
<1>14. ASSUME NEW t \in Thread, FrameThrows(t)
       PROVE  Promised!Next \/ UNCHANGED Promised!sketchVars
  BY <1>13, <1>14 DEF FrameThrows, Unsent
<1>15. ASSUME NEW t \in Thread PROVE ~SkipFrame(t)
  BY DEF SkipFrame, IInv, SkipInv, CallInv, Open
<1>16. CASE ConnectionLost \/ UNCHANGED vars
  BY <1>13, <1>16 DEF ConnectionLost, vars
<1>17. QED
  BY <1>5, <1>7, <1>8, <1>10, <1>11, <1>14, <1>15, <1>16 DEF Next

\* Until the connection breaks every drawing is in exactly one frame, complete and
\* in order, a frame that could not be sent goes with the next one, and a map is
\* shown with its data; after that the server keeps what it has
\* (graphics.cpp:25-110, rpc.cpp:143-166), for any number of threads, items and frames.
THEOREM ImplementsSketchAlways == Spec => ImplementsSketch
<1>1. Init => Promised!Init
  BY SketchInit
<1>2. IInv /\ IInv' /\ [Next]_vars => [Promised!Next]_(Promised!sketchVars)
  BY SketchStep
<1>3. QED
  BY Inductive, <1>1, <1>2, PTL DEF Spec, ImplementsSketch, Promised!Spec
=============================================================================
