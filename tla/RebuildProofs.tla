--------------------------- MODULE RebuildProofs ---------------------------
(***************************************************************************)
(* Theorems about Rebuild, for any files, dependencies and requests.       *)
(***************************************************************************)
EXTENDS Rebuild, SequenceLemmas, WellFoundedInduction, TLAPS

-----------------------------------------------------------------------------
(***************************************************************************)
(* Contents: what FlattenSeq does, by induction.                           *)
(***************************************************************************)
LEMMA Induction ==
  ASSUME NEW S, 0 \in S, \A n \in Nat : n \in S => n + 1 \in S
  PROVE  Nat \subseteq S
<1> DEFINE T == Nat \ S
<1>1. SUFFICES ASSUME T # {} PROVE FALSE
  OBVIOUS
<1>2. \E x \in T : \A y \in T : ~(<<y, x>> \in OpToRel(<, Nat))
  BY <1>1, NatLessThanWellFounded, WFMin
<1>3. PICK x \in T : \A y \in T : ~(y < x)
  BY <1>2 DEF OpToRel
<1>4. x # 0 /\ x - 1 \in Nat /\ x - 1 < x
  OBVIOUS
<1>5. x - 1 \in S
  BY <1>3, <1>4
<1>6. QED
  BY <1>4, <1>5

\* The partial results of FlattenSeq.
Partly(f, W) ==
  \A i \in 1 .. Len(W) : f[i] = IF i = 1 THEN W[i] ELSE f[i - 1] \o W[i]

LEMMA PartlyExists ==
  ASSUME NEW A, NEW W \in Seq(Seq(A))
  PROVE  \E f \in [1 .. Len(W) -> Seq(A)] : Partly(f, W)
<1> DEFINE P(n) == \E f \in [1 .. n -> Seq(A)] :
             \A i \in 1 .. n : f[i] = IF i = 1 THEN W[i] ELSE f[i - 1] \o W[i]
           S == {n \in Nat : n <= Len(W) => P(n)}
<1>1. 0 \in S
  <2>1. [i \in 1 .. 0 |-> << >>] \in [1 .. 0 -> Seq(A)]
    OBVIOUS
  <2>2. \A i \in 1 .. 0 : FALSE
    OBVIOUS
  <2>3. P(0)
    BY <2>1, <2>2
  <2>4. QED
    BY <2>3
<1>2. ASSUME NEW n \in Nat, n \in S, n + 1 <= Len(W) PROVE P(n + 1)
  <2>1. n <= Len(W)
    BY <1>2
  <2>2. PICK f \in [1 .. n -> Seq(A)] :
               \A i \in 1 .. n : f[i] = IF i = 1 THEN W[i] ELSE f[i - 1] \o W[i]
    BY <1>2, <2>1
  <2> DEFINE next == IF n = 0 THEN W[1] ELSE f[n] \o W[n + 1]
             g == [i \in 1 .. n + 1 |-> IF i = n + 1 THEN next ELSE f[i]]
  <2>3. W[n + 1] \in Seq(A) /\ n + 1 \in 1 .. n + 1
    BY <1>2
  <2>4. next \in Seq(A)
    <3>1. CASE n = 0
      BY <2>3, <3>1
    <3>2. CASE n # 0
      <4>1. f[n] \in Seq(A)
        BY <3>2
      <4>2. QED
        BY <2>3, <3>2, <4>1
    <3>3. QED
      BY <3>1, <3>2
  <2>5. g \in [1 .. n + 1 -> Seq(A)]
    <3> HIDE DEF next
    <3>1. \A i \in 1 .. n + 1 : i # n + 1 => i \in 1 .. n
      OBVIOUS
    <3>2. QED
      BY <2>4, <3>1
  <2>6. ASSUME NEW i \in 1 .. n + 1
        PROVE  g[i] = IF i = 1 THEN W[i] ELSE g[i - 1] \o W[i]
    <3>1. CASE i = n + 1
      <4>1. g[i] = next
        BY <3>1
      <4>2. CASE n = 0
        BY <3>1, <4>1, <4>2
      <4>3. CASE n # 0
        <5>1. g[i - 1] = f[n]
          BY <3>1, <4>3
        <5>2. next = f[n] \o W[n + 1]
          BY <4>3
        <5> HIDE DEF g, next
        <5>3. g[i] = g[i - 1] \o W[i]
          BY <3>1, <4>1, <5>1, <5>2
        <5>4. i # 1
          BY <3>1, <4>3
        <5>5. QED
          BY <5>3, <5>4
      <4>4. QED
        BY <4>2, <4>3
    <3>2. CASE i # n + 1
      <4>1. i \in 1 .. n /\ g[i] = f[i]
        BY <3>2
      <4>2. i # 1 => g[i - 1] = f[i - 1]
        BY <4>1
      <4>3. QED
        BY <2>2, <4>1, <4>2
    <3>3. QED
      BY <3>1, <3>2
  <2>7. QED
    <3> HIDE DEF g
    <3>1. QED
      BY <2>5, <2>6
<1>3. Len(W) \in S
  <2> HIDE DEF P
  <2>1. \A n \in Nat : n \in S => n + 1 \in S
    BY <1>2
  <2> HIDE DEF S
  <2>2. Nat \subseteq S
    BY <1>1, <2>1, Induction
  <2>3. QED
    BY <2>2
<1>4. QED
  BY <1>3 DEF Partly

LEMMA PartlyUnique ==
  ASSUME NEW A, NEW W \in Seq(Seq(A)), NEW f, NEW g, Partly(f, W), Partly(g, W)
  PROVE  \A i \in 1 .. Len(W) : f[i] = g[i]
<1> DEFINE S == {n \in Nat : n + 1 <= Len(W) => f[n + 1] = g[n + 1]}
<1>1. 0 \in S
  BY DEF Partly
<1>2. ASSUME NEW n \in Nat, n \in S PROVE n + 1 \in S
  <2>1. SUFFICES ASSUME n + 2 <= Len(W) PROVE f[n + 2] = g[n + 2]
    OBVIOUS
  <2>2. f[n + 1] = g[n + 1]
    BY <1>2, <2>1
  <2>3. n + 2 \in 1 .. Len(W) /\ n + 2 # 1 /\ (n + 2) - 1 = n + 1
    BY <2>1
  <2>4. f[n + 2] = f[n + 1] \o W[n + 2] /\ g[n + 2] = g[n + 1] \o W[n + 2]
    BY <2>3 DEF Partly
  <2>5. QED
    BY <2>2, <2>4
<1>3. Nat \subseteq S
  BY <1>1, <1>2, Induction
<1>4. ASSUME NEW i \in 1 .. Len(W) PROVE f[i] = g[i]
  <2>1. i - 1 \in Nat /\ (i - 1) + 1 = i
    OBVIOUS
  <2>2. i - 1 \in S
    BY <1>3, <2>1
  <2>3. QED
    BY <2>1, <2>2
<1>5. QED
  BY <1>4

LEMMA Flattened ==
  ASSUME NEW A, NEW W \in Seq(Seq(A)), W # << >>
  PROVE  \E f \in [1 .. Len(W) -> Seq(A)] : Partly(f, W) /\ FlattenSeq(W) = f[Len(W)]
<1> DEFINE n == Len(W)
           flatten == CHOOSE f :
             f = [i \in 1 .. n |-> IF i = 1 THEN W[i] ELSE f[i - 1] \o W[i]]
<1>1. n \in Nat \ {0}
  OBVIOUS
<1>2. PICK f \in [1 .. n -> Seq(A)] : Partly(f, W)
  BY PartlyExists
<1>3. f = [i \in 1 .. n |-> IF i = 1 THEN W[i] ELSE f[i - 1] \o W[i]]
  BY <1>2 DEF Partly
<1>4. flatten = [i \in 1 .. n |-> IF i = 1 THEN W[i] ELSE flatten[i - 1] \o W[i]]
  BY <1>3
<1>5. FlattenSeq(W) = flatten[n]
  BY <1>1 DEF FlattenSeq
<1> HIDE DEF flatten
<1>6. Partly(flatten, W)
  BY <1>4 DEF Partly
<1>7. \A i \in 1 .. n : flatten[i] = f[i]
  BY <1>2, <1>6, PartlyUnique
<1>8. FlattenSeq(W) = f[n]
  BY <1>1, <1>5, <1>7
<1>9. QED
  BY <1>2, <1>8
\* A flattened sequence of sequences over A is one over A; its length depends on
\* their lengths alone, and with these it tells them apart.
LEMMA FlattenType ==
  ASSUME NEW A, NEW W \in Seq(Seq(A))
  PROVE  FlattenSeq(W) \in Seq(A)
<1>1. CASE W = << >>
  BY <1>1 DEF FlattenSeq
<1>2. CASE W # << >>
  <2>1. Len(W) \in 1 .. Len(W)
    BY <1>2
  <2>2. PICK f \in [1 .. Len(W) -> Seq(A)] : FlattenSeq(W) = f[Len(W)]
    BY <1>2, Flattened
  <2>3. QED
    BY <2>1, <2>2
<1>3. QED
  BY <1>1, <1>2

Joined(a, b) == a \o b

LEMMA ConcatSame ==
  ASSUME NEW A, NEW a \in Seq(A), NEW b \in Seq(A), NEW c \in Seq(A), NEW d \in Seq(A),
         Len(b) = Len(d)
  PROVE  /\ Len(a) = Len(c) => Len(Joined(a, b)) = Len(Joined(c, d))
         /\ Joined(a, b) = Joined(c, d) /\ Len(a) = Len(c) => a = c /\ b = d
<1>1. /\ a \o b \in Seq(A) /\ c \o d \in Seq(A)
      /\ Len(a \o b) = Len(a) + Len(b) /\ Len(c \o d) = Len(c) + Len(d)
      /\ \A i \in 1 .. Len(a) : (a \o b)[i] = a[i]
      /\ \A i \in 1 .. Len(c) : (c \o d)[i] = c[i]
      /\ \A i \in 1 .. Len(b) : (a \o b)[Len(a) + i] = b[i]
      /\ \A i \in 1 .. Len(d) : (c \o d)[Len(c) + i] = d[i]
  BY ConcatPlaces
<1>2. ASSUME a \o b = c \o d, Len(a) = Len(c) PROVE a = c /\ b = d
  <2>1. \A i \in 1 .. Len(a) : a[i] = c[i]
    BY <1>1, <1>2
  <2>2. \A i \in 1 .. Len(b) : b[i] = d[i]
    BY <1>1, <1>2
  <2>3. a = c
    BY <1>2, <2>1, SeqEqual
  <2>4. b = d
    BY <2>2, SeqEqual
  <2>5. QED
    BY <2>3, <2>4
<1>3. QED
  BY <1>1, <1>2 DEF Joined

LEMMA FlattenSame ==
  ASSUME NEW A, NEW W \in Seq(Seq(A)), NEW V \in Seq(Seq(A)), Len(W) = Len(V),
         \A k \in 1 .. Len(W) : Len(W[k]) = Len(V[k])
  PROVE  /\ Len(FlattenSeq(W)) = Len(FlattenSeq(V))
         /\ FlattenSeq(W) = FlattenSeq(V) => W = V
<1>1. CASE W = << >>
  <2>1. V = << >>
    BY <1>1
  <2>2. QED
    BY <1>1, <2>1
<1>2. CASE W # << >>
  <2>1. V # << >>
    BY <1>2
  <2>2. PICK f \in [1 .. Len(W) -> Seq(A)] : Partly(f, W) /\ FlattenSeq(W) = f[Len(W)]
    BY <1>2, Flattened
  <2>3. PICK g \in [1 .. Len(V) -> Seq(A)] : Partly(g, V) /\ FlattenSeq(V) = g[Len(V)]
    BY <2>1, Flattened
  <2> DEFINE Alike(n) ==
        /\ Len(f[n]) = Len(g[n])
        /\ f[n] = g[n] => \A k \in 1 .. n : W[k] = V[k]
  <2> DEFINE S == {n \in Nat : n + 1 <= Len(W) => Alike(n + 1)}
  <2>4. 0 \in S
    <3>1. 1 \in 1 .. Len(W) /\ 1 \in 1 .. Len(V)
      BY <1>2
    <3>2. f[1] = W[1] /\ g[1] = V[1]
      BY <2>2, <2>3, <3>1 DEF Partly
    <3>3. Alike(1)
      BY <3>1, <3>2
    <3>4. QED
      BY <3>3
  <2>5. ASSUME NEW n \in Nat, n \in S, n + 2 <= Len(W) PROVE Alike(n + 2)
    <3>1. /\ n + 1 \in 1 .. Len(W) /\ n + 2 \in 1 .. Len(W) /\ n + 2 # 1
          /\ (n + 2) - 1 = n + 1
      BY <2>5
    <3>2. Alike(n + 1)
      BY <2>5, <3>1
    <3>3. f[n + 2] = Joined(f[n + 1], W[n + 2]) /\ g[n + 2] = Joined(g[n + 1], V[n + 2])
      BY <2>2, <2>3, <3>1 DEF Partly, Joined
    <3>4. /\ f[n + 1] \in Seq(A) /\ g[n + 1] \in Seq(A)
          /\ W[n + 2] \in Seq(A) /\ V[n + 2] \in Seq(A)
          /\ Len(W[n + 2]) = Len(V[n + 2])
      <4>1. n + 1 \in 1 .. Len(V) /\ n + 2 \in 1 .. Len(V)
        BY <3>1
      <4>2. W[n + 2] \in Seq(A) /\ V[n + 2] \in Seq(A)
        BY <3>1, <4>1
      <4>3. QED
        BY <3>1, <4>1, <4>2
    <3>5. PICK a \in Seq(A), b \in Seq(A), c \in Seq(A), d \in Seq(A) :
            /\ a = f[n + 1] /\ b = W[n + 2] /\ c = g[n + 1] /\ d = V[n + 2]
            /\ Len(b) = Len(d) /\ Len(a) = Len(c)
      BY <3>2, <3>4
    <3>6. /\ Len(f[n + 2]) = Len(g[n + 2])
          /\ f[n + 2] = g[n + 2] => f[n + 1] = g[n + 1] /\ W[n + 2] = V[n + 2]
      <4>1. Len(b) = Len(d) /\ Len(a) = Len(c)
        BY <3>5
      <4>2. /\ Len(Joined(a, b)) = Len(Joined(c, d))
            /\ Joined(a, b) = Joined(c, d) => a = c /\ b = d
        BY ONLY <4>1, ConcatSame, a \in Seq(A), b \in Seq(A), c \in Seq(A), d \in Seq(A)
      <4>3. QED
        BY <3>3, <3>5, <4>2
    <3>7. ASSUME f[n + 2] = g[n + 2], NEW k \in 1 .. n + 2 PROVE W[k] = V[k]
      <4>1. k \in 1 .. n + 1 \/ k = n + 2
        OBVIOUS
      <4>2. QED
        BY <3>2, <3>6, <3>7, <4>1
    <3>8. QED
      BY <3>6, <3>7
  <2>6. Len(W) - 1 \in S
    <3> HIDE DEF Alike
    <3>1. ASSUME NEW n \in Nat, n \in S PROVE n + 1 \in S
      <4>1. (n + 1) + 1 = n + 2
        OBVIOUS
      <4>2. QED
        BY <2>5, <3>1, <4>1
    <3>2. Len(W) - 1 \in Nat
      BY <1>2
    <3> HIDE DEF S
    <3>3. QED
      BY <2>4, <3>1, <3>2, Induction
  <2>7. Alike(Len(W))
    <3> HIDE DEF Alike
    <3>1. Len(W) - 1 \in Nat /\ (Len(W) - 1) + 1 = Len(W)
      BY <1>2
    <3>2. QED
      BY <2>6, <3>1
  <2>8. (\A k \in 1 .. Len(W) : W[k] = V[k]) => W = V
    BY SeqEqual
  <2>9. QED
    BY <2>2, <2>3, <2>7, <2>8
<1>3. QED
  BY <1>1, <1>2

-----------------------------------------------------------------------------
(***************************************************************************)
(* The targets made of contents.                                           *)
(***************************************************************************)
Make(c, W) == <<c>> \o FlattenSeq(W)

\* What a target may be made of.
Ws(t) == {W \in Seq(Seq(Nat)) : Len(W) = Len(Deps[t])}

LEMMA MakeType ==
  ASSUME NEW c \in Nat, NEW W \in Seq(Seq(Nat))
  PROVE  /\ Make(c, W) \in Seq(Nat) /\ Make(c, W) # << >>
         /\ Make(c, W) = <<0>> => c = 0
<1> DEFINE F == FlattenSeq(W)
<1>1. F \in Seq(Nat)
  BY FlattenType
<1>2. <<c>> \in Seq(Nat) /\ Len(<<c>>) = 1 /\ <<c>>[1] = c
  OBVIOUS
<1> HIDE DEF F
<1>3. /\ <<c>> \o F \in Seq(Nat) /\ Len(<<c>> \o F) = 1 + Len(F)
      /\ (<<c>> \o F)[1] = c
  BY <1>1, <1>2, ConcatPlaces
<1>4. Len(F) \in Nat
  BY <1>1
<1>5. <<c>> \o F # << >>
  BY <1>3, <1>4
<1> DEFINE X == <<c>> \o F
<1>6. X[1] = c
  BY <1>3
<1> HIDE DEF X
<1>7. X = <<0>> => c = 0
  <2>1. <<0>>[1] = 0
    OBVIOUS
  <2>2. QED
    BY <1>6, <2>1
<1>8. QED
  BY <1>3, <1>5, <1>7 DEF Make, F, X

LEMMA MakeSame ==
  ASSUME NEW c \in Nat, NEW d \in Nat, NEW W \in Seq(Seq(Nat)), NEW V \in Seq(Seq(Nat)),
         Len(W) = Len(V), \A k \in 1 .. Len(W) : Len(W[k]) = Len(V[k])
  PROVE  /\ Len(Make(c, W)) = Len(Make(d, V))
         /\ Make(c, W) = Make(d, V) => c = d /\ W = V
<1> DEFINE F == FlattenSeq(W)
           G == FlattenSeq(V)
<1>1. F \in Seq(Nat) /\ G \in Seq(Nat)
  BY FlattenType
<1>2. Len(F) = Len(G) /\ (F = G => W = V)
  BY FlattenSame
<1>3. /\ <<c>> \in Seq(Nat) /\ <<d>> \in Seq(Nat) /\ Len(<<c>>) = Len(<<d>>)
      /\ <<c>> = <<d>> => c = d
  OBVIOUS
<1>4. Make(c, W) = Joined(<<c>>, F) /\ Make(d, V) = Joined(<<d>>, G)
  BY DEF Make, Joined
<1> HIDE DEF F, G
<1>5. PICK a \in Seq(Nat), b \in Seq(Nat) : a = <<c>> /\ b = <<d>> /\ Len(a) = Len(b)
  BY <1>3
<1>6. Len(a) = Len(b)
  BY <1>5
<1>7. /\ Len(Joined(a, F)) = Len(Joined(b, G))
      /\ Joined(a, F) = Joined(b, G) => a = b /\ F = G
  BY ONLY <1>1, <1>2, <1>6, ConcatSame, a \in Seq(Nat), b \in Seq(Nat)
<1>8. QED
  BY <1>2, <1>3, <1>4, <1>5, <1>7

\* The contents of the children of a target, in order.
Parts(t) == [k \in DOMAIN Deps[t] |-> content[Deps[t][k]]]

-----------------------------------------------------------------------------
(***************************************************************************)
(* The inductive invariant, for any settings.                              *)
(***************************************************************************)
\* What a build has still to handle, once and children first.
Queue(nodes, handled, written) ==
  /\ IsInjective(nodes)
  /\ \A k \in 1 .. Len(nodes) :
       /\ nodes[k] \notin handled
       /\ nodes[k] \in Target =>
            /\ written[nodes[k]] < MaxWrites
            /\ \A c \in ToSet(Deps[nodes[k]]) :
                 c \in handled \/ \E j \in 1 .. k - 1 : nodes[j] = c

\* to_be_merged are the nodes a build has handled.
BuildInv ==
  /\ Queue(todo, to_be_merged, mtime)
  /\ phase = "executing" => todo # << >> /\ Head(todo) \in Target
  /\ phase = "idle" => to_be_merged = {}
  /\ \A t \in to_be_merged \cap Target : ToSet(Deps[t]) \subseteq to_be_merged
  /\ phase \in {"taskmaster", "executing"} => requested \subseteq to_be_merged \cup ToSet(todo)
  /\ phase \in {"writing", "renaming"} /\ status = "ok" => requested \subseteq to_be_merged
  /\ \A t \in requested : ToSet(Deps[t]) \cap Target \subseteq requested
  /\ \A n \in Node \ to_be_merged : ninfo[n] = NoInfo

\* Sources are there, and their contents are recorded; what is there was written.
FileInv ==
  /\ \A s \in Source :
       /\ 1 <= mtime[s] /\ mtime[s] <= 1 + edits
       /\ had[s] \subseteq 1 .. MaxContent
       /\ \E v \in had[s] : content[s] = <<v>>
  /\ \A t \in Target : mtime[t] <= MaxWrites /\ (content[t] # << >> => 1 <= mtime[t])
  /\ command \in had["command"] /\ had["command"] \subseteq {1, 2}
  /\ \A t \in Target : db[t].bactsig \in had["command"] \cup {0}

Base == TypeOK /\ BuildInv /\ FileInv

LEMMA Files ==
  /\ Node = File /\ Source \subseteq Node /\ Target \subseteq Node
  /\ \A n \in Node : n \in Source <=> n \notin Target
  /\ \A t \in Target : /\ Deps[t] \in Seq(Node) /\ DOMAIN Deps[t] = 1 .. Len(Deps[t])
                       /\ ToSet(Deps[t]) \subseteq Node
                       /\ \A k \in DOMAIN Deps[t] : Deps[t][k] \in ToSet(Deps[t])
<1>1. ASSUME NEW t \in Target
      PROVE  /\ Deps[t] \in Seq(Node) /\ DOMAIN Deps[t] = 1 .. Len(Deps[t])
             /\ ToSet(Deps[t]) \subseteq Node
             /\ \A k \in DOMAIN Deps[t] : Deps[t][k] \in ToSet(Deps[t])
  <2>1. Deps[t] \in Seq(Node)
    BY GraphAssumption
  <2>2. QED
    BY <2>1, Membership DEF ToSet
<1>2. QED
  BY <1>1, GraphAssumption DEF Node, File

LEMMA QueueHead ==
  ASSUME NEW q \in Seq(Node), q # << >>, NEW done, NEW m, Queue(q, done, m)
  PROVE  /\ Head(q) \in Node /\ Head(q) \in ToSet(q) /\ Head(q) \notin done
         /\ Head(q) \in Target => /\ m[Head(q)] < MaxWrites
                                 /\ ToSet(Deps[Head(q)]) \subseteq done
                                 /\ Head(q) \notin ToSet(Deps[Head(q)])
<1>1. Head(q) = q[1] /\ 1 \in 1 .. Len(q) /\ Head(q) \in Node /\ Head(q) \in ToSet(q)
  BY TailElements
<1>2. ~\E j \in 1 .. 1 - 1 : TRUE
  OBVIOUS
<1>3. QED
  BY <1>1, <1>2 DEF Queue

LEMMA QueueTail ==
  ASSUME NEW q \in Seq(Node), q # << >>, NEW done, NEW m, NEW new, Queue(q, done, m),
         \A n \in Target : n # Head(q) => new[n] = m[n]
  PROVE  Queue(Tail(q), done \cup {Head(q)}, new)
<1> DEFINE r == Tail(q)
<1>1. /\ r \in Seq(Node) /\ Len(r) = Len(q) - 1 /\ Len(q) \in Nat
      /\ IsInjective(r) /\ ToSet(r) = ToSet(q) \ {Head(q)}
  BY TailElements DEF Queue
<1>2. \A k \in 1 .. Len(r) : r[k] = q[k + 1] /\ k + 1 \in 1 .. Len(q)
  BY <1>1
<1>3. Head(q) = q[1]
  OBVIOUS
<1> HIDE DEF r
<1>4. ASSUME NEW k \in 1 .. Len(r) PROVE r[k] # Head(q)
  BY <1>1, Membership
<1>5. ASSUME NEW k \in 1 .. Len(r), r[k] \in Target, NEW c \in ToSet(Deps[r[k]])
      PROVE  c \in done \cup {Head(q)} \/ \E j \in 1 .. k - 1 : r[j] = c
  <2>1. c \in done \/ \E j \in 1 .. k : q[j] = c
    BY <1>2, <1>5 DEF Queue
  <2>2. ASSUME NEW j \in 1 .. k, q[j] = c, j # 1 PROVE \E i \in 1 .. k - 1 : r[i] = c
    <3>1. j - 1 \in 1 .. k - 1 /\ j - 1 \in 1 .. Len(r) /\ (j - 1) + 1 = j
      BY <1>1, <2>2
    <3>2. r[j - 1] = c
      BY <1>2, <2>2, <3>1
    <3>3. QED
      BY <3>1, <3>2
  <2>3. QED
    BY <1>3, <2>1, <2>2
<1>6. ASSUME NEW k \in 1 .. Len(r)
      PROVE  /\ r[k] \notin done \cup {Head(q)}
             /\ r[k] \in Target => new[r[k]] < MaxWrites
  BY <1>2, <1>4 DEF Queue
<1>7. QED
  BY <1>1, <1>5, <1>6 DEF Queue, r

LEMMA FunctionSeq ==
  ASSUME NEW S, NEW n \in Nat, NEW f \in [1 .. n -> S]
  PROVE  f \in Seq(S) /\ Len(f) = n
OBVIOUS

\* What a target is made into, when its children are there.
LEMMA MadeIs ==
  ASSUME Base, NEW t \in Target
  PROVE  /\ Parts(t) \in Ws(t) /\ \A k \in DOMAIN Deps[t] : Parts(t)[k] = content[Deps[t][k]]
         /\ Made(t) = Make(command, Parts(t))
         /\ Made(t) \in Seq(Nat) /\ Made(t) # << >> /\ Made(t) # <<0>>
<1>1. /\ Deps[t] \in Seq(Node) /\ DOMAIN Deps[t] = 1 .. Len(Deps[t]) /\ Node = File
      /\ content \in [File -> Seq(Nat)] /\ command \in {1, 2}
  BY Files DEF Base, TypeOK
<1>2. Parts(t) \in [1 .. Len(Deps[t]) -> Seq(Nat)]
  BY <1>1 DEF Parts
<1>3. Parts(t) \in Seq(Seq(Nat)) /\ Len(Parts(t)) = Len(Deps[t])
  <2>1. Len(Deps[t]) \in Nat
    BY <1>1
  <2>2. QED
    BY <1>2, <2>1, FunctionSeq
<1>4. Made(t) = Make(command, Parts(t))
  BY DEF Made, Make, Parts
<1>5. Parts(t) \in Ws(t) /\ \A k \in DOMAIN Deps[t] : Parts(t)[k] = content[Deps[t][k]]
  BY <1>3 DEF Parts, Ws
<1>6. /\ Make(command, Parts(t)) \in Seq(Nat) /\ Make(command, Parts(t)) # << >>
      /\ Make(command, Parts(t)) # <<0>>
  <2>1. command \in Nat /\ command # 0
    BY <1>1
  <2>2. QED
    BY <1>3, <2>1, MakeType
<1>7. QED
  BY <1>4, <1>5, <1>6

-----------------------------------------------------------------------------
(***************************************************************************)
(* What looking at the children of a target does to the information.       *)
(***************************************************************************)
LEMMA InfoFields ==
  /\ \A i \in Infos : i.csig \in Seq(Nat) /\ i.timestamp \in Times
  /\ \A c \in Seq(Nat), w \in Times : [csig |-> c, timestamp |-> w] \in Infos
  /\ NoInfo \in Infos /\ NoInfo.csig = << >> /\ NoInfo.timestamp = 0
  /\ \A e \in Entries : /\ e.ninfo \in Infos /\ e.sigs \in Seq(Infos) /\ e.bactsig \in 0 .. 2
  /\ NoEntry \in Entries /\ NoEntry.sigs = << >> /\ NoEntry.bactsig = 0
  /\ NoEntry.ninfo = NoInfo
<1>1. 0 \in Times /\ << >> \in Seq(Nat) /\ << >> \in Seq(Infos) /\ 0 \in 0 .. 2
  BY SettingsAssumption DEF Times
<1>2. NoInfo \in Infos
  BY <1>1 DEF NoInfo, Infos
<1>3. NoEntry \in Entries
  BY <1>1, <1>2 DEF NoEntry, Entries
<1>4. QED
  BY <1>1, <1>2, <1>3 DEF Infos, Entries, NoInfo, NoEntry

LEMMA Signatures ==
  ASSUME TypeOK, NEW n \in Node
  PROVE  /\ MaxDriftCsig(n) \in Seq(Nat) /\ GetCsig(n) \in Seq(Nat)
         /\ Visited(n, ninfo[n]) \in Infos /\ Visited(n, ninfo[n]).timestamp = mtime[n]
         /\ Visited(n, ninfo[n]).csig \in {MaxDriftCsig(n), ninfo[n].csig}
<1>1. /\ db[n].ninfo.csig \in Seq(Nat) /\ ninfo[n].csig \in Seq(Nat) /\ content[n] \in Seq(Nat)
      /\ mtime[n] \in Times
  BY InfoFields DEF TypeOK, Node
<1>2. MaxDriftCsig(n) \in Seq(Nat)
  <2>1. << >> \in Seq(Nat)
    OBVIOUS
  <2>2. QED
    BY <1>1, <2>1 DEF MaxDriftCsig
<1>3. GetCsig(n) \in Seq(Nat)
  BY <1>1, <1>2 DEF GetCsig
<1>4. Visited(n, ninfo[n]) \in Infos
  BY <1>1, <1>2, InfoFields DEF Visited
<1>5. QED
  BY <1>2, <1>3, <1>4 DEF Visited

LEMMA Previous ==
  ASSUME TypeOK, NEW t \in Target, NEW k \in DOMAIN Deps[t]
  PROVE  /\ Prev(t, k) \in Infos
         /\ k \in DOMAIN db[t].sigs => Prev(t, k) = db[t].sigs[k]
         /\ k \notin DOMAIN db[t].sigs => Prev(t, k) = NoInfo
<1>1. db[t].sigs \in Seq(Infos)
  BY InfoFields, Files DEF TypeOK
<1>2. k \in DOMAIN db[t].sigs => db[t].sigs[k] \in Infos
  BY <1>1
<1>3. QED
  BY <1>2, InfoFields DEF Prev

\* The children of t may have another signature then, and nothing else changes.
LEMMA LookEffect ==
  ASSUME TypeOK, NEW t \in Target
  PROVE  /\ AfterChanged(t) \in [Node -> Infos]
         /\ \A n \in Node :
              /\ AfterChanged(t)[n].timestamp = ninfo[n].timestamp
              /\ n \notin ToSet(Deps[t]) => AfterChanged(t)[n] = ninfo[n]
         /\ \A c \in ToSet(Deps[t]) : \E k \in DOMAIN Deps[t] :
              Deps[t][k] = c /\ AfterChanged(t)[c].csig = CsigAfter(c, Prev(t, k))
<1> DEFINE new == AfterChanged(t)
           At(n) == CHOOSE k \in Looked(t) : Deps[t][k] = n
<1>1. ninfo \in [Node -> Infos]
  BY DEF TypeOK
<1>2. ASSUME NEW n \in Node, n \notin ToSet(Deps[t])
      PROVE  new[n] = ninfo[n]
  <2>1. ~\E k \in Looked(t) : Deps[t][k] = n
    BY <1>2, Files DEF Looked
  <2>2. QED
    BY <2>1 DEF AfterChanged
<1>3. ASSUME NEW n \in Node, n \in ToSet(Deps[t])
      PROVE  /\ At(n) \in DOMAIN Deps[t] /\ Deps[t][At(n)] = n
             /\ new[n] = [ninfo[n] EXCEPT !.csig = CsigAfter(n, Prev(t, At(n)))]
  <2>1. \E k \in Looked(t) : Deps[t][k] = n
    BY <1>3, Files DEF Looked, ToSet
  <2>2. At(n) \in DOMAIN Deps[t] /\ Deps[t][At(n)] = n
    BY <2>1 DEF Looked
  <2>3. QED
    BY <2>1, <2>2 DEF AfterChanged
<1>4. ASSUME NEW n \in Node, n \in ToSet(Deps[t])
      PROVE  /\ new[n].csig = CsigAfter(n, Prev(t, At(n)))
             /\ new[n].timestamp = ninfo[n].timestamp
             /\ new[n] \in Infos
  <2>1. Prev(t, At(n)) \in Infos
    BY <1>3, <1>4, Previous
  <2> DEFINE after == CsigAfter(n, Prev(t, At(n)))
  <2>2. after \in Seq(Nat)
    <3>1. /\ Prev(t, At(n)).csig \in Seq(Nat) /\ ninfo[n].csig \in Seq(Nat)
          /\ GetCsig(n) \in Seq(Nat)
      BY <1>1, <2>1, InfoFields, Signatures
    <3> DEFINE prev == Prev(t, At(n))
    <3>2. prev.csig \in Seq(Nat)
      BY <3>1
    <3> HIDE DEF prev
    <3>3. CsigAfter(n, prev) \in Seq(Nat)
      BY <3>1, <3>2 DEF CsigAfter
    <3>4. QED
      BY <3>3 DEF prev
  <2> HIDE DEF after
  <2>3. new[n] = [ninfo[n] EXCEPT !.csig = after]
    BY <1>3, <1>4 DEF after
  <2>4. ninfo[n] \in Infos
    BY <1>1
  <2>5. new[n].csig = after /\ new[n].timestamp = ninfo[n].timestamp /\ new[n] \in Infos
    BY <2>2, <2>3, <2>4 DEF Infos
  <2>6. QED
    BY <2>5 DEF after
<1>5. new \in [Node -> Infos]
  <2>1. \A n \in Node : new[n] \in Infos
    BY <1>1, <1>2, <1>4
  <2>2. QED
    BY <2>1 DEF AfterChanged
<1>6. \A c \in ToSet(Deps[t]) : c \in Node
  BY Files
<1>7. QED
  BY <1>2, <1>3, <1>4, <1>5, <1>6

-----------------------------------------------------------------------------
(***************************************************************************)
(* Base is inductive.                                                      *)
(***************************************************************************)
LEMMA BaseInit == Init => Base
<1> SUFFICES ASSUME Init PROVE Base
  OBVIOUS
<1>1. 0 \in Times /\ 1 \in Times /\ 1 \in 1 .. MaxContent /\ MaxEdits \in Nat
  BY SettingsAssumption DEF Times
<1>2. TypeOK
  <2>1. content \in [File -> Seq(Nat)] /\ mtime \in [File -> Times]
    <3>1. <<1>> \in Seq(Nat) /\ << >> \in Seq(Nat)
      OBVIOUS
    <3>2. QED
      BY <1>1, <3>1 DEF Init
  <2>2. db \in [Node -> Entries] /\ ninfo \in [Node -> Infos]
    BY InfoFields DEF Init, NoEntries
  <2>3. \A t \in Target : Len(db[t].sigs) \in {0, Len(Deps[t])}
    <3>1. \A t \in Target : db[t].sigs = << >>
      BY InfoFields, Files DEF Init, NoEntries
    <3>2. QED
      BY <3>1
  <2>4. had \in [Source \cup {"command"} -> SUBSET (1 .. MaxContent \cup {1, 2})]
    BY <1>1 DEF Init
  <2>5. todo \in Seq(Node)
    BY DEF Init
  <2>6. edits \in 0 .. MaxEdits
    BY <1>1 DEF Init
  <2>7. QED
    BY <2>1, <2>2, <2>3, <2>4, <2>5, <2>6 DEF Init, TypeOK
<1>3. BuildInv
  <2>1. Queue(<< >>, to_be_merged, mtime)
    BY DEF Queue, IsInjective
  <2>2. QED
    BY <2>1 DEF Init, BuildInv
<1>4. FileInv
  <2>1. ASSUME NEW x \in Source \cup {"command"} PROVE had[x] = {1}
    BY DEF Init
  <2>2. ASSUME NEW s \in Source
        PROVE  /\ 1 <= mtime[s] /\ mtime[s] <= 1 + edits
               /\ had[s] \subseteq 1 .. MaxContent
               /\ \E v \in had[s] : content[s] = <<v>>
    <3>1. s \in File /\ mtime[s] = 1 /\ content[s] = <<1>> /\ edits = 0
      BY DEF Init, File
    <3>2. QED
      BY <1>1, <2>1, <3>1
  <2>3. ASSUME NEW t \in Target
        PROVE  /\ mtime[t] <= MaxWrites /\ (content[t] # << >> => 1 <= mtime[t])
               /\ db[t].bactsig \in had["command"] \cup {0}
    <3>1. t \in File /\ mtime[t] = 0 /\ content[t] = << >> /\ db[t].bactsig = 0
      BY Files, InfoFields DEF Init, File, NoEntries
    <3>2. QED
      BY <3>1, SettingsAssumption
  <2>4. command \in had["command"] /\ had["command"] \subseteq {1, 2}
    BY <2>1 DEF Init
  <2>5. QED
    BY <2>2, <2>3, <2>4 DEF FileInv
<1>5. QED
  BY <1>2, <1>3, <1>4 DEF Base

LEMMA BaseEdit ==
  ASSUME Base, NEW s \in Source, NEW value \in 1 .. MaxContent, Edit(s, value)
  PROVE  Base'
<1> USE DEF Base
<1>1. /\ edits' = edits + 1 /\ edits < MaxEdits /\ edits \in 0 .. MaxEdits
      /\ s \in File /\ s \notin Target
      /\ mtime[s] \in Times /\ mtime[s] <= 1 + edits /\ 1 <= mtime[s]
      /\ MaxWrites \in Nat \ {0} /\ MaxEdits \in Nat
  BY Files, SettingsAssumption DEF Edit, TypeOK, FileInv, File
<1>2. mtime[s] + 1 \in Times
  BY <1>1 DEF Times
<1>3. <<value>> \in Seq(Nat)
  OBVIOUS
<1>4. content' \in [File -> Seq(Nat)] /\ mtime' \in [File -> Times] /\ aged' \subseteq File
  BY <1>2, <1>3 DEF Edit, TypeOK
<1>5. /\ content'[s] = <<value>> /\ mtime'[s] = mtime[s] + 1
      /\ \A f \in File : f # s => content'[f] = content[f] /\ mtime'[f] = mtime[f]
  BY <1>1 DEF Edit, TypeOK
<1>6. /\ had' \in [Source \cup {"command"} -> SUBSET (1 .. MaxContent \cup {1, 2})]
      /\ \A x \in Source \cup {"command"} : x # s => had'[x] = had[x]
      /\ had'[s] \subseteq had[s] \cup {value}
      /\ value \in had'[s]
      /\ reverted' \in BOOLEAN /\ edited' = TRUE /\ settled' = {}
  <2>1. CASE content[s] = <<value>>
    <3>1. had' = had /\ reverted' = reverted /\ edited' = TRUE /\ settled' = {}
      BY <2>1 DEF Edit, history
    <3>2. PICK v \in had[s] : content[s] = <<v>>
      BY DEF FileInv
    <3>3. v = value
      BY <2>1, <3>2
    <3>4. QED
      BY <3>1, <3>2, <3>3 DEF TypeOK
  <2>2. CASE content[s] # <<value>>
    <3>1. /\ had' = [had EXCEPT ![s] = @ \cup {value}]
          /\ reverted' = (reverted \/ value \in had[s]) /\ edited' = TRUE /\ settled' = {}
      BY <2>2 DEF Edit, Given
    <3>2. had[s] \cup {value} \in SUBSET (1 .. MaxContent \cup {1, 2})
      BY DEF TypeOK
    <3>3. QED
      BY <3>1, <3>2 DEF TypeOK
  <2>3. QED
    BY <2>1, <2>2
<1>7. /\ UNCHANGED <<setting, command, db, phase, todo, status, ninfo, to_be_merged,
                     requested, recorded>>
  BY DEF Edit, build
<1>8. TypeOK'
  BY <1>1, <1>4, <1>6, <1>7 DEF TypeOK
<1>9. BuildInv'
  <2>1. \A n \in Target : mtime'[n] = mtime[n]
    BY <1>1, <1>5 DEF File
  <2>2. Queue(todo, to_be_merged, mtime')
    BY <2>1 DEF BuildInv, Queue
  <2>3. QED
    BY <1>7, <2>2 DEF BuildInv
<1>10. FileInv'
  <2>1. ASSUME NEW r \in Source
        PROVE  /\ 1 <= mtime'[r] /\ mtime'[r] <= 1 + edits'
               /\ had'[r] \subseteq 1 .. MaxContent
               /\ \E v \in had'[r] : content'[r] = <<v>>
    <3>1. CASE r = s
      <4>1. 1 <= mtime[s] + 1 /\ mtime[s] + 1 <= 1 + (edits + 1)
        BY <1>1 DEF Times
      <4>2. had'[s] \subseteq 1 .. MaxContent
        BY <1>6 DEF FileInv
      <4>3. \E v \in had'[s] : content'[s] = <<v>>
        BY <1>5, <1>6
      <4>4. QED
        BY <1>1, <1>5, <3>1, <4>1, <4>2, <4>3
    <3>2. CASE r # s
      <4>1. r \in File /\ mtime[r] \in Times /\ mtime'[r] = mtime[r] /\ content'[r] = content[r]
            /\ had'[r] = had[r] /\ mtime[r] <= 1 + edits
        BY <1>5, <1>6, <3>2 DEF File, TypeOK, FileInv
      <4>2. mtime[r] <= 1 + (edits + 1)
        BY <1>1, <4>1 DEF Times
      <4>3. QED
        BY <1>1, <4>1, <4>2 DEF FileInv
    <3>3. QED
      BY <3>1, <3>2
  <2>2. \A t \in Target : mtime'[t] = mtime[t] /\ content'[t] = content[t]
    BY <1>1, <1>5 DEF File
  <2>3. had'["command"] = had["command"]
    BY <1>6, GraphAssumption
  <2>4. QED
    BY <1>7, <2>1, <2>2, <2>3 DEF FileInv
<1>11. QED
  BY <1>8, <1>9, <1>10

LEMMA BaseCommand ==
  ASSUME Base, EditCommand
  PROVE  Base'
<1> USE DEF Base
<1>1. /\ command' \in {1, 2} /\ edits' = edits + 1 /\ edits < MaxEdits /\ edits \in 0 .. MaxEdits
      /\ MaxEdits \in Nat
  BY SettingsAssumption DEF EditCommand, TypeOK
<1>2. /\ had' = [had EXCEPT !["command"] = @ \cup {command'}]
      /\ reverted' = (reverted \/ command' \in had["command"]) /\ edited' = TRUE /\ settled' = {}
      /\ UNCHANGED <<setting, content, mtime, aged, db, phase, todo, status, ninfo,
                     to_be_merged, requested, recorded>>
  BY DEF EditCommand, Given, build
<1>3. /\ had' \in [Source \cup {"command"} -> SUBSET (1 .. MaxContent \cup {1, 2})]
      /\ \A s \in Source : had'[s] = had[s]
      /\ had'["command"] = had["command"] \cup {command'}
  BY <1>1, <1>2, GraphAssumption DEF TypeOK
<1>4. TypeOK'
  BY <1>1, <1>2, <1>3 DEF TypeOK
<1>5. BuildInv'
  BY <1>2 DEF BuildInv
<1>6. FileInv'
  <2>1. ASSUME NEW s \in Source PROVE mtime[s] <= 1 + edits'
    <3>1. mtime[s] \in Times /\ mtime[s] <= 1 + edits
      BY DEF TypeOK, File, FileInv
    <3>2. QED
      BY <1>1, <3>1 DEF Times
  <2>2. QED
    BY <1>1, <1>2, <1>3, <2>1 DEF FileInv
<1>7. QED
  BY <1>4, <1>5, <1>6

LEMMA BaseAge ==
  ASSUME Base, Age
  PROVE  Base'
<1>1. UNCHANGED <<setting, command, content, mtime, db, build, observers>> /\ aged' = File
  BY DEF Age
<1>2. TypeOK'
  BY <1>1 DEF Base, TypeOK, build, observers, history
<1>3. BuildInv' /\ FileInv'
  BY <1>1 DEF Base, BuildInv, FileInv, build, observers, history
<1>4. QED
  BY <1>2, <1>3 DEF Base

LEMMA BaseStart ==
  ASSUME Base, NEW request \in Requests, Start(request)
  PROVE  Base'
<1>1. /\ phase' = "taskmaster" /\ todo' = request /\ to_be_merged' = {}
      /\ ninfo' = [n \in Node |-> NoInfo]
      /\ requested' = ToSet(request) \cap Target /\ edited' = FALSE
      /\ UNCHANGED <<setting, command, content, mtime, aged, db, status, edits, had, reverted,
                     recorded, settled>>
  BY DEF Start, world, history
<1>2. /\ request \in Seq(Node) /\ IsInjective(request) /\ DOMAIN request = 1 .. Len(request)
      /\ \A k \in DOMAIN request :
           request[k] \in Target =>
             \A c \in ToSet(Deps[request[k]]) : \E j \in 1 .. k - 1 : request[j] = c
  BY GraphAssumption
<1>3. TypeOK'
  BY <1>1, <1>2, InfoFields DEF Base, TypeOK
<1>4. Queue(request, {}, mtime)
  <2>1. \A t \in Target : mtime[t] < MaxWrites
    BY DEF Start
  <2>2. QED
    BY <1>2, <2>1 DEF Queue
<1>5. ASSUME NEW t \in ToSet(request) \cap Target
      PROVE  ToSet(Deps[t]) \subseteq ToSet(request)
  <2>1. PICK k \in DOMAIN request : request[k] = t
    BY <1>2 DEF ToSet
  <2>2. ASSUME NEW c \in ToSet(Deps[t]) PROVE c \in ToSet(request)
    <3>1. PICK j \in 1 .. k - 1 : request[j] = c
      BY <1>2, <2>1
    <3>2. Len(request) \in Nat /\ j \in DOMAIN request
      BY <1>2, <2>1
    <3>3. QED
      BY <3>1, <3>2 DEF ToSet
  <2>3. QED
    BY <2>2
<1>6. BuildInv'
  BY <1>1, <1>4, <1>5 DEF BuildInv
<1>7. FileInv'
  BY <1>1 DEF Base, FileInv
<1>8. QED
  BY <1>3, <1>6, <1>7 DEF Base

\* A node is handled: information about it will be stored.
LEMMA Handled ==
  ASSUME Base, todo # << >>, phase' = "taskmaster",
         todo' = Tail(todo), to_be_merged' = to_be_merged \cup {Head(todo)},
         \A n \in Target : n # Head(todo) => mtime'[n] = mtime[n],
         phase \in {"taskmaster", "executing"},
         UNCHANGED <<requested, status>>,
         \A n \in Node : n # Head(todo) /\ ~(Head(todo) \in Target /\ n \in ToSet(Deps[Head(todo)]))
           => ninfo'[n] = ninfo[n]
  PROVE  /\ todo' \in Seq(Node) /\ to_be_merged' \subseteq Node
         /\ BuildInv'
<1> DEFINE h == Head(todo)
<1>1. todo \in Seq(Node) /\ to_be_merged \subseteq Node /\ Queue(todo, to_be_merged, mtime)
  BY DEF Base, TypeOK, BuildInv
<1>2. /\ h \in Node /\ h \in ToSet(todo)
      /\ h \in Target => ToSet(Deps[h]) \subseteq to_be_merged
  BY <1>1, QueueHead
<1>3. Queue(todo', to_be_merged', mtime')
  <2>1. Queue(Tail(todo), to_be_merged \cup {Head(todo)}, mtime')
    BY <1>1, QueueTail
  <2>2. QED
    BY <2>1
<1>4. todo' \in Seq(Node) /\ ToSet(todo') = ToSet(todo) \ {h}
  BY <1>1, TailElements DEF Queue
<1> HIDE DEF h
<1>5. to_be_merged' = to_be_merged \cup {h}
  BY DEF h
<1>6. \A t \in to_be_merged' \cap Target : ToSet(Deps[t]) \subseteq to_be_merged'
  BY <1>2, <1>5 DEF Base, BuildInv
<1>7. \A n \in Node \ to_be_merged' : ninfo'[n] = NoInfo
  <2>1. ASSUME NEW n \in Node \ to_be_merged' PROVE ninfo'[n] = NoInfo
    <3>1. n \notin to_be_merged /\ n # h /\ ~(h \in Target /\ n \in ToSet(Deps[h]))
      BY <1>2, <1>5
    <3>2. ninfo'[n] = ninfo[n]
      BY <3>1 DEF h
    <3>3. QED
      BY <3>1, <3>2 DEF Base, BuildInv
  <2>2. QED
    BY <2>1
<1>8. requested' \subseteq to_be_merged' \cup ToSet(todo')
  BY <1>4, <1>5 DEF Base, BuildInv
<1>9. BuildInv'
  BY <1>3, <1>6, <1>7, <1>8 DEF Base, BuildInv
<1>10. QED
  BY <1>1, <1>2, <1>4, <1>5, <1>9

LEMMA BaseVisitSource ==
  ASSUME Base, VisitSource
  PROVE  Base'
<1> DEFINE s == Head(todo)
<1>1. /\ phase = "taskmaster" /\ todo # << >> /\ s \in Source /\ s \in Node
      /\ ninfo' = [ninfo EXCEPT ![s] = Visited(s, ninfo[s])]
      /\ to_be_merged' = to_be_merged \cup {s} /\ todo' = Tail(todo)
      /\ UNCHANGED <<setting, command, content, mtime, aged, db, phase, status, requested, edited,
                     edits, had, reverted, recorded, settled>>
  BY Files DEF VisitSource, world, observers, history
<1>2. Visited(s, ninfo[s]) \in Infos
  BY <1>1, Signatures DEF Base
<1> DEFINE info == Visited(s, ninfo[s])
<1> HIDE DEF s, info
<1>3. ninfo' = [ninfo EXCEPT ![s] = info] /\ info \in Infos
  BY <1>1, <1>2 DEF info
<1>4. /\ ninfo' \in [Node -> Infos]
      /\ \A n \in Node : n # s => ninfo'[n] = ninfo[n]
  BY <1>1, <1>3 DEF Base, TypeOK
<1>5. todo' \in Seq(Node) /\ to_be_merged' \subseteq Node /\ BuildInv'
  BY <1>1, <1>4, Handled DEF s
<1>6. TypeOK'
  BY <1>1, <1>4, <1>5 DEF Base, TypeOK
<1>7. FileInv'
  BY <1>1 DEF Base, FileInv
<1>8. QED
  BY <1>5, <1>6, <1>7 DEF Base

\* What UpToDate does, taken apart.
LEMMA UpToDateIs ==
  ASSUME Base, UpToDate
  PROVE  /\ phase = "taskmaster" /\ todo # << >> /\ Head(todo) \in Target /\ Head(todo) \in Node
         /\ content[Head(todo)] # << >> /\ ~Changed(Head(todo))
         /\ ninfo' \in [Node -> Infos]
         /\ ninfo'[Head(todo)] = Visited(Head(todo), AfterChanged(Head(todo))[Head(todo)])
         /\ \A n \in Node : n # Head(todo) => ninfo'[n] = AfterChanged(Head(todo))[n]
         /\ to_be_merged' = to_be_merged \cup {Head(todo)} /\ todo' = Tail(todo)
         /\ recorded' \in [Target -> {"yes", "made", "no"}]
         /\ recorded'[Head(todo)] =
              IF setting.decider = "MD5-timestamp" /\ ~Untouched(Head(todo)) THEN "no"
              ELSE recorded[Head(todo)]
         /\ \A t \in Target : t # Head(todo) => recorded'[t] = recorded[t]
         /\ UNCHANGED <<setting, command, content, mtime, aged, db, phase, status, requested,
                        edited, edits, had, reverted, settled>>
<1> DEFINE t == Head(todo)
           look == AfterChanged(t)
           rec == IF setting.decider = "MD5-timestamp" /\ ~Untouched(t) THEN "no" ELSE recorded[t]
<1>1. /\ phase = "taskmaster" /\ todo # << >> /\ t \in Target /\ t \in Node
      /\ content[t] # << >> /\ ~Changed(t)
      /\ ninfo' = [look EXCEPT ![t] = Visited(t, look[t])]
      /\ to_be_merged' = to_be_merged \cup {t} /\ todo' = Tail(todo)
      /\ recorded' = [recorded EXCEPT ![t] = rec]
      /\ UNCHANGED <<setting, command, content, mtime, aged, db, phase, status, requested,
                        edited, edits, had, reverted, settled>>
  BY Files DEF UpToDate, world, history
<1>2. look \in [Node -> Infos]
  BY <1>1, LookEffect DEF Base
<1>3. Visited(t, look[t]) \in Infos
  <2>1. look[t].csig \in Seq(Nat) /\ mtime[t] \in Times /\ MaxDriftCsig(t) \in Seq(Nat)
    BY <1>1, <1>2, InfoFields, Signatures DEF Base, TypeOK, Node
  <2> HIDE DEF look
  <2>2. QED
    BY <2>1, InfoFields DEF Visited
<1>4. recorded[t] \in {"yes", "made", "no"} /\ recorded \in [Target -> {"yes", "made", "no"}]
  BY <1>1 DEF Base, TypeOK
<1>5. rec \in {"yes", "made", "no"}
  BY <1>4
<1> DEFINE info == Visited(t, look[t])
<1> HIDE DEF t, look, rec, info
<1>6. ninfo' = [look EXCEPT ![t] = info] /\ info \in Infos
  BY <1>1, <1>3 DEF info
<1>7. ninfo' \in [Node -> Infos] /\ ninfo'[t] = info /\ \A n \in Node : n # t => ninfo'[n] = look[n]
  BY <1>1, <1>2, <1>6
<1>8. /\ recorded' \in [Target -> {"yes", "made", "no"}] /\ recorded'[t] = rec
      /\ \A u \in Target : u # t => recorded'[u] = recorded[u]
  BY <1>1, <1>4, <1>5
<1>9. QED
  BY <1>1, <1>7, <1>8 DEF t, look, info, rec

LEMMA BaseUpToDate ==
  ASSUME Base, UpToDate
  PROVE  Base'
<1> DEFINE t == Head(todo)
<1>1. t \in Target /\ t \in Node
  BY UpToDateIs
<1>2. ASSUME NEW n \in Node, n # t, n \notin ToSet(Deps[t])
      PROVE  ninfo'[n] = ninfo[n]
  BY <1>1, <1>2, UpToDateIs, LookEffect DEF Base
<1>3. todo' \in Seq(Node) /\ to_be_merged' \subseteq Node /\ BuildInv'
  BY <1>1, <1>2, UpToDateIs, Handled
<1>4. TypeOK'
  BY <1>3, UpToDateIs DEF Base, TypeOK
<1>5. FileInv'
  BY UpToDateIs DEF Base, FileInv
<1>6. QED
  BY <1>3, <1>4, <1>5 DEF Base

\* What OutOfDate does, taken apart.
LEMMA OutOfDateIs ==
  ASSUME Base, OutOfDate
  PROVE  /\ phase = "taskmaster" /\ phase' = "executing" /\ todo # << >>
         /\ Head(todo) \in Target /\ Head(todo) \in Node
         /\ content[Head(todo)] = << >> \/ Changed(Head(todo))
         /\ ninfo' = AfterChanged(Head(todo)) /\ ninfo' \in [Node -> Infos]
         /\ content' \in [File -> Seq(Nat)] /\ content'[Head(todo)] = << >>
         /\ \A n \in Node : n # Head(todo) => content'[n] = content[n]
         /\ recorded' \in [Target -> {"yes", "made", "no"}]
         /\ recorded'[Head(todo)] = "no"
         /\ \A t \in Target : t # Head(todo) => recorded'[t] = recorded[t]
         /\ UNCHANGED <<setting, command, mtime, aged, db, todo, status, to_be_merged, requested,
                        edited, edits, had, reverted, settled>>
<1> DEFINE t == Head(todo)
<1>1. /\ phase = "taskmaster" /\ phase' = "executing" /\ todo # << >> /\ t \in Target /\ t \in Node
      /\ content[t] = << >> \/ Changed(t)
      /\ ninfo' = AfterChanged(t)
      /\ content' = [content EXCEPT ![t] = << >>]
      /\ recorded' = [recorded EXCEPT ![t] = "no"]
      /\ UNCHANGED <<setting, command, mtime, aged, db, todo, status, to_be_merged, requested,
                        edited, edits, had, reverted, settled>>
  BY Files DEF OutOfDate, history
<1>2. ninfo' \in [Node -> Infos]
  BY <1>1, LookEffect DEF Base
<1>3. /\ content \in [File -> Seq(Nat)] /\ recorded \in [Target -> {"yes", "made", "no"}]
      /\ << >> \in Seq(Nat) /\ Node = File
  BY DEF Base, TypeOK, Node
<1> HIDE DEF t
<1>4. /\ content' \in [File -> Seq(Nat)] /\ content'[t] = << >>
      /\ \A n \in Node : n # t => content'[n] = content[n]
  BY <1>1, <1>3
<1>5. /\ recorded' \in [Target -> {"yes", "made", "no"}] /\ recorded'[t] = "no"
      /\ \A u \in Target : u # t => recorded'[u] = recorded[u]
  BY <1>1, <1>3
<1>6. QED
  BY <1>1, <1>2, <1>4, <1>5 DEF t

LEMMA BaseOutOfDate ==
  ASSUME Base, OutOfDate
  PROVE  Base'
<1> DEFINE t == Head(todo)
<1>1. t \in Target /\ t \in Node /\ ToSet(Deps[t]) \subseteq to_be_merged /\ phase' = "executing"
  BY OutOfDateIs, QueueHead DEF Base, TypeOK, BuildInv
<1>2. TypeOK'
  BY OutOfDateIs DEF Base, TypeOK
<1>3. ASSUME NEW n \in Node \ to_be_merged
      PROVE  ninfo'[n] = NoInfo
  <2>1. n \notin ToSet(Deps[t])
    BY <1>1, <1>3
  <2>2. QED
    BY <1>1, <2>1, OutOfDateIs, LookEffect DEF Base, BuildInv
<1>4. BuildInv'
  BY <1>3, OutOfDateIs DEF Base, BuildInv
<1>5. FileInv'
  <2>1. ASSUME NEW s \in Source PROVE content'[s] = content[s]
    BY Files, OutOfDateIs
  <2>2. ASSUME NEW u \in Target PROVE content'[u] \in {<< >>, content[u]}
    BY Files, OutOfDateIs
  <2>3. UNCHANGED <<mtime, edits, had, command, db>>
    BY OutOfDateIs
  <2>4. FileInv
    BY DEF Base
  <2>5. \A u \in Target : mtime[u] <= MaxWrites /\ (content'[u] # << >> => 1 <= mtime[u])
    BY <2>2, <2>4 DEF FileInv
  <2>6. QED
    BY <2>1, <2>3, <2>4, <2>5 DEF FileInv
<1>6. QED
  BY <1>2, <1>4, <1>5 DEF Base

\* A target is written.
LEMMA WrittenIs ==
  ASSUME Base, NEW t \in Target, NEW c \in Seq(Nat), c # << >>, mtime[t] < MaxWrites, Written(t, c)
  PROVE  /\ content' \in [File -> Seq(Nat)] /\ content'[t] = c
         /\ mtime' \in [File -> Times] /\ mtime'[t] = mtime[t] + 1
         /\ mtime[t] \in Nat /\ mtime'[t] <= MaxWrites
         /\ \A n \in Node : n # t => content'[n] = content[n] /\ mtime'[n] = mtime[n]
         /\ aged' \subseteq File /\ aged' = aged \ {t}
         /\ FileInv /\ UNCHANGED <<edits, had, command, db>> => FileInv'
<1>1. /\ content' = [content EXCEPT ![t] = c] /\ mtime' = [mtime EXCEPT ![t] = mtime[t] + 1]
      /\ aged' = aged \ {t}
      /\ content \in [File -> Seq(Nat)] /\ mtime \in [File -> Times] /\ aged \subseteq File
      /\ t \in File /\ Node = File
  BY Files DEF Written, Base, TypeOK
<1>2. /\ mtime[t] \in Nat /\ mtime[t] + 1 \in Times /\ mtime[t] + 1 <= MaxWrites
      /\ 1 <= mtime[t] + 1
  <2>1. mtime[t] \in Times /\ MaxWrites \in Nat /\ MaxEdits \in Nat
    BY <1>1, SettingsAssumption
  <2>2. QED
    BY <2>1 DEF Times
<1>3. /\ content' \in [File -> Seq(Nat)] /\ content'[t] = c
      /\ \A n \in Node : n # t => content'[n] = content[n]
  BY <1>1
<1>4. /\ mtime' \in [File -> Times] /\ mtime'[t] = mtime[t] + 1
      /\ \A n \in Node : n # t => mtime'[n] = mtime[n]
  BY <1>1, <1>2
<1>5. ASSUME FileInv, UNCHANGED <<edits, had, command, db>> PROVE FileInv'
  <2>1. ASSUME NEW s \in Source PROVE content'[s] = content[s] /\ mtime'[s] = mtime[s]
    BY <1>3, <1>4, Files
  <2>2. ASSUME NEW u \in Target
        PROVE  mtime'[u] <= MaxWrites /\ (content'[u] # << >> => 1 <= mtime'[u])
    <3>1. CASE u = t
      BY <1>2, <1>3, <1>4, <3>1
    <3>2. CASE u # t
      BY <1>3, <1>4, <1>5, <3>2, Files DEF FileInv
    <3>3. QED
      BY <3>1, <3>2
  <2>3. QED
    BY <1>5, <2>1, <2>2 DEF FileInv
<1>6. QED
  BY <1>1, <1>2, <1>3, <1>4, <1>5

\* What Executed does, taken apart.
LEMMA ExecutedIs ==
  ASSUME Base, Executed
  PROVE  /\ phase = "executing" /\ phase' = "taskmaster" /\ todo # << >>
         /\ Head(todo) \in Target /\ Head(todo) \in Node
         /\ mtime[Head(todo)] < MaxWrites
         /\ content' \in [File -> Seq(Nat)] /\ content'[Head(todo)] = Made(Head(todo))
         /\ mtime' \in [File -> Times] /\ mtime'[Head(todo)] = mtime[Head(todo)] + 1
         /\ mtime[Head(todo)] \in Nat /\ mtime'[Head(todo)] <= MaxWrites
         /\ \A n \in Node : n # Head(todo) => content'[n] = content[n] /\ mtime'[n] = mtime[n]
         /\ aged' \subseteq File /\ aged' = aged \ {Head(todo)}
         /\ ninfo' \in [Node -> Infos]
         /\ ninfo'[Head(todo)].timestamp = mtime'[Head(todo)]
         /\ setting.max_drift = "zero" /\ db[Head(todo)].ninfo.csig # << >> =>
              ninfo'[Head(todo)].csig = db[Head(todo)].ninfo.csig
         /\ ~(setting.max_drift = "zero" /\ db[Head(todo)].ninfo.csig # << >>) =>
              ninfo'[Head(todo)].csig = Made(Head(todo))
         /\ \A n \in Node : n # Head(todo) => ninfo'[n] = ninfo[n]
         /\ to_be_merged' = to_be_merged \cup {Head(todo)} /\ todo' = Tail(todo)
         /\ recorded' \in [Target -> {"yes", "made", "no"}]
         /\ recorded'[Head(todo)] = IF Untouched(Head(todo)) THEN "made" ELSE "no"
         /\ \A t \in Target : t # Head(todo) => recorded'[t] = recorded[t]
         /\ UNCHANGED <<setting, command, db, status, requested, edited, edits, had, reverted,
                        settled>>
<1> DEFINE t == Head(todo)
           sig == IF setting.max_drift = "zero" /\ db[t].ninfo.csig # << >>
                  THEN db[t].ninfo.csig ELSE Made(t)
           rec == IF Untouched(t) THEN "made" ELSE "no"
<1>1. /\ phase = "executing" /\ phase' = "taskmaster"
      /\ Written(t, Made(t))
      /\ ninfo' = [ninfo EXCEPT ![t] = [csig |-> sig, timestamp |-> mtime'[t]]]
      /\ to_be_merged' = to_be_merged \cup {t} /\ todo' = Tail(todo)
      /\ recorded' = [recorded EXCEPT ![t] = rec]
      /\ UNCHANGED <<setting, command, db, status, requested, edited, edits, had, reverted,
                        settled>>
  BY DEF Executed, history
<1>2. /\ todo # << >> /\ t \in Target /\ t \in Node /\ mtime[t] < MaxWrites
  BY <1>1, QueueHead DEF Base, TypeOK, BuildInv
<1>3. Made(t) \in Seq(Nat) /\ Made(t) # << >>
  BY <1>2, MadeIs
<1>4. /\ content' \in [File -> Seq(Nat)] /\ content'[t] = Made(t)
      /\ mtime' \in [File -> Times] /\ mtime'[t] = mtime[t] + 1
      /\ mtime[t] \in Nat /\ mtime'[t] <= MaxWrites
      /\ \A n \in Node : n # t => content'[n] = content[n] /\ mtime'[n] = mtime[n]
      /\ aged' \subseteq File /\ aged' = aged \ {t}
  <2> HIDE DEF t
  <2>1. QED
    BY <1>1, <1>2, <1>3, WrittenIs
<1>5. sig \in Seq(Nat) /\ mtime'[t] \in Times
  BY <1>2, <1>3, <1>4, InfoFields DEF Base, TypeOK, Node
<1>6. ninfo \in [Node -> Infos] /\ recorded \in [Target -> {"yes", "made", "no"}]
  BY DEF Base, TypeOK
<1> DEFINE info == [csig |-> sig, timestamp |-> mtime'[t]]
<1>7. info \in Infos /\ info.csig = sig /\ info.timestamp = mtime'[t]
  <2> HIDE DEF sig, t
  <2>1. QED
    BY <1>5, InfoFields
<1>8. /\ ninfo' \in [Node -> Infos] /\ ninfo'[t] = info
      /\ \A n \in Node : n # t => ninfo'[n] = ninfo[n]
  <2> HIDE DEF info, t
  <2>1. ninfo' = [ninfo EXCEPT ![t] = info]
    BY <1>1 DEF info
  <2>2. QED
    BY <1>2, <1>6, <1>7, <2>1
<1>9. /\ recorded' \in [Target -> {"yes", "made", "no"}] /\ recorded'[t] = rec
      /\ \A u \in Target : u # t => recorded'[u] = recorded[u]
  <2>1. rec \in {"yes", "made", "no"}
    OBVIOUS
  <2> HIDE DEF rec, t
  <2>2. QED
    BY <1>1, <1>2, <1>6, <2>1
<1>10. /\ ninfo'[t].timestamp = mtime'[t]
       /\ setting.max_drift = "zero" /\ db[t].ninfo.csig # << >> =>
            ninfo'[t].csig = db[t].ninfo.csig
       /\ ~(setting.max_drift = "zero" /\ db[t].ninfo.csig # << >>) =>
              ninfo'[t].csig = Made(t)
  <2> HIDE DEF info, t
  <2>1. ninfo'[t].csig = sig /\ ninfo'[t].timestamp = mtime'[t]
    BY <1>7, <1>8
  <2>2. QED
    BY <2>1 DEF sig
<1> HIDE DEF sig, info
<1>11. QED
  BY <1>1, <1>2, <1>4, <1>8, <1>9, <1>10

LEMMA BaseExecuted ==
  ASSUME Base, Executed
  PROVE  Base'
<1> DEFINE t == Head(todo)
<1>1. t \in Target /\ t \in Node /\ mtime[t] < MaxWrites
  BY ExecutedIs
<1>2. /\ \A n \in Target : n # t => mtime'[n] = mtime[n]
      /\ \A n \in Node : n # t => ninfo'[n] = ninfo[n]
  BY ExecutedIs, Files
<1>3. todo' \in Seq(Node) /\ to_be_merged' \subseteq Node /\ BuildInv'
  BY <1>1, <1>2, ExecutedIs, Handled
<1>4. TypeOK'
  BY <1>3, ExecutedIs DEF Base, TypeOK
<1>5. FileInv'
  <2>1. Written(t, Made(t)) /\ Made(t) \in Seq(Nat) /\ Made(t) # << >>
    BY <1>1, MadeIs DEF Executed
  <2>2. FileInv /\ UNCHANGED <<edits, had, command, db>>
    BY ExecutedIs DEF Base
  <2> HIDE DEF t
  <2>3. QED
    BY <1>1, <2>1, <2>2, WrittenIs
<1>6. QED
  BY <1>3, <1>4, <1>5 DEF Base

\* The build ends, or stops, with what it has.
LEMMA Finished ==
  ASSUME Base, NEW result \in {"ok", "failed"}, Finish(result),
         phase \in {"taskmaster", "executing"},
         result = "ok" => todo = << >>,
         mtime' \in [File -> Times], content' \in [File -> Seq(Nat)], aged' \subseteq File, FileInv',
         UNCHANGED <<setting, command, db, ninfo, to_be_merged, observers>>
  PROVE  Base'
<1>1. /\ phase' = "writing" /\ todo' = << >> /\ status' = result
      /\ UNCHANGED <<setting, command, db, ninfo, to_be_merged, requested, edited, edits, had,
                     reverted, recorded, settled>>
  BY DEF Finish, observers, history
<1>2. TypeOK'
  <2>1. << >> \in Seq(Node)
    OBVIOUS
  <2>2. QED
    BY <1>1, <2>1 DEF Base, TypeOK
<1>3. Queue(<< >>, to_be_merged, mtime')
  BY DEF Queue, IsInjective
<1>4. result = "ok" => requested \subseteq to_be_merged
  <2>1. ToSet(<< >>) = {}
    BY DEF ToSet
  <2>2. QED
    BY <2>1 DEF Base, BuildInv
<1>5. BuildInv'
  BY <1>1, <1>3, <1>4 DEF Base, BuildInv
<1>6. QED
  BY <1>2, <1>5 DEF Base

LEMMA BaseFails ==
  ASSUME Base, Fails
  PROVE  Base'
<1> DEFINE t == Head(todo)
<1>1. /\ phase = "executing" /\ Finish("failed")
      /\ Written(t, <<0>>) \/ UNCHANGED <<content, mtime, aged>>
      /\ UNCHANGED <<setting, command, db, ninfo, to_be_merged, observers>>
  BY DEF Fails
<1>2. todo # << >> /\ t \in Target /\ mtime[t] < MaxWrites
  BY <1>1, QueueHead DEF Base, TypeOK, BuildInv
<1>3. UNCHANGED <<edits, had, command, db>> /\ FileInv
  BY <1>1 DEF observers, history, Base
<1>4. mtime' \in [File -> Times] /\ content' \in [File -> Seq(Nat)] /\ aged' \subseteq File /\ FileInv'
  <2>1. CASE Written(t, <<0>>)
    <3>1. <<0>> \in Seq(Nat) /\ <<0>> # << >>
      OBVIOUS
    <3> HIDE DEF t
    <3>2. PICK c \in Seq(Nat) : c = <<0>> /\ c # << >>
      BY <3>1
    <3>3. Written(t, c)
      BY <2>1, <3>2
    <3>4. QED
      BY <1>2, <1>3, <3>2, <3>3, WrittenIs
  <2>2. CASE UNCHANGED <<content, mtime, aged>>
    BY <1>3, <2>2 DEF Base, TypeOK, FileInv
  <2>3. QED
    BY <1>1, <2>1, <2>2
<1>5. QED
  BY <1>1, <1>4, Finished

LEMMA BaseStops ==
  ASSUME Base, Interrupt \/ Done
  PROVE  Base'
<1>1. UNCHANGED <<setting, command, content, mtime, aged, db, ninfo, to_be_merged, observers>>
  BY DEF Interrupt, Done, world
<1>2. mtime' \in [File -> Times] /\ content' \in [File -> Seq(Nat)] /\ aged' \subseteq File /\ FileInv'
  BY <1>1 DEF Base, TypeOK, FileInv, observers, history
<1>3. \E result \in {"ok", "failed"} :
        Finish(result) /\ (result = "ok" => todo = << >>) /\ phase = "taskmaster"
  BY DEF Interrupt, Done
<1>4. QED
  BY <1>1, <1>2, <1>3, Finished

LEMMA BaseUnlink ==
  ASSUME Base, Unlink
  PROVE  Base'
<1>1. /\ phase = "writing" /\ phase' = "renaming"
      /\ UNCHANGED <<setting, command, content, mtime, aged, db, todo, status, ninfo, to_be_merged,
                     requested, edited, edits, had, reverted, recorded, settled>>
  BY DEF Unlink, world, observers, history
<1>2. TypeOK'
  BY <1>1 DEF Base, TypeOK
<1>3. BuildInv' /\ FileInv'
  BY <1>1 DEF Base, BuildInv, FileInv
<1>4. QED
  BY <1>2, <1>3 DEF Base

\* What is stored of a node.
LEMMA EntryIs ==
  ASSUME Base, NEW n \in Node
  PROVE  /\ Entry(n) \in Entries
         /\ n \notin to_be_merged => Entry(n) = db[n]
         /\ n \in to_be_merged =>
              /\ Entry(n).ninfo = Merged(db[n].ninfo, ninfo[n])
              /\ n \in Target =>
                   /\ Entry(n).bactsig = command
                   /\ Len(Entry(n).sigs) = Len(Deps[n])
                   /\ \A k \in DOMAIN Deps[n] : Entry(n).sigs[k] = ninfo[Deps[n][k]]
<1>1. CASE n \notin to_be_merged
  BY <1>1 DEF Entry, Base, TypeOK
<1>2. CASE n \in to_be_merged
  <2>1. Merged(db[n].ninfo, ninfo[n]) \in Infos
    <3>1. /\ db[n].ninfo.csig \in Seq(Nat) /\ ninfo[n].csig \in Seq(Nat)
          /\ ninfo[n].timestamp \in Times
      BY InfoFields DEF Base, TypeOK
    <3>2. QED
      BY <3>1, InfoFields DEF Merged
  <2>2. CASE n \in Source
    <3>1. /\ db[n].sigs \in Seq(Infos) /\ db[n].bactsig \in 0 .. 2
      BY InfoFields DEF Base, TypeOK
    <3>2. Entry(n) = [ninfo |-> Merged(db[n].ninfo, ninfo[n]), sigs |-> db[n].sigs,
                      bactsig |-> db[n].bactsig]
      BY <1>2, <2>2 DEF Entry
    <3>3. QED
      BY <1>2, <2>1, <2>2, <3>1, <3>2, Files DEF Entries
  <2>3. CASE n \in Target
    <3> DEFINE sigs == [k \in DOMAIN Deps[n] |-> ninfo[Deps[n][k]]]
    <3>1. /\ Deps[n] \in Seq(Node) /\ DOMAIN Deps[n] = 1 .. Len(Deps[n]) /\ Len(Deps[n]) \in Nat
          /\ ninfo \in [Node -> Infos] /\ command \in 0 .. 2 /\ n \notin Source
      BY <2>3, Files DEF Base, TypeOK
    <3>2. sigs \in [1 .. Len(Deps[n]) -> Infos]
      BY <3>1
    <3>3. sigs \in Seq(Infos) /\ Len(sigs) = Len(Deps[n])
      BY <3>1, <3>2, FunctionSeq
    <3>4. \A k \in DOMAIN Deps[n] : sigs[k] = ninfo[Deps[n][k]]
      OBVIOUS
    <3>5. Entry(n) = [ninfo |-> Merged(db[n].ninfo, ninfo[n]), sigs |-> sigs, bactsig |-> command]
      BY <1>2, <3>1 DEF Entry, StoredSig
    <3> HIDE DEF sigs
    <3>6. QED
      BY <1>2, <2>1, <3>1, <3>3, <3>4, <3>5 DEF Entries
  <2>4. QED
    BY <2>2, <2>3, Files DEF Node, File
<1>3. QED
  BY <1>1, <1>2

\* What Rename does, taken apart.
LEMMA RenameIs ==
  ASSUME Base, Rename
  PROVE  /\ phase = "renaming" /\ phase' = "idle" /\ to_be_merged' = {} /\ todo = << >>
         /\ ninfo' = [n \in Node |-> NoInfo]
         /\ db' \in [Node -> Entries] /\ \A n \in Node : db'[n] = Entry(n)
         /\ recorded' \in [Target -> {"yes", "made", "no"}]
         /\ \A t \in Target :
              recorded'[t] = IF recorded[t] = "made" THEN "yes" ELSE recorded[t]
         /\ settled' = IF status = "ok" /\ ~edited THEN settled \cup requested ELSE settled
         /\ UNCHANGED <<setting, command, content, mtime, aged, todo, status, requested, edited,
                        edits, had, reverted>>
<1>1. /\ phase = "renaming" /\ phase' = "idle" /\ to_be_merged' = {}
      /\ ninfo' = [n \in Node |-> NoInfo] /\ db' = [n \in Node |-> Entry(n)]
      /\ recorded' = [t \in Target |-> IF recorded[t] = "made" THEN "yes" ELSE recorded[t]]
      /\ settled' = IF status = "ok" /\ ~edited THEN settled \cup requested ELSE settled
      /\ UNCHANGED <<setting, command, content, mtime, aged, todo, status, requested, edited,
                     edits, had, reverted>>
  BY DEF Rename, world, history
<1>2. db' \in [Node -> Entries] /\ \A n \in Node : db'[n] = Entry(n)
  BY <1>1, EntryIs
<1>3. todo = << >>
  BY <1>1 DEF Base, TypeOK
<1>4. \A t \in Target : recorded[t] \in {"yes", "made", "no"}
  BY DEF Base, TypeOK
<1>5. recorded' \in [Target -> {"yes", "made", "no"}]
  BY <1>1, <1>4
<1>6. \A t \in Target : recorded'[t] = IF recorded[t] = "made" THEN "yes" ELSE recorded[t]
  BY <1>1
<1>7. QED
  BY <1>1, <1>2, <1>3, <1>5, <1>6

LEMMA BaseRename ==
  ASSUME Base, Rename
  PROVE  Base'
<1>1. ASSUME NEW t \in Target
      PROVE  /\ Len(db'[t].sigs) \in {0, Len(Deps[t])}
             /\ db'[t].bactsig \in had["command"] \cup {0}
  <2>1. t \in Node /\ db'[t] = Entry(t)
    BY Files, RenameIs
  <2>2. /\ Len(db[t].sigs) \in {0, Len(Deps[t])}
        /\ db[t].bactsig \in had["command"] \cup {0} /\ command \in had["command"]
    BY DEF Base, TypeOK, FileInv
  <2>3. CASE t \in to_be_merged
    BY <2>1, <2>2, <2>3, EntryIs
  <2>4. CASE t \notin to_be_merged
    BY <2>1, <2>2, <2>4, EntryIs
  <2>5. QED
    BY <2>3, <2>4
<1>2. TypeOK'
  <2>1. ninfo' \in [Node -> Infos]
    BY RenameIs, InfoFields
  <2>2. settled' \subseteq Target
    BY RenameIs DEF Base, TypeOK
  <2>3. QED
    BY <1>1, <2>1, <2>2, RenameIs DEF Base, TypeOK
<1>3. BuildInv'
  <2>1. Queue(<< >>, {}, mtime)
    BY DEF Queue, IsInjective
  <2>2. QED
    BY <2>1, RenameIs DEF Base, BuildInv
<1>4. FileInv'
  BY <1>1, RenameIs DEF Base, FileInv
<1>5. QED
  BY <1>2, <1>3, <1>4 DEF Base

\* What Crash does, taken apart.
LEMMA CrashIs ==
  ASSUME Base, Crash
  PROVE  /\ phase # "idle" /\ phase' = "idle" /\ todo' = << >> /\ status' = "crashed"
         /\ to_be_merged' = {}
         /\ ninfo' = [n \in Node |-> NoInfo]
         /\ db' \in [Node -> Entries]
         /\ db' = db \/ (phase = "renaming" /\ \A n \in Node : db'[n] = NoEntry)
         /\ recorded' \in [Target -> {"yes", "made", "no"}]
         /\ \A t \in Target :
              recorded'[t] = IF recorded[t] = "made" THEN "no" ELSE recorded[t]
         /\ settled' = {} /\ Allowed("crashes")
         /\ UNCHANGED <<setting, command, content, mtime, aged, requested, edited,
                        edits, had, reverted>>
<1>1. /\ phase # "idle" /\ phase' = "idle" /\ todo' = << >> /\ status' = "crashed"
      /\ to_be_merged' = {} /\ ninfo' = [n \in Node |-> NoInfo]
      /\ db' = IF phase = "renaming" THEN NoEntries ELSE db
      /\ recorded' = [t \in Target |-> IF recorded[t] = "made" THEN "no" ELSE recorded[t]]
      /\ settled' = {} /\ Allowed("crashes")
      /\ UNCHANGED <<setting, command, content, mtime, aged, requested, edited,
                     edits, had, reverted>>
  BY DEF Crash, world, history
<1>2. db' \in [Node -> Entries]
  BY <1>1, InfoFields DEF Base, TypeOK, NoEntries
<1>3. db' = db \/ (phase = "renaming" /\ \A n \in Node : db'[n] = NoEntry)
  BY <1>1 DEF NoEntries
<1>4. \A t \in Target : recorded[t] \in {"yes", "made", "no"}
  BY DEF Base, TypeOK
<1>5. recorded' \in [Target -> {"yes", "made", "no"}]
  BY <1>1, <1>4
<1>6. \A t \in Target : recorded'[t] = IF recorded[t] = "made" THEN "no" ELSE recorded[t]
  BY <1>1
<1>7. QED
  BY <1>1, <1>2, <1>3, <1>5, <1>6

LEMMA BaseCrash ==
  ASSUME Base, Crash
  PROVE  Base'
<1>1. ASSUME NEW t \in Target
      PROVE  /\ Len(db'[t].sigs) \in {0, Len(Deps[t])}
             /\ db'[t].bactsig \in had["command"] \cup {0}
  <2>1. CASE db' = db
    BY <2>1 DEF Base, TypeOK, FileInv
  <2>2. CASE db'[t] = NoEntry
    <3>1. NoEntry.sigs = << >> /\ NoEntry.bactsig = 0 /\ Len(<< >>) = 0
      BY InfoFields
    <3>2. QED
      BY <2>2, <3>1
  <2>3. QED
    BY <2>1, <2>2, CrashIs, Files
<1>2. TypeOK'
  <2>1. ninfo' \in [Node -> Infos]
    BY CrashIs, InfoFields
  <2>2. << >> \in Seq(Node)
    OBVIOUS
  <2>3. QED
    BY <1>1, <2>1, <2>2, CrashIs DEF Base, TypeOK
<1>3. BuildInv'
  <2>1. Queue(<< >>, {}, mtime)
    BY DEF Queue, IsInjective
  <2>2. QED
    BY <2>1, CrashIs DEF Base, BuildInv
<1>4. FileInv'
  BY <1>1, CrashIs DEF Base, FileInv
<1>5. QED
  BY <1>2, <1>3, <1>4 DEF Base

LEMMA BaseStep == Base /\ [Next]_vars => Base'
<1> SUFFICES ASSUME Base, [Next]_vars PROVE Base'
  OBVIOUS
<1>1. CASE \E s \in Source, value \in 1 .. MaxContent : Edit(s, value)
  BY <1>1, BaseEdit
<1>2. CASE EditCommand
  BY <1>2, BaseCommand
<1>3. CASE Age
  BY <1>3, BaseAge
<1>4. CASE \E request \in Requests : Start(request)
  BY <1>4, BaseStart
<1>5. CASE VisitSource
  BY <1>5, BaseVisitSource
<1>6. CASE UpToDate
  BY <1>6, BaseUpToDate
<1>7. CASE OutOfDate
  BY <1>7, BaseOutOfDate
<1>8. CASE Executed
  BY <1>8, BaseExecuted
<1>9. CASE Fails
  BY <1>9, BaseFails
<1>10. CASE Interrupt \/ Done
  BY <1>10, BaseStops
<1>11. CASE Unlink
  BY <1>11, BaseUnlink
<1>12. CASE Rename
  BY <1>12, BaseRename
<1>13. CASE Crash
  BY <1>13, BaseCrash
<1>14. CASE UNCHANGED vars
  <2>1. TypeOK'
    BY <1>14 DEF Base, TypeOK, vars, world, build, observers, history
  <2>2. BuildInv' /\ FileInv'
    BY <1>14 DEF Base, BuildInv, FileInv, vars, world, build, observers, history
  <2>3. QED
    BY <2>1, <2>2 DEF Base
<1>15. QED
  BY <1>1, <1>2, <1>3, <1>4, <1>5, <1>6, <1>7, <1>8, <1>9, <1>10, <1>11, <1>12, <1>13, <1>14
  DEF Next, Step

\* TypeCorrect: in any sequence of builds, edits, failures, interrupts and crashes, with
\* any files and dependencies, the variables stay in their sets, an entry has a signature
\* for each child or none, and a build that is over or stores what it knows has no node
\* left to handle (Node/FS.py:2700, SConsign.py:157, Taskmaster.py:700).
THEOREM TypeCorrect == Spec => []TypeOK
<1>1. Spec => []Base
  BY BaseInit, BaseStep, PTL DEF Spec
<1>2. Base => TypeOK
  BY DEF Base
<1>3. QED
  BY <1>1, <1>2, PTL

-----------------------------------------------------------------------------
(***************************************************************************)
(* What is known and stored of the children, with settings that can be     *)
(* trusted.                                                                *)
(***************************************************************************)
\* Do signatures of contents matter? Do times? Are stored signatures of nodes used?
Precise == setting.decider # "timestamp-match"
Timed == setting.decider # "content"
Trusting == Precise /\ setting.max_drift = "positive"

\* What a build knows of a node it handled: it is that of the file as it is, unless
\* the file was edited since.
Known(c) ==
  /\ content[c] # << >> /\ 1 <= ninfo[c].timestamp /\ ninfo[c].timestamp <= mtime[c]
  /\ c \in Target \/ ~edited => ninfo[c].timestamp = mtime[c]
  /\ Precise /\ ninfo[c].timestamp = mtime[c] => ninfo[c].csig \in {<< >>, content[c]}

\* The targets whose children were looked at.
Decided(t) == t \in to_be_merged \/ (phase = "executing" /\ t = Head(todo))

InfoInv ==
  /\ \A c \in to_be_merged : Known(c)
  /\ Precise =>
       \A t \in Target : Decided(t) => \A c \in ToSet(Deps[t]) : ninfo[c].csig # << >>

\* What was stored of a child is not about a later file; at the time of the file that is
\* there it has its signature.
Stored(c, sig) ==
  /\ sig.timestamp <= mtime[c]
  /\ c \in to_be_merged => sig.timestamp <= ninfo[c].timestamp
  /\ Precise =>
       /\ sig.csig # << >>
       /\ sig.timestamp = mtime[c] /\ content[c] # << >> => sig.csig = content[c]
SigInv ==
  \A t \in Target :
    /\ db[t].bactsig # 0 => Len(db[t].sigs) = Len(Deps[t])
    /\ \A k \in DOMAIN db[t].sigs :
         /\ Stored(Deps[t][k], db[t].sigs[k])
         /\ \A j \in DOMAIN db[t].sigs :
              Deps[t][j] = Deps[t][k] => db[t].sigs[j] = db[t].sigs[k]

\* The same of what was stored of a node itself, where it is used.
OwnSig(n) ==
  LET old == db[n].ninfo
  IN /\ old.timestamp <= mtime[n]
     /\ old.csig # << >> /\ old.timestamp = mtime[n] /\ content[n] # << >> =>
          old.csig = content[n]
     /\ n \in Target \ to_be_merged /\ content[n] # << >> => old.timestamp = mtime[n]
     /\ n \in to_be_merged /\ ninfo[n].csig = << >> =>
          /\ n \in Target => old.timestamp = ninfo[n].timestamp
          /\ n \in Source => \E t \in ToSet(todo) \cap Target : n \in ToSet(Deps[t])
DriftInv ==
  /\ Trustworthy(setting)
  /\ Trusting => Needed(todo) /\ \A n \in Node : OwnSig(n)

Exact == Base /\ InfoInv /\ SigInv /\ DriftInv

LEMMA NeededTail ==
  ASSUME NEW q \in Seq(Node), q # << >>, Needed(q)
  PROVE  Needed(Tail(q))
<1> DEFINE r == Tail(q)
<1>1. /\ r \in Seq(Node) /\ Len(r) = Len(q) - 1 /\ Len(q) \in Nat
  OBVIOUS
<1>2. \A k \in 1 .. Len(r) : r[k] = q[k + 1] /\ k + 1 \in 1 .. Len(q)
  OBVIOUS
<1> HIDE DEF r
<1>3. ASSUME NEW k \in 1 .. Len(r), r[k] \in Source
      PROVE  \E j \in k + 1 .. Len(r) : r[j] \in Target /\ r[k] \in ToSet(Deps[r[j]])
  <2>1. PICK j \in (k + 1) + 1 .. Len(q) : q[j] \in Target /\ q[k + 1] \in ToSet(Deps[q[j]])
    BY <1>2, <1>3 DEF Needed
  <2>2. j - 1 \in k + 1 .. Len(r) /\ j - 1 \in 1 .. Len(r) /\ (j - 1) + 1 = j
    BY <1>1
  <2>3. r[j - 1] = q[j] /\ r[k] = q[k + 1]
    BY <1>2, <2>2
  <2>4. QED
    BY <2>1, <2>2, <2>3
<1>4. QED
  BY <1>3 DEF Needed, r

\* The entry of a target has a signature of each child, or none.
LEMMA SigPlaces ==
  ASSUME TypeOK, NEW t \in Target
  PROVE  /\ db[t].sigs \in Seq(Infos) /\ DOMAIN db[t].sigs = 1 .. Len(db[t].sigs)
         /\ \A k \in DOMAIN db[t].sigs :
              /\ k \in DOMAIN Deps[t] /\ db[t].sigs[k] \in Infos
              /\ Deps[t][k] \in Node /\ Deps[t][k] \in ToSet(Deps[t])
         /\ DOMAIN db[t].sigs = {} \/ DOMAIN db[t].sigs = DOMAIN Deps[t]
<1>1. db[t].sigs \in Seq(Infos) /\ Len(db[t].sigs) \in {0, Len(Deps[t])}
  BY InfoFields, Files DEF TypeOK
<1>2. DOMAIN db[t].sigs = 1 .. Len(db[t].sigs) /\ \A k \in 1 .. Len(db[t].sigs) : db[t].sigs[k] \in Infos
  BY <1>1
<1>3. DOMAIN Deps[t] = 1 .. Len(Deps[t]) /\ ToSet(Deps[t]) \subseteq Node
      /\ \A k \in DOMAIN Deps[t] : Deps[t][k] \in ToSet(Deps[t])
  BY Files
<1>4. DOMAIN db[t].sigs = {} \/ DOMAIN db[t].sigs = DOMAIN Deps[t]
  <2>1. 1 .. 0 = {}
    OBVIOUS
  <2>2. QED
    BY <1>1, <1>2, <1>3, <2>1
<1>5. QED
  BY <1>1, <1>2, <1>3, <1>4

\* The stored signature of a node, where it is used, is right.
LEMMA DriftCsig ==
  ASSUME Exact, Precise, NEW n \in Node, content[n] # << >>
  PROVE  MaxDriftCsig(n) \in {<< >>, content[n]}
<1>1. CASE Trusting
  <2>1. OwnSig(n) /\ setting.max_drift = "positive"
    BY <1>1 DEF Exact, DriftInv, Trusting
  <2>2. QED
    BY <2>1 DEF MaxDriftCsig, OwnSig
<1>2. CASE ~Trusting
  <2>1. setting.max_drift = "negative"
    BY <1>2 DEF Exact, DriftInv, Trusting, Trustworthy, Precise
  <2>2. QED
    BY <2>1 DEF MaxDriftCsig
<1>3. QED
  BY <1>1, <1>2

\* The signature of a node that was handled.
LEMMA HandledCsig ==
  ASSUME Exact, Precise, NEW c \in to_be_merged
  PROVE  /\ GetCsig(c) \in {ninfo[c].csig, content[c]} /\ GetCsig(c) # << >>
         /\ ninfo[c].csig # << >> => GetCsig(c) = ninfo[c].csig
         /\ ninfo[c].timestamp = mtime[c] => GetCsig(c) = content[c]
<1>1. c \in Node /\ Known(c)
  BY DEF Exact, Base, TypeOK, InfoInv
<1>2. MaxDriftCsig(c) \in {<< >>, content[c]}
  BY <1>1, DriftCsig DEF Known
<1>3. GetCsig(c) = IF ninfo[c].csig # << >> THEN ninfo[c].csig ELSE content[c]
  BY <1>2 DEF GetCsig
<1>4. content[c] # << >>
  BY <1>1 DEF Known
<1>5. ninfo[c].timestamp = mtime[c] => ninfo[c].csig \in {<< >>, content[c]}
  BY <1>1 DEF Known
<1> DEFINE e == << >>
<1> HIDE DEF e
<1>6. /\ GetCsig(c) = IF ninfo[c].csig # e THEN ninfo[c].csig ELSE content[c]
      /\ content[c] # e
      /\ ninfo[c].timestamp = mtime[c] => ninfo[c].csig \in {e, content[c]}
  BY <1>3, <1>4, <1>5 DEF e
<1>7. /\ GetCsig(c) \in {ninfo[c].csig, content[c]} /\ GetCsig(c) # e
      /\ ninfo[c].csig # e => GetCsig(c) = ninfo[c].csig
      /\ ninfo[c].timestamp = mtime[c] => GetCsig(c) = content[c]
  BY <1>6
<1>8. QED
  BY <1>7 DEF e

\* What looking at its children finds out of a child.
LEMMA LookSays ==
  ASSUME Exact, todo # << >>, Head(todo) \in Target, NEW c \in ToSet(Deps[Head(todo)])
  PROVE  /\ c \in to_be_merged /\ c \in Node
         /\ Precise => AfterChanged(Head(todo))[c].csig # << >>
         /\ Precise /\ ninfo[c].timestamp = mtime[c] =>
              AfterChanged(Head(todo))[c].csig = content[c]
<1> DEFINE t == Head(todo)
<1>1. c \in to_be_merged /\ c \in Node /\ t \in Node
  BY QueueHead, Files DEF Exact, Base, TypeOK, BuildInv
<1>2. ASSUME Precise
      PROVE  /\ AfterChanged(t)[c].csig # << >>
             /\ ninfo[c].timestamp = mtime[c] => AfterChanged(t)[c].csig = content[c]
  <2> HIDE DEF t
  <2>1. PICK k \in DOMAIN Deps[t] : Deps[t][k] = c /\ AfterChanged(t)[c].csig = CsigAfter(c, Prev(t, k))
    BY LookEffect DEF Exact, Base, t
  <2> DEFINE prev == Prev(t, k)
  <2>2. Known(c)
    BY <1>1 DEF Exact, InfoInv
  <2>3. CASE setting.decider = "MD5-timestamp" /\ TimestampMatches(c, prev)
    <3>1. prev.timestamp = ninfo[c].timestamp /\ prev.timestamp # 0
      BY <2>2, <2>3 DEF TimestampMatches, Known
    <3>2. k \in DOMAIN db[t].sigs /\ prev = db[t].sigs[k]
      BY <3>1, Previous, InfoFields DEF Exact, Base, t
    <3>3. Stored(c, prev)
      BY <2>1, <3>2 DEF Exact, SigInv, t
    <3>4. CsigAfter(c, prev) = prev.csig
      BY <1>2, <2>3, <3>3 DEF CsigAfter, Stored
    <3>5. QED
      BY <1>2, <2>1, <2>2, <3>1, <3>3, <3>4 DEF Stored, Known
  <2>4. CASE ~(setting.decider = "MD5-timestamp" /\ TimestampMatches(c, prev))
    <3>1. CsigAfter(c, prev) = GetCsig(c)
      BY <1>2, <2>4 DEF CsigAfter, Precise
    <3>2. QED
      BY <1>1, <1>2, <2>1, <3>1, HandledCsig
  <2>5. QED
    BY <2>3, <2>4
<1>3. QED
  BY <1>1, <1>2

-----------------------------------------------------------------------------
(***************************************************************************)
(* Exact is inductive, with settings that can be trusted.                  *)
(***************************************************************************)
LEMMA ExactInit == Init /\ Trustworthy(setting) => Exact
<1> SUFFICES ASSUME Init, Trustworthy(setting) PROVE Exact
  OBVIOUS
<1>1. Base
  BY BaseInit
<1>2. to_be_merged = {} /\ phase = "idle" /\ todo = << >>
  BY DEF Init
<1>3. \A n \in Node : db[n] = NoEntry
  BY DEF Init, NoEntries
<1>4. InfoInv
  BY <1>2 DEF InfoInv, Decided
<1>5. SigInv
  <2>1. DOMAIN << >> = {}
    OBVIOUS
  <2>2. ASSUME NEW t \in Target PROVE DOMAIN db[t].sigs = {} /\ db[t].bactsig = 0
    BY <1>3, <2>1, Files, InfoFields
  <2>3. QED
    BY <2>2 DEF SigInv
<1>6. DriftInv
  <2>1. ASSUME NEW n \in Node PROVE OwnSig(n)
    <3>1. db[n].ninfo.timestamp = 0 /\ db[n].ninfo.csig = << >>
      BY <1>3, InfoFields
    <3>2. mtime[n] \in Nat
      BY <1>1, SettingsAssumption DEF Base, TypeOK, Node, Times
    <3>3. n \in Target => content[n] = << >>
      BY Files DEF Init, Node
    <3>4. QED
      BY <1>2, <3>1, <3>2, <3>3 DEF OwnSig
  <2>2. Needed(todo)
    BY <1>2 DEF Needed
  <2>3. QED
    BY <2>1, <2>2 DEF DriftInv
<1>7. QED
  BY <1>1, <1>4, <1>5, <1>6 DEF Exact

LEMMA Naturals ==
  ASSUME TypeOK
  PROVE  /\ \A n \in Node : mtime[n] \in Nat /\ ninfo[n].timestamp \in Nat
                            /\ db[n].ninfo.timestamp \in Nat
         /\ \A t \in Target : \A k \in DOMAIN db[t].sigs : db[t].sigs[k].timestamp \in Nat
         /\ Times \subseteq Nat
<1>1. Times \subseteq Nat
  BY SettingsAssumption DEF Times
<1>2. \A t \in Target : \A k \in DOMAIN db[t].sigs : db[t].sigs[k].timestamp \in Nat
  BY <1>1, SigPlaces, InfoFields
<1>3. QED
  BY <1>1, <1>2, InfoFields DEF TypeOK, Node

\* What was stored of the children stays right when files are written, removed and looked
\* at, because a file that is written gets a time of its own.
LEMMA SigsKept ==
  ASSUME Exact, UNCHANGED <<setting, db>>,
         \A n \in Node : \/ mtime'[n] = mtime[n] /\ content'[n] \in {content[n], << >>}
                         \/ mtime'[n] = mtime[n] + 1,
         \A n \in to_be_merged' :
           (n \in to_be_merged /\ ninfo'[n].timestamp = ninfo[n].timestamp)
             \/ ninfo'[n].timestamp = mtime'[n]
  PROVE  SigInv'
<1>1. ASSUME NEW t \in Target, NEW k \in DOMAIN db[t].sigs
      PROVE  Stored(Deps[t][k], db[t].sigs[k])'
  <2> DEFINE c == Deps[t][k]
             sig == db[t].sigs[k]
  <2>1. c \in Node /\ Stored(c, sig)
    BY SigPlaces DEF Exact, Base, SigInv
  <2>2. sig.timestamp \in Nat /\ mtime[c] \in Nat
    BY <2>1, Naturals DEF Exact, Base
  <2>3. db' = db /\ (Precise' <=> Precise)
    BY DEF Precise
  <2> HIDE DEF c, sig
  <2>4. sig.timestamp <= mtime'[c]
    BY <2>1, <2>2 DEF Stored
  <2>5. c \in to_be_merged' => sig.timestamp <= ninfo'[c].timestamp
    BY <2>1, <2>4 DEF Stored
  <2>6. sig.timestamp = mtime'[c] /\ content'[c] # << >> =>
          mtime'[c] = mtime[c] /\ content'[c] = content[c]
    BY <2>1, <2>2 DEF Stored
  <2>7. sig' = sig /\ c' = c
    BY <2>3 DEF sig, c
  <2>8. Stored(c, sig)'
    BY <2>1, <2>3, <2>4, <2>5, <2>6, <2>7 DEF Stored
  <2>9. QED
    BY <2>8 DEF c, sig
<1>2. QED
  BY <1>1 DEF Exact, SigInv

\* The same of what was stored of the nodes themselves.
LEMMA OwnKept ==
  ASSUME Exact, Trusting, UNCHANGED db, NEW n \in Node,
         \/ mtime'[n] = mtime[n] /\ content'[n] \in {content[n], << >>}
         \/ mtime'[n] = mtime[n] + 1
  PROVE  LET old == db'[n].ninfo
         IN /\ old.timestamp <= mtime'[n]
            /\ old.csig # << >> /\ old.timestamp = mtime'[n] /\ content'[n] # << >> =>
                 old.csig = content'[n]
<1> DEFINE old == db[n].ninfo
<1>1. OwnSig(n)
  BY DEF Exact, DriftInv
<1>2. old.timestamp \in Nat /\ mtime[n] \in Nat
  BY Naturals DEF Exact, Base
<1>3. /\ old.timestamp <= mtime[n]
      /\ old.csig # << >> /\ old.timestamp = mtime[n] /\ content[n] # << >> =>
          old.csig = content[n]
  BY <1>1 DEF OwnSig
<1> HIDE DEF old
<1>4. /\ old.timestamp <= mtime'[n]
      /\ old.csig # << >> /\ old.timestamp = mtime'[n] /\ content'[n] # << >> =>
          old.csig = content'[n]
  BY <1>2, <1>3
<1>5. QED
  BY <1>4 DEF old

\* With settings that use stored signatures of nodes no build is cut short.
LEMMA NotCut ==
  ASSUME Exact, Trusting
  PROVE  /\ ~Allowed("failures") /\ ~Allowed("crashes")
         /\ \A r \in Requests : Needed(r)
         /\ Needed(todo) /\ \A n \in Node : OwnSig(n)
BY DEF Exact, DriftInv, Trusting, Precise, Trustworthy, Allowed

\* A step that neither writes nor looks at a file.
LEMMA ExactKept ==
  ASSUME Exact, Base', UNCHANGED <<setting, content, mtime, db, ninfo, to_be_merged>>,
         edited => edited',
         phase' = "executing" => phase = "executing" /\ todo' = todo,
         Trusting => todo' = todo
  PROVE  Exact'
<1>1. InfoInv'
  <2>1. \A c \in to_be_merged : Known(c)'
    BY DEF Exact, InfoInv, Known, Precise
  <2>2. \A t \in Target : Decided(t)' => Decided(t)
    BY DEF Decided
  <2>3. QED
    BY <2>1, <2>2 DEF Exact, InfoInv, Precise
<1>2. SigInv'
  BY SigsKept
<1>3. DriftInv'
  <2>1. Trustworthy(setting)' /\ (Trusting' <=> Trusting)
    BY DEF Exact, DriftInv, Trusting, Precise
  <2>2. ASSUME Trusting, NEW n \in Node PROVE OwnSig(n)'
    BY <2>2, NotCut DEF OwnSig
  <2>3. Trusting => Needed(todo)'
    BY NotCut
  <2>4. QED
    BY <2>1, <2>2, <2>3 DEF DriftInv
<1>4. QED
  BY <1>1, <1>2, <1>3 DEF Exact

\* What Edit does, taken apart.
LEMMA EditIs ==
  ASSUME Base, NEW s \in Source, NEW value \in 1 .. MaxContent, Edit(s, value)
  PROVE  /\ s \in Node /\ s \notin Target
         /\ content'[s] = <<value>> /\ mtime'[s] = mtime[s] + 1
         /\ \A n \in Node : n # s => content'[n] = content[n] /\ mtime'[n] = mtime[n]
         /\ edited' = TRUE /\ settled' = {}
         /\ UNCHANGED <<setting, command, db, phase, todo, status, ninfo, to_be_merged, requested,
                        recorded>>
<1>1. s \in Node /\ s \in File /\ s \notin Target /\ Node = File
  BY Files DEF File
<1>2. /\ content' = [content EXCEPT ![s] = <<value>>] /\ mtime' = [mtime EXCEPT ![s] = @ + 1]
      /\ content \in [File -> Seq(Nat)] /\ mtime \in [File -> Times]
  BY DEF Edit, Base, TypeOK
<1>3. /\ content'[s] = <<value>> /\ mtime'[s] = mtime[s] + 1
      /\ \A n \in Node : n # s => content'[n] = content[n] /\ mtime'[n] = mtime[n]
  BY <1>1, <1>2
<1>4. edited' = TRUE /\ settled' = {}
  BY DEF Edit, Given
<1>5. UNCHANGED <<setting, command, db, phase, todo, status, ninfo, to_be_merged, requested,
                        recorded>>
  BY DEF Edit, build
<1>6. QED
  BY <1>1, <1>3, <1>4, <1>5

LEMMA ExactEdit ==
  ASSUME Exact, NEW s \in Source, NEW value \in 1 .. MaxContent, Edit(s, value)
  PROVE  Exact'
<1>1. Base /\ Base'
  BY BaseEdit DEF Exact
<1>2. /\ s \in Node /\ s \notin Target
      /\ content'[s] = <<value>> /\ <<value>> # << >> /\ mtime'[s] = mtime[s] + 1
      /\ \A n \in Node : n # s => content'[n] = content[n] /\ mtime'[n] = mtime[n]
      /\ edited' = TRUE
      /\ UNCHANGED <<setting, db, phase, todo, ninfo, to_be_merged>>
  BY <1>1, EditIs
<1>3. \A n \in Node : mtime[n] \in Nat /\ ninfo[n].timestamp \in Nat
  BY <1>1, Naturals DEF Base
<1>4. to_be_merged \subseteq Node
  BY <1>1 DEF Base, TypeOK
<1>5. InfoInv'
  <2>1. ASSUME NEW c \in to_be_merged PROVE Known(c)'
    <3>1. c \in Node /\ Known(c)
      BY <1>4 DEF Exact, InfoInv
    <3>2. CASE c = s
      <4>1. ninfo[c].timestamp < mtime'[c]
        BY <1>2, <1>3, <3>1, <3>2 DEF Known
      <4>2. ninfo'[c].timestamp <= mtime'[c] /\ ninfo'[c].timestamp # mtime'[c]
        BY <1>2, <1>3, <3>1, <4>1
      <4>3. QED
        BY <1>2, <3>1, <3>2, <4>2 DEF Known
    <3>3. CASE c # s
      BY <1>2, <3>1, <3>3 DEF Known, Precise
    <3>4. QED
      BY <3>2, <3>3
  <2>2. QED
    BY <1>2, <2>1 DEF Exact, InfoInv, Decided, Precise
<1>6. SigInv'
  <2>1. \A n \in Node : \/ mtime'[n] = mtime[n] /\ content'[n] \in {content[n], << >>}
                        \/ mtime'[n] = mtime[n] + 1
    BY <1>2
  <2>2. QED
    BY <1>2, <2>1, SigsKept
<1>7. DriftInv'
  <2>1. Trustworthy(setting)' /\ (Trusting' <=> Trusting)
    BY <1>2 DEF Exact, DriftInv, Trusting, Precise
  <2>2. ASSUME Trusting, NEW n \in Node PROVE OwnSig(n)'
    <3>1. OwnSig(n)
      BY <2>2, NotCut
    <3>2. n \in Target => content'[n] = content[n] /\ mtime'[n] = mtime[n]
      BY <1>2
    <3>3. /\ db[n].ninfo.timestamp <= mtime'[n]
          /\ db[n].ninfo.csig # << >> /\ db[n].ninfo.timestamp = mtime'[n] /\ content'[n] # << >> =>
               db[n].ninfo.csig = content'[n]
      BY <1>2, <2>2, OwnKept
    <3>4. QED
      BY <1>2, <3>1, <3>2, <3>3 DEF OwnSig
  <2>3. Trusting => Needed(todo)'
    BY <1>2, NotCut
  <2>4. QED
    BY <2>1, <2>2, <2>3 DEF DriftInv
<1>8. QED
  BY <1>1, <1>5, <1>6, <1>7 DEF Exact

LEMMA ExactStart ==
  ASSUME Exact, NEW request \in Requests, Start(request)
  PROVE  Exact'
<1>1. Base /\ Base'
  BY BaseStart DEF Exact
<1>2. /\ phase = "idle" /\ to_be_merged = {} /\ phase' = "taskmaster" /\ todo' = request
      /\ to_be_merged' = {}
      /\ UNCHANGED <<setting, content, mtime, db>>
  BY <1>1 DEF Start, world, Base, BuildInv
<1>3. InfoInv'
  BY <1>2 DEF InfoInv, Decided
<1>4. SigInv'
  BY <1>2, SigsKept
<1>5. DriftInv'
  <2>1. Trustworthy(setting)' /\ (Trusting' <=> Trusting)
    BY <1>2 DEF Exact, DriftInv, Trusting, Precise
  <2>2. ASSUME Trusting, NEW n \in Node PROVE OwnSig(n)'
    BY <1>2, <2>2, NotCut DEF OwnSig
  <2>3. Trusting => Needed(todo)'
    BY <1>2, NotCut
  <2>4. QED
    BY <2>1, <2>2, <2>3 DEF DriftInv
<1>6. QED
  BY <1>1, <1>3, <1>4, <1>5 DEF Exact

\* What VisitSource does, taken apart.
LEMMA VisitSourceIs ==
  ASSUME Base, VisitSource
  PROVE  /\ phase = "taskmaster" /\ todo # << >>
         /\ Head(todo) \in Source /\ Head(todo) \in Node /\ Head(todo) \notin Target
         /\ Head(todo) \notin to_be_merged
         /\ ninfo'[Head(todo)] = Visited(Head(todo), NoInfo)
         /\ \A n \in Node : n # Head(todo) => ninfo'[n] = ninfo[n]
         /\ to_be_merged' = to_be_merged \cup {Head(todo)} /\ todo' = Tail(todo)
         /\ UNCHANGED <<setting, command, content, mtime, aged, db, phase, status, requested, edited,
                        edits, had, reverted, recorded, settled>>
<1> DEFINE s == Head(todo)
<1>1. /\ phase = "taskmaster" /\ todo # << >> /\ s \in Source /\ s \in Node /\ s \notin Target
      /\ ninfo' = [ninfo EXCEPT ![s] = Visited(s, ninfo[s])]
      /\ to_be_merged' = to_be_merged \cup {s} /\ todo' = Tail(todo)
      /\ UNCHANGED <<setting, command, content, mtime, aged, db, phase, status, requested, edited,
                     edits, had, reverted, recorded, settled>>
  BY Files DEF VisitSource, world, observers, history
<1>2. s \notin to_be_merged
  BY <1>1, QueueHead DEF Base, TypeOK, BuildInv
<1>3. ninfo[s] = NoInfo /\ ninfo \in [Node -> Infos]
  BY <1>1, <1>2 DEF Base, BuildInv, TypeOK
<1> DEFINE info == Visited(s, NoInfo)
<1>4. ninfo' = [ninfo EXCEPT ![s] = info]
  BY <1>1, <1>3
<1> HIDE DEF s, info
<1>5. ninfo'[s] = info /\ \A n \in Node : n # s => ninfo'[n] = ninfo[n]
  BY <1>1, <1>3, <1>4
<1>6. QED
  BY <1>1, <1>2, <1>5 DEF s, info

\* What a node that is visited is known by.
LEMMA VisitedKnown ==
  ASSUME Exact, NEW n \in Node, content[n] # << >>
  PROVE  /\ Visited(n, NoInfo).timestamp = mtime[n] /\ 1 <= mtime[n] /\ mtime[n] <= mtime[n]
         /\ Precise => Visited(n, NoInfo).csig \in {<< >>, content[n]}
<1>1. mtime[n] \in Nat /\ 1 <= mtime[n]
  BY Naturals DEF Exact, Base, FileInv, Node, File
<1>2. Precise => MaxDriftCsig(n) \in {<< >>, content[n]}
  BY DriftCsig
<1>3. NoInfo.csig = << >>
  BY InfoFields
<1>4. QED
  BY <1>1, <1>2, <1>3 DEF Visited

LEMMA NeededHead ==
  ASSUME NEW q \in Seq(Node), q # << >>, Needed(q), Head(q) \in Source
  PROVE  \E t \in ToSet(Tail(q)) \cap Target : Head(q) \in ToSet(Deps[t])
<1> DEFINE r == Tail(q)
<1>1. Len(q) \in Nat \ {0} /\ Head(q) = q[1] /\ r \in Seq(Node) /\ Len(r) = Len(q) - 1
  OBVIOUS
<1>2. PICK j \in 1 + 1 .. Len(q) : q[j] \in Target /\ q[1] \in ToSet(Deps[q[j]])
  BY <1>1 DEF Needed
<1>3. j - 1 \in 1 .. Len(r) /\ r[j - 1] = q[j]
  BY <1>1
<1> HIDE DEF r
<1>4. q[j] \in ToSet(r)
  BY <1>1, <1>3, Membership
<1>5. QED
  BY <1>1, <1>2, <1>4 DEF r

\* What is not at the head stays in the tail.
LEMMA Remains ==
  ASSUME Base, todo # << >>, NEW n \in ToSet(todo), n # Head(todo)
  PROVE  n \in ToSet(Tail(todo))
BY TailElements DEF Base, TypeOK, BuildInv, Queue

LEMMA ExactVisitSource ==
  ASSUME Exact, VisitSource
  PROVE  Exact'
<1> DEFINE s == Head(todo)
<1>1. Base /\ Base'
  BY BaseVisitSource DEF Exact
<1>2. /\ phase = "taskmaster" /\ todo # << >> /\ s \in Source /\ s \in Node /\ s \notin Target
      /\ s \notin to_be_merged
      /\ ninfo'[s] = Visited(s, NoInfo)
      /\ \A n \in Node : n # s => ninfo'[n] = ninfo[n]
      /\ to_be_merged' = to_be_merged \cup {s} /\ todo' = Tail(todo)
      /\ UNCHANGED <<setting, content, mtime, db, phase, edited>>
  BY <1>1, VisitSourceIs
<1>3. content[s] # << >>
  <2>1. PICK v \in had[s] : content[s] = <<v>>
    BY <1>1, <1>2 DEF Base, FileInv
  <2>2. QED
    BY <2>1
<1>4. /\ ninfo'[s].timestamp = mtime[s] /\ 1 <= mtime[s] /\ mtime[s] <= mtime[s]
      /\ Precise => ninfo'[s].csig \in {<< >>, content[s]}
  BY <1>2, <1>3, VisitedKnown
<1> HIDE DEF s
<1>5. to_be_merged \subseteq Node /\ \A n \in to_be_merged : n # s
  BY <1>1, <1>2 DEF Base, TypeOK
<1>6. InfoInv'
  <2>1. \A c \in to_be_merged : Known(c)'
    BY <1>2, <1>5 DEF Exact, InfoInv, Known, Precise
  <2>2. ASSUME NEW n \in {s} PROVE Known(n)'
    BY <1>2, <1>3, <1>4 DEF Known, Precise
  <2>3. ASSUME NEW t \in Target, Decided(t)' PROVE t \in to_be_merged
    BY <1>2, <2>3 DEF Decided
  <2>4. ASSUME Precise, NEW t \in to_be_merged \cap Target, NEW c \in ToSet(Deps[t])
        PROVE  ninfo'[c].csig # << >>
    BY <1>1, <1>2, <1>5, <2>4 DEF Exact, InfoInv, Base, BuildInv, Decided
  <2>5. Precise' <=> Precise
    BY <1>2 DEF Precise
  <2>6. QED
    BY <1>2, <2>1, <2>2, <2>3, <2>4, <2>5 DEF InfoInv
<1>7. SigInv'
  BY <1>2, <1>4, <1>5, SigsKept
<1>8. DriftInv'
  <2>1. Trustworthy(setting)' /\ (Trusting' <=> Trusting)
    BY <1>2 DEF Exact, DriftInv, Trusting, Precise
  <2>2. todo \in Seq(Node)
    BY <1>1 DEF Base, TypeOK
  <2>3. ASSUME Trusting, NEW n \in Node PROVE OwnSig(n)'
    <3>1. OwnSig(n) /\ Needed(todo)
      BY <2>3, NotCut
    <3>2. ASSUME n \in to_be_merged', ninfo'[n].csig = << >>, n \in Source
          PROVE  \E t \in ToSet(todo') \cap Target : n \in ToSet(Deps[t])
      <4>1. CASE n = s
        BY <1>2, <2>2, <3>1, <4>1, NeededHead DEF s
      <4>2. CASE n # s
        <5>1. PICK t \in ToSet(todo) \cap Target : n \in ToSet(Deps[t])
          BY <1>2, <3>1, <3>2, <4>2 DEF OwnSig
        <5>2. t \in ToSet(todo')
          BY <1>1, <1>2, Remains DEF s
        <5>3. QED
          BY <5>1, <5>2
      <4>3. QED
        BY <4>1, <4>2
    <3>3. n \in Target => n # s
      BY <1>2
    <3>4. n \in Target /\ n \in to_be_merged' /\ ninfo'[n].csig = << >> =>
            db'[n].ninfo.timestamp = ninfo'[n].timestamp
      BY <1>2, <3>1, <3>3 DEF OwnSig
    <3>5. QED
      BY <1>2, <3>1, <3>2, <3>4 DEF OwnSig
  <2>4. Trusting => Needed(todo)'
    BY <1>2, <2>2, NotCut, NeededTail
  <2>5. QED
    BY <2>1, <2>3, <2>4 DEF DriftInv
<1>9. QED
  BY <1>1, <1>6, <1>7, <1>8 DEF Exact

\* What is known after the children of a target were looked at.
LEMMA LookKnown ==
  ASSUME Exact, todo # << >>, Head(todo) \in Target, NEW c \in to_be_merged
  PROVE  LET new == AfterChanged(Head(todo))[c]
         IN /\ new.timestamp = ninfo[c].timestamp
            /\ Precise /\ ninfo[c].timestamp = mtime[c] => new.csig \in {<< >>, content[c]}
            /\ Precise /\ c \in ToSet(Deps[Head(todo)]) => new.csig # << >>
            /\ Precise /\ new.csig = << >> => ninfo[c].csig = << >>
            /\ c \notin ToSet(Deps[Head(todo)]) => new = ninfo[c]
<1> DEFINE t == Head(todo)
           new == AfterChanged(t)[c]
<1>1. c \in Node /\ Known(c) /\ TypeOK
  BY DEF Exact, Base, TypeOK, InfoInv
<1>2. new.timestamp = ninfo[c].timestamp /\ (c \notin ToSet(Deps[t]) => new = ninfo[c])
  BY <1>1, LookEffect
<1>3. CASE c \in ToSet(Deps[t])
  BY <1>2, <1>3, LookSays
<1>4. CASE c \notin ToSet(Deps[t])
  <2>1. new = ninfo[c]
    BY <1>2, <1>4
  <2>2. Precise /\ ninfo[c].timestamp = mtime[c] => ninfo[c].csig \in {<< >>, content[c]}
    BY <1>1 DEF Known
  <2> HIDE DEF new
  <2>3. /\ Precise /\ ninfo[c].timestamp = mtime[c] => new.csig \in {<< >>, content[c]}
        /\ Precise /\ new.csig = << >> => ninfo[c].csig = << >>
    BY <2>1, <2>2
  <2>4. QED
    BY <1>2, <1>4, <2>3 DEF new
<1>5. QED
  BY <1>3, <1>4

LEMMA ExactUpToDate ==
  ASSUME Exact, UpToDate
  PROVE  Exact'
<1> DEFINE t == Head(todo)
           new == AfterChanged(t)
<1>1. Base /\ Base'
  BY BaseUpToDate DEF Exact
<1>2. /\ phase = "taskmaster" /\ todo # << >> /\ t \in Target /\ t \in Node /\ t \notin Source
      /\ content[t] # << >>
      /\ ninfo'[t] = Visited(t, new[t])
      /\ \A n \in Node : n # t => ninfo'[n] = new[n]
      /\ to_be_merged' = to_be_merged \cup {t} /\ todo' = Tail(todo)
      /\ UNCHANGED <<setting, content, mtime, db, phase, edited>>
  BY <1>1, UpToDateIs, Files
<1>3. t \notin to_be_merged /\ t \notin ToSet(Deps[t]) /\ ToSet(Deps[t]) \subseteq to_be_merged
  BY <1>1, <1>2, QueueHead DEF Base, TypeOK, BuildInv
<1>4. new[t] = NoInfo
  BY <1>1, <1>2, <1>3, LookEffect DEF Base, BuildInv
<1>5. /\ ninfo'[t].timestamp = mtime[t] /\ 1 <= mtime[t] /\ mtime[t] <= mtime[t]
      /\ Precise => ninfo'[t].csig \in {<< >>, content[t]}
  BY <1>2, <1>4, VisitedKnown
<1>6. to_be_merged \subseteq Node /\ \A n \in to_be_merged : n # t
  BY <1>1, <1>3 DEF Base, TypeOK
<1>7. ASSUME NEW c \in to_be_merged
      PROVE  /\ c \in Node /\ c # t /\ Known(c)
             /\ ninfo'[c].timestamp = ninfo[c].timestamp
             /\ Precise /\ ninfo[c].timestamp = mtime[c] => ninfo'[c].csig \in {<< >>, content[c]}
             /\ Precise /\ c \in ToSet(Deps[t]) => ninfo'[c].csig # << >>
             /\ Precise /\ ninfo'[c].csig = << >> => ninfo[c].csig = << >>
  BY <1>2, <1>6, LookKnown DEF Exact, InfoInv
<1> HIDE DEF t, new
<1>8. Precise' <=> Precise
  BY <1>2 DEF Precise
<1>9. InfoInv'
  <2>1. \A c \in to_be_merged : Known(c)'
    BY <1>2, <1>7, <1>8 DEF Known
  <2>2. ASSUME NEW n \in {t} PROVE Known(n)'
    BY <1>2, <1>5, <1>8 DEF Known
  <2>3. ASSUME NEW u \in Target, Decided(u)' PROVE u \in to_be_merged \cup {t}
    BY <1>2, <2>3 DEF Decided
  <2>4. ASSUME Precise, NEW u \in to_be_merged \cap Target, NEW c \in ToSet(Deps[u])
        PROVE  ninfo'[c].csig # << >>
    <3>1. c \in to_be_merged /\ ninfo[c].csig # << >>
      BY <1>1, <2>4 DEF Exact, InfoInv, Base, BuildInv, Decided
    <3>2. QED
      BY <1>7, <2>4, <3>1
  <2>5. ASSUME Precise, NEW c \in ToSet(Deps[t]) PROVE ninfo'[c].csig # << >>
    BY <1>3, <1>7, <2>5
  <2>6. QED
    BY <1>2, <1>8, <2>1, <2>2, <2>3, <2>4, <2>5 DEF InfoInv
<1>10. SigInv'
  BY <1>2, <1>5, <1>7, SigsKept
<1>11. DriftInv'
  <2>1. Trustworthy(setting)' /\ (Trusting' <=> Trusting)
    BY <1>2 DEF Exact, DriftInv, Trusting, Precise
  <2>2. todo \in Seq(Node)
    BY <1>1 DEF Base, TypeOK
  <2>3. ASSUME Trusting, NEW n \in Node PROVE OwnSig(n)'
    <3>1. OwnSig(n) /\ Precise
      BY <2>3, NotCut DEF Trusting
    <3>2. ASSUME n \in to_be_merged', ninfo'[n].csig = << >>, n \in Source
          PROVE  \E u \in ToSet(todo') \cap Target : n \in ToSet(Deps[u])
      <4>1. n \in to_be_merged /\ n \notin ToSet(Deps[t]) /\ ninfo[n].csig = << >>
        BY <1>2, <1>7, <3>1, <3>2
      <4>2. PICK u \in ToSet(todo) \cap Target : n \in ToSet(Deps[u])
        BY <3>1, <3>2, <4>1 DEF OwnSig
      <4>3. u \in ToSet(todo')
        BY <1>1, <1>2, <4>1, <4>2, Remains DEF t
      <4>4. QED
        BY <4>2, <4>3
    <3>3. ASSUME n \in Target, n \in to_be_merged', ninfo'[n].csig = << >>
          PROVE  db'[n].ninfo.timestamp = ninfo'[n].timestamp
      <4>1. CASE n = t
        BY <1>2, <1>3, <1>5, <3>1, <4>1 DEF OwnSig
      <4>2. CASE n # t
        BY <1>2, <1>7, <3>1, <3>3, <4>2 DEF OwnSig
      <4>3. QED
        BY <4>1, <4>2
    <3>4. QED
      BY <1>2, <3>1, <3>2, <3>3 DEF OwnSig
  <2>4. Trusting => Needed(todo)'
    BY <1>2, <2>2, NotCut, NeededTail
  <2>5. QED
    BY <2>1, <2>3, <2>4 DEF DriftInv
<1>12. QED
  BY <1>1, <1>9, <1>10, <1>11 DEF Exact

LEMMA ExactOutOfDate ==
  ASSUME Exact, OutOfDate
  PROVE  Exact'
<1> DEFINE t == Head(todo)
           new == AfterChanged(t)
<1>1. Base /\ Base'
  BY BaseOutOfDate DEF Exact
<1>2. /\ phase = "taskmaster" /\ todo # << >> /\ t \in Target /\ t \in Node /\ t \notin Source
      /\ ninfo' = new
      /\ content'[t] = << >> /\ \A n \in Node : n # t => content'[n] = content[n]
      /\ UNCHANGED <<setting, mtime, db, todo, to_be_merged, edited>>
  BY <1>1, OutOfDateIs, Files
<1>3. t \notin to_be_merged /\ t \notin ToSet(Deps[t]) /\ ToSet(Deps[t]) \subseteq to_be_merged
  BY <1>1, <1>2, QueueHead DEF Base, TypeOK, BuildInv
<1>4. to_be_merged \subseteq Node /\ \A n \in to_be_merged : n # t
  BY <1>1, <1>3 DEF Base, TypeOK
<1>5. ASSUME NEW c \in to_be_merged
      PROVE  /\ c \in Node /\ c # t /\ Known(c)
             /\ ninfo'[c].timestamp = ninfo[c].timestamp
             /\ Precise /\ ninfo[c].timestamp = mtime[c] => ninfo'[c].csig \in {<< >>, content[c]}
             /\ Precise /\ c \in ToSet(Deps[t]) => ninfo'[c].csig # << >>
             /\ Precise /\ ninfo'[c].csig = << >> => ninfo[c].csig = << >>
  BY <1>2, <1>4, LookKnown DEF Exact, InfoInv
<1>6. Decided(t)' /\ \A u \in Target : Decided(u)' => u \in to_be_merged \cup {t}
  BY <1>2 DEF Decided, OutOfDate
<1> HIDE DEF t, new
<1>7. Precise' <=> Precise
  BY <1>2 DEF Precise
<1>8. InfoInv'
  <2>1. \A c \in to_be_merged : Known(c)'
    BY <1>2, <1>5, <1>7 DEF Known
  <2>2. ASSUME Precise, NEW u \in to_be_merged \cap Target, NEW c \in ToSet(Deps[u])
        PROVE  ninfo'[c].csig # << >>
    <3>1. c \in to_be_merged /\ ninfo[c].csig # << >>
      BY <1>1, <2>2 DEF Exact, InfoInv, Base, BuildInv, Decided
    <3>2. QED
      BY <1>5, <2>2, <3>1
  <2>3. ASSUME Precise, NEW c \in ToSet(Deps[t]) PROVE ninfo'[c].csig # << >>
    BY <1>3, <1>5, <2>3
  <2>4. QED
    BY <1>2, <1>6, <1>7, <2>1, <2>2, <2>3 DEF InfoInv
<1>9. SigInv'
  <2>1. \A n \in Node : mtime'[n] = mtime[n] /\ content'[n] \in {content[n], << >>}
    BY <1>2
  <2>2. QED
    BY <1>2, <1>5, <2>1, SigsKept
<1>10. DriftInv'
  <2>1. Trustworthy(setting)' /\ (Trusting' <=> Trusting)
    BY <1>2 DEF Exact, DriftInv, Trusting, Precise
  <2>2. ASSUME Trusting, NEW n \in Node PROVE OwnSig(n)'
    <3>1. OwnSig(n) /\ Precise
      BY <2>2, NotCut DEF Trusting
    <3>2. n = t => content'[n] = << >>
      BY <1>2
    <3>3. n \in to_be_merged => ninfo'[n].timestamp = ninfo[n].timestamp
      BY <1>5
    <3>4. n \in to_be_merged /\ ninfo'[n].csig = << >> => ninfo[n].csig = << >>
      BY <1>5, <3>1
    <3>5. CASE n = t
      BY <1>2, <1>3, <3>1, <3>2, <3>5 DEF OwnSig
    <3>6. CASE n # t
      BY <1>2, <3>1, <3>3, <3>4, <3>6 DEF OwnSig
    <3>7. QED
      BY <3>5, <3>6
  <2>3. Trusting => Needed(todo)'
    BY <1>2, NotCut
  <2>4. QED
    BY <2>1, <2>2, <2>3 DEF DriftInv
<1>11. QED
  BY <1>1, <1>8, <1>9, <1>10 DEF Exact

LEMMA ExactExecuted ==
  ASSUME Exact, Executed
  PROVE  Exact'
<1> DEFINE t == Head(todo)
<1>1. Base /\ Base'
  BY BaseExecuted DEF Exact
<1>2. /\ phase = "executing" /\ phase' = "taskmaster" /\ todo # << >>
      /\ t \in Target /\ t \in Node /\ t \notin Source
      /\ mtime'[t] = mtime[t] + 1 /\ mtime[t] \in Nat
      /\ content'[t] = Made(t)
      /\ \A n \in Node : n # t => content'[n] = content[n] /\ mtime'[n] = mtime[n]
      /\ ninfo'[t].timestamp = mtime'[t]
      /\ \A n \in Node : n # t => ninfo'[n] = ninfo[n]
      /\ to_be_merged' = to_be_merged \cup {t} /\ todo' = Tail(todo)
      /\ UNCHANGED <<setting, db, edited>>
  BY <1>1, ExecutedIs, Files
<1>3. t \notin to_be_merged /\ t \notin ToSet(Deps[t]) /\ ToSet(Deps[t]) \subseteq to_be_merged
  BY <1>1, <1>2, QueueHead DEF Base, TypeOK, BuildInv
<1>4. Made(t) # << >>
  BY <1>1, <1>2, MadeIs
<1>5. Precise => setting.max_drift # "zero"
  BY DEF Exact, DriftInv, Trustworthy, Precise
<1>6. Precise => ninfo'[t].csig = content'[t]
  BY <1>1, <1>2, <1>5, ExecutedIs
<1>7. to_be_merged \subseteq Node /\ \A n \in to_be_merged : n # t
  BY <1>1, <1>3 DEF Base, TypeOK
<1>8. Decided(t) /\ \A u \in Target : Decided(u)' => u \in to_be_merged \cup {t}
  BY <1>2 DEF Decided
<1>9. 1 <= mtime'[t] /\ mtime'[t] <= mtime'[t]
  BY <1>2
<1> HIDE DEF t
<1>10. Precise' <=> Precise
  BY <1>2 DEF Precise
<1>11. InfoInv'
  <2>1. ASSUME NEW c \in to_be_merged PROVE Known(c)'
    <3>1. c \in Node /\ c # t /\ Known(c)
      BY <1>7 DEF Exact, InfoInv
    <3>2. ninfo'[c] = ninfo[c] /\ content'[c] = content[c] /\ mtime'[c] = mtime[c]
      BY <1>2, <3>1
    <3>3. QED
      BY <1>2, <1>10, <3>1, <3>2 DEF Known
  <2>2. ASSUME NEW n \in {t} PROVE Known(n)'
    BY <1>2, <1>4, <1>6, <1>9, <1>10 DEF Known
  <2>3. ASSUME Precise, NEW u \in to_be_merged \cup {t}, u \in Target, NEW c \in ToSet(Deps[u])
        PROVE  ninfo'[c].csig # << >>
    <3>1. c \in to_be_merged /\ ninfo[c].csig # << >>
      BY <1>1, <1>3, <1>8, <2>3 DEF Exact, InfoInv, Base, BuildInv, Decided
    <3>2. QED
      BY <1>2, <1>7, <3>1
  <2>4. QED
    BY <1>2, <1>8, <1>10, <2>1, <2>2, <2>3 DEF InfoInv
<1>12. SigInv'
  <2>1. \A n \in Node : \/ mtime'[n] = mtime[n] /\ content'[n] \in {content[n], << >>}
                        \/ mtime'[n] = mtime[n] + 1
    BY <1>2
  <2>2. \A n \in to_be_merged' :
           (n \in to_be_merged /\ ninfo'[n].timestamp = ninfo[n].timestamp)
             \/ ninfo'[n].timestamp = mtime'[n]
    BY <1>2, <1>7
  <2>3. QED
    BY <1>2, <2>1, <2>2, SigsKept
<1>13. DriftInv'
  <2>1. Trustworthy(setting)' /\ (Trusting' <=> Trusting)
    BY <1>2 DEF Exact, DriftInv, Trusting, Precise
  <2>2. todo \in Seq(Node)
    BY <1>1 DEF Base, TypeOK
  <2>3. ASSUME Trusting, NEW n \in Node PROVE OwnSig(n)'
    <3>1. OwnSig(n) /\ Precise
      BY <2>3, NotCut DEF Trusting
    <3>2. /\ db'[n].ninfo.timestamp <= mtime'[n]
          /\ db'[n].ninfo.csig # << >> /\ db'[n].ninfo.timestamp = mtime'[n] /\ content'[n] # << >> =>
               db'[n].ninfo.csig = content'[n]
      BY <1>2, <2>3, OwnKept
    <3>3. ASSUME n = t PROVE n \in to_be_merged' /\ ninfo'[n].csig # << >>
      BY <1>2, <1>4, <1>6, <3>1, <3>3
    <3>4. ASSUME n # t, n \in to_be_merged', ninfo'[n].csig = << >>, n \in Source
          PROVE  \E u \in ToSet(todo') \cap Target : n \in ToSet(Deps[u])
      <4>1. n \in to_be_merged /\ ninfo[n].csig = << >>
        BY <1>2, <3>4
      <4>2. n \notin ToSet(Deps[t])
        BY <1>2, <1>8, <3>1, <4>1 DEF Exact, InfoInv
      <4>3. PICK u \in ToSet(todo) \cap Target : n \in ToSet(Deps[u])
        BY <3>1, <3>4, <4>1 DEF OwnSig
      <4>4. u \in ToSet(todo')
        BY <1>1, <1>2, <4>2, <4>3, Remains DEF t
      <4>5. QED
        BY <4>3, <4>4
    <3>5. CASE n = t
      BY <3>2, <3>3, <3>5 DEF OwnSig
    <3>6. CASE n # t
      <4>1. /\ content'[n] = content[n] /\ mtime'[n] = mtime[n] /\ ninfo'[n] = ninfo[n]
            /\ n \in to_be_merged' <=> n \in to_be_merged
        BY <1>2, <3>6
      <4>2. QED
        BY <1>2, <3>1, <3>4, <3>6, <4>1 DEF OwnSig
    <3>7. QED
      BY <3>5, <3>6
  <2>4. Trusting => Needed(todo)'
    BY <1>2, <2>2, NotCut, NeededTail
  <2>5. QED
    BY <2>1, <2>3, <2>4 DEF DriftInv
<1>14. QED
  BY <1>1, <1>11, <1>12, <1>13 DEF Exact

\* What Fails does, taken apart.
LEMMA FailsIs ==
  ASSUME Base, Fails
  PROVE  /\ phase = "executing" /\ phase' = "writing" /\ todo # << >> /\ todo' = << >>
         /\ status' = "failed" /\ Allowed("failures")
         /\ Head(todo) \in Target /\ Head(todo) \in Node /\ Head(todo) \notin to_be_merged
         /\ mtime[Head(todo)] \in Nat
         /\ \A n \in Node : n # Head(todo) => content'[n] = content[n] /\ mtime'[n] = mtime[n]
         /\ \/ content'[Head(todo)] = <<0>> /\ mtime'[Head(todo)] = mtime[Head(todo)] + 1
            \/ content'[Head(todo)] = content[Head(todo)] /\ mtime'[Head(todo)] = mtime[Head(todo)]
         /\ UNCHANGED <<setting, command, db, ninfo, to_be_merged, requested, edited, edits, had,
                        reverted, recorded, settled>>
<1> DEFINE t == Head(todo)
<1>1. /\ phase = "executing" /\ phase' = "writing" /\ todo' = << >>
      /\ status' = "failed" /\ Allowed("failures")
      /\ Written(t, <<0>>) \/ UNCHANGED <<content, mtime, aged>>
      /\ UNCHANGED <<setting, command, db, ninfo, to_be_merged, requested, edited, edits, had,
                     reverted, recorded, settled>>
  BY DEF Fails, Finish, observers, history
<1>2. /\ todo # << >> /\ t \in Target /\ t \in Node /\ t \notin to_be_merged
      /\ mtime[t] < MaxWrites
  BY <1>1, QueueHead DEF Base, TypeOK, BuildInv
<1>3. mtime[t] \in Nat
  BY <1>2, Naturals DEF Base
<1>4. CASE Written(t, <<0>>)
  <2> HIDE DEF t
  <2>1. <<0>> \in Seq(Nat) /\ <<0>> # << >>
    OBVIOUS
  <2>2. PICK c \in Seq(Nat) : c = <<0>> /\ c # << >>
    BY <2>1
  <2>3. Written(t, c)
    BY <1>4, <2>2
  <2>4. /\ content'[t] = c /\ mtime'[t] = mtime[t] + 1
        /\ \A n \in Node : n # t => content'[n] = content[n] /\ mtime'[n] = mtime[n]
    BY <1>2, <2>2, <2>3, WrittenIs
  <2>5. QED
    BY <1>1, <1>2, <1>3, <2>2, <2>4 DEF t
<1>5. CASE UNCHANGED <<content, mtime, aged>>
  BY <1>1, <1>2, <1>3, <1>5
<1>6. QED
  BY <1>1, <1>4, <1>5

LEMMA ExactFails ==
  ASSUME Exact, Fails
  PROVE  Exact'
<1> DEFINE t == Head(todo)
<1>1. Base /\ Base'
  BY BaseFails DEF Exact
<1>2. /\ phase' = "writing" /\ Allowed("failures") /\ t \in Node /\ t \notin to_be_merged
      /\ \A n \in Node : n # t => content'[n] = content[n] /\ mtime'[n] = mtime[n]
      /\ \/ mtime'[t] = mtime[t] + 1
         \/ content'[t] = content[t] /\ mtime'[t] = mtime[t]
      /\ UNCHANGED <<setting, db, ninfo, to_be_merged, edited>>
  BY <1>1, FailsIs
<1>3. to_be_merged \subseteq Node /\ \A n \in to_be_merged : n # t
  BY <1>1, <1>2 DEF Base, TypeOK
<1> HIDE DEF t
<1>4. InfoInv'
  <2>1. ASSUME NEW c \in to_be_merged PROVE Known(c)'
    <3>1. content'[c] = content[c] /\ mtime'[c] = mtime[c] /\ Known(c)
      BY <1>2, <1>3 DEF Exact, InfoInv
    <3>2. QED
      BY <1>2, <3>1 DEF Known, Precise
  <2>2. \A u \in Target : Decided(u)' => Decided(u)
    BY <1>2 DEF Decided
  <2>3. QED
    BY <1>2, <2>1, <2>2 DEF Exact, InfoInv, Precise
<1>5. SigInv'
  <2>1. \A n \in Node : \/ mtime'[n] = mtime[n] /\ content'[n] \in {content[n], << >>}
                        \/ mtime'[n] = mtime[n] + 1
    BY <1>2
  <2>2. QED
    BY <1>2, <2>1, SigsKept
<1>6. DriftInv'
  BY <1>2, NotCut DEF Exact, DriftInv, Trusting, Precise
<1>7. QED
  BY <1>1, <1>4, <1>5, <1>6 DEF Exact

\* What is stored now of a child that was handled.
LEMMA StoredNow ==
  ASSUME Exact, NEW t \in to_be_merged \cap Target, NEW k \in DOMAIN Deps[t]
  PROVE  /\ t \in Node /\ Deps[t][k] \in to_be_merged /\ Deps[t][k] \in Node
         /\ DOMAIN Entry(t).sigs = DOMAIN Deps[t]
         /\ Entry(t).sigs[k] = ninfo[Deps[t][k]]
         /\ Stored(Deps[t][k], ninfo[Deps[t][k]])
<1> DEFINE c == Deps[t][k]
<1>1. t \in Node /\ c \in ToSet(Deps[t]) /\ c \in Node /\ DOMAIN Deps[t] = 1 .. Len(Deps[t])
  BY Files
<1>2. c \in to_be_merged
  BY <1>1 DEF Exact, Base, BuildInv
<1>3. Entry(t) \in Entries /\ Len(Entry(t).sigs) = Len(Deps[t]) /\ Entry(t).sigs[k] = ninfo[c]
  BY <1>1, EntryIs DEF Exact
<1>4. DOMAIN Entry(t).sigs = DOMAIN Deps[t]
  <2>1. Entry(t).sigs \in Seq(Infos)
    BY <1>3, InfoFields
  <2>2. DOMAIN Entry(t).sigs = 1 .. Len(Entry(t).sigs)
    BY <2>1
  <2>3. QED
    BY <1>1, <1>3, <2>2
<1>5. Stored(c, ninfo[c])
  <2>1. Known(c) /\ (Precise => ninfo[c].csig # << >>)
    BY <1>1, <1>2 DEF Exact, InfoInv, Decided
  <2>2. ninfo[c].timestamp <= ninfo[c].timestamp
    BY <1>1, Naturals DEF Exact, Base
  <2> HIDE DEF c
  <2>3. QED
    BY <2>1, <2>2 DEF Stored, Known
<1>6. QED
  BY <1>1, <1>2, <1>3, <1>4, <1>5

LEMMA ExactRename ==
  ASSUME Exact, Rename
  PROVE  Exact'
<1>1. Base /\ Base'
  BY BaseRename DEF Exact
<1>2. /\ phase' = "idle" /\ to_be_merged' = {} /\ todo = << >> /\ todo' = << >>
      /\ \A n \in Node : db'[n] = Entry(n)
      /\ UNCHANGED <<setting, content, mtime>>
  BY <1>1, RenameIs
<1>3. InfoInv'
  BY <1>2 DEF InfoInv, Decided
<1>4. SigInv'
  <2>1. ASSUME NEW t \in Target
        PROVE  /\ db'[t].bactsig # 0 => Len(db'[t].sigs) = Len(Deps[t])
               /\ \A k \in DOMAIN db'[t].sigs :
                    /\ Stored(Deps[t][k], db'[t].sigs[k])
                    /\ \A j \in DOMAIN db'[t].sigs :
                         Deps[t][j] = Deps[t][k] => db'[t].sigs[j] = db'[t].sigs[k]
    <3>1. t \in Node /\ db'[t] = Entry(t)
      BY <1>2, Files
    <3>2. CASE t \in to_be_merged
      <4>1. Len(Entry(t).sigs) = Len(Deps[t])
        BY <1>1, <3>1, <3>2, EntryIs
      <4>2. DOMAIN Entry(t).sigs = DOMAIN Deps[t]
        <5>1. Entry(t).sigs \in Seq(Infos) /\ Deps[t] \in Seq(Node)
          BY <1>1, <3>1, EntryIs, InfoFields, Files
        <5>2. DOMAIN Entry(t).sigs = 1 .. Len(Entry(t).sigs) /\ DOMAIN Deps[t] = 1 .. Len(Deps[t])
          BY <5>1
        <5>3. QED
          BY <4>1, <5>2
      <4>3. \A k \in DOMAIN Deps[t] :
              Entry(t).sigs[k] = ninfo[Deps[t][k]] /\ Stored(Deps[t][k], Entry(t).sigs[k])
        BY <3>2, StoredNow
      <4>4. QED
        BY <3>1, <4>1, <4>2, <4>3
    <3>3. CASE t \notin to_be_merged
      <4>1. Entry(t) = db[t]
        BY <1>1, <3>1, <3>3, EntryIs
      <4>2. QED
        BY <3>1, <4>1 DEF Exact, SigInv
    <3>4. QED
      BY <3>2, <3>3
  <2>2. ASSUME NEW c, NEW sig, Stored(c, sig)
        PROVE  /\ sig.timestamp <= mtime'[c]
               /\ Precise' =>
                   /\ sig.csig # << >>
                   /\ sig.timestamp = mtime'[c] /\ content'[c] # << >> => sig.csig = content'[c]
    BY <1>2, <2>2 DEF Stored, Precise
  <2>3. QED
    BY <1>2, <2>1, <2>2 DEF SigInv, Stored
<1>5. DriftInv'
  <2>1. Trustworthy(setting)' /\ (Trusting' <=> Trusting)
    BY <1>2 DEF Exact, DriftInv, Trusting, Precise
  <2>2. ASSUME Trusting, NEW n \in Node PROVE OwnSig(n)'
    <3>1. OwnSig(n) /\ Precise
      BY <2>2, NotCut DEF Trusting
    <3> DEFINE old == db[n].ninfo
               now == Entry(n).ninfo
    <3>2. db'[n].ninfo = now
      BY <1>2
    <3>3. CASE n \in to_be_merged
      <4>1. now = Merged(old, ninfo[n]) /\ Known(n)
        BY <1>1, <3>3, EntryIs DEF Exact, InfoInv
      <4>2. /\ now.timestamp = ninfo[n].timestamp
            /\ now.csig = IF ninfo[n].csig # << >> THEN ninfo[n].csig ELSE old.csig
        BY <4>1 DEF Merged
      <4>3. ninfo[n].csig = << >> => n \in Target /\ old.timestamp = ninfo[n].timestamp
        <5>1. ToSet(todo) = {}
          BY <1>2 DEF ToSet
        <5>2. QED
          BY <3>1, <3>3, <5>1, Files DEF OwnSig, Node, File
      <4>4. n \in Target => ninfo[n].timestamp = mtime[n]
        BY <4>1 DEF Known
      <4> HIDE DEF old, now
      <4>5. now.timestamp <= mtime[n]
        BY <4>1, <4>2 DEF Known
      <4>6. now.csig # << >> /\ now.timestamp = mtime[n] /\ content[n] # << >> =>
              now.csig = content[n]
        <5>1. CASE ninfo[n].csig = << >>
          BY <3>1, <4>2, <4>3, <5>1 DEF OwnSig, old
        <5>2. CASE ninfo[n].csig # << >>
          BY <3>1, <4>1, <4>2, <5>2 DEF Known
        <5>3. QED
          BY <5>1, <5>2
      <4>7. QED
        BY <1>2, <3>2, <4>2, <4>4, <4>5, <4>6 DEF OwnSig
    <3>4. CASE n \notin to_be_merged
      <4>1. now = old
        BY <1>1, <3>4, EntryIs
      <4> HIDE DEF now
      <4>2. QED
        BY <1>2, <3>1, <3>2, <3>4, <4>1 DEF OwnSig
    <3>5. QED
      BY <3>3, <3>4
  <2>3. Trusting => Needed(todo)'
    BY <1>2, NotCut
  <2>4. QED
    BY <2>1, <2>2, <2>3 DEF DriftInv
<1>6. QED
  BY <1>1, <1>3, <1>4, <1>5 DEF Exact

LEMMA ExactCrash ==
  ASSUME Exact, Crash
  PROVE  Exact'
<1>1. Base /\ Base'
  BY BaseCrash DEF Exact
<1>2. /\ phase' = "idle" /\ to_be_merged' = {} /\ Allowed("crashes")
      /\ db' = db \/ \A n \in Node : db'[n] = NoEntry
      /\ UNCHANGED <<setting, content, mtime>>
  BY <1>1, CrashIs
<1>3. InfoInv'
  BY <1>2 DEF InfoInv, Decided
<1>4. SigInv'
  <2>1. CASE db' = db
    BY <1>2, <2>1, SigsKept
  <2>2. CASE \A n \in Node : db'[n] = NoEntry
    <3>1. DOMAIN << >> = {}
      OBVIOUS
    <3>2. ASSUME NEW t \in Target PROVE DOMAIN db'[t].sigs = {} /\ db'[t].bactsig = 0
      BY <2>2, <3>1, Files, InfoFields
    <3>3. QED
      BY <3>2 DEF SigInv
  <2>3. QED
    BY <1>2, <2>1, <2>2
<1>5. DriftInv'
  BY <1>2, NotCut DEF Exact, DriftInv, Trusting, Precise
<1>6. QED
  BY <1>1, <1>3, <1>4, <1>5 DEF Exact

LEMMA ExactQuiet ==
  ASSUME Exact, Age \/ EditCommand \/ Interrupt \/ Done \/ Unlink \/ UNCHANGED vars
  PROVE  Exact'
<1>1. Base' /\ BOOLEAN = {TRUE, FALSE}
  BY BaseAge, BaseCommand, BaseStops, BaseUnlink, BaseStep DEF Exact
<1>2. CASE Age \/ Unlink \/ UNCHANGED vars
  <2>1. /\ UNCHANGED <<setting, content, mtime, db, ninfo, to_be_merged, edited, todo>>
        /\ phase' = "executing" => phase = "executing"
    BY <1>2 DEF Age, Unlink, vars, world, build, observers, history
  <2>2. QED
    BY <1>1, <2>1, ExactKept
<1>3. CASE EditCommand
  <2>1. UNCHANGED <<setting, content, mtime, db, ninfo, to_be_merged, todo, phase>> /\ edited'
    BY <1>3 DEF EditCommand, Given, build
  <2>2. QED
    BY <1>1, <2>1, ExactKept
<1>4. CASE Interrupt \/ Done
  <2>1. /\ UNCHANGED <<setting, content, mtime, db, ninfo, to_be_merged, edited>>
        /\ phase' = "writing" /\ todo' = << >>
        /\ Allowed("failures") \/ todo = << >>
    BY <1>4 DEF Interrupt, Done, Finish, world, observers, history
  <2>2. Trusting => todo' = todo
    BY <2>1, NotCut
  <2>3. QED
    BY <1>1, <2>1, <2>2, ExactKept
<1>5. QED
  BY <1>2, <1>3, <1>4

LEMMA ExactStep == Exact /\ [Next]_vars => Exact'
<1> SUFFICES ASSUME Exact, [Next]_vars PROVE Exact'
  OBVIOUS
<1>1. CASE \E s \in Source, value \in 1 .. MaxContent : Edit(s, value)
  BY <1>1, ExactEdit
<1>2. CASE \E request \in Requests : Start(request)
  BY <1>2, ExactStart
<1>3. CASE VisitSource
  BY <1>3, ExactVisitSource
<1>4. CASE UpToDate
  BY <1>4, ExactUpToDate
<1>5. CASE OutOfDate
  BY <1>5, ExactOutOfDate
<1>6. CASE Executed
  BY <1>6, ExactExecuted
<1>7. CASE Fails
  BY <1>7, ExactFails
<1>8. CASE Rename
  BY <1>8, ExactRename
<1>9. CASE Crash
  BY <1>9, ExactCrash
<1>10. CASE Age \/ EditCommand \/ Interrupt \/ Done \/ Unlink \/ UNCHANGED vars
  BY <1>10, ExactQuiet
<1>11. QED
  BY <1>1, <1>2, <1>3, <1>4, <1>5, <1>6, <1>7, <1>8, <1>9, <1>10 DEF Next, Step

-----------------------------------------------------------------------------
(***************************************************************************)
(* NotAgain: the entries of the targets that a whole build left up to date *)
(* are about their children as they are.                                   *)
(***************************************************************************)
Current(t) ==
  /\ content[t] # << >> /\ db[t].bactsig = command /\ Len(db[t].sigs) = Len(Deps[t])
  /\ \A k \in DOMAIN Deps[t] :
       /\ Timed => db[t].sigs[k].timestamp = mtime[Deps[t][k]]
       /\ Precise => db[t].sigs[k].csig = content[Deps[t][k]]
SettledInv ==
  /\ edited => settled = {}
  /\ \A t \in settled : Current(t) /\ ToSet(Deps[t]) \cap Target \subseteq settled
  /\ NotAgain

\* A target whose entry is current is not found changed.
LEMMA CurrentUnchanged ==
  ASSUME Exact, todo # << >>, Head(todo) \in Target, Current(Head(todo)), ~edited
  PROVE  ~Changed(Head(todo))
<1> DEFINE t == Head(todo)
<1>1. /\ DOMAIN Deps[t] = 1 .. Len(Deps[t]) /\ \A k \in DOMAIN Deps[t] : Deps[t][k] \in ToSet(Deps[t])
      /\ TypeOK
  BY Files DEF Exact, Base
<1>2. DOMAIN db[t].sigs = DOMAIN Deps[t]
  <2>1. DOMAIN db[t].sigs = 1 .. Len(db[t].sigs) /\ Len(db[t].sigs) = Len(Deps[t])
    BY <1>1, SigPlaces DEF Current
  <2>2. QED
    BY <1>1, <2>1
<1>3. ASSUME NEW k \in DOMAIN Deps[t] PROVE ~ChildChanged(Deps[t][k], Prev(t, k))
  <2> DEFINE c == Deps[t][k]
             sig == db[t].sigs[k]
  <2>1. c \in to_be_merged /\ Known(c)
    BY <1>1, LookSays DEF Exact, InfoInv
  <2>2. Prev(t, k) = sig
    BY <1>1, <1>2, Previous
  <2>3. (Timed => sig.timestamp = mtime[c]) /\ (Precise => sig.csig = content[c])
    BY DEF Current
  <2>4. ninfo[c].timestamp = mtime[c] /\ (Precise => GetCsig(c) = content[c])
    BY <2>1, HandledCsig DEF Known
  <2> HIDE DEF c, sig
  <2>5. setting.decider \in {"content", "timestamp-match", "MD5-timestamp"}
    BY SettingsAssumption DEF Exact, Base, TypeOK
  <2>6. ~ChildChanged(c, sig)
    BY <2>3, <2>4, <2>5 DEF ChildChanged, Timed, Precise, TimestampMatches, ContentChanged
  <2>7. QED
    BY <2>2, <2>6 DEF c
<1>4. db[t].bactsig = command /\ Len(Deps[t]) = Len(db[t].sigs)
  BY DEF Current
<1>5. QED
  BY <1>3, <1>4 DEF Changed, DepsChanged

\* What is stored of a target is current, when nothing was edited.
LEMMA CurrentStored ==
  ASSUME Exact, Rename, ~edited, NEW t \in Target, t \in to_be_merged \/ Current(t)
  PROVE  Current(t)'
<1>1. /\ t \in Node /\ Base /\ db'[t] = Entry(t) /\ DOMAIN Deps[t] = 1 .. Len(Deps[t])
      /\ UNCHANGED <<setting, command, content, mtime>>
  BY RenameIs, Files DEF Exact
<1>2. CASE t \in to_be_merged
  <2>1. content[t] # << >> /\ Entry(t).bactsig = command /\ Len(Entry(t).sigs) = Len(Deps[t])
    BY <1>1, <1>2, EntryIs DEF Exact, InfoInv, Known
  <2>2. ASSUME NEW k \in DOMAIN Deps[t]
        PROVE  /\ Entry(t).sigs[k].timestamp = mtime[Deps[t][k]]
               /\ Precise => Entry(t).sigs[k].csig = content[Deps[t][k]]
    <3> DEFINE c == Deps[t][k]
    <3>1. /\ c \in to_be_merged /\ c \in ToSet(Deps[t]) /\ Entry(t).sigs[k] = ninfo[c]
      BY <1>1, <1>2, StoredNow, Files
    <3>2. Known(c) /\ (Precise => ninfo[c].csig # << >>)
      BY <1>2, <3>1 DEF Exact, InfoInv, Decided
    <3>3. QED
      BY <3>1, <3>2 DEF Known
  <2>3. QED
    BY <1>1, <2>1, <2>2 DEF Current, Precise
<1>3. CASE t \notin to_be_merged
  <2>1. Entry(t) = db[t] /\ Current(t)
    BY <1>1, <1>3, EntryIs
  <2>2. QED
    BY <1>1, <2>1 DEF Current, Precise, Timed
<1>4. QED
  BY <1>2, <1>3

\* Settled targets stay so when a target that is not is written, or none.
LEMMA SettledKept ==
  ASSUME Exact, SettledInv, UNCHANGED <<setting, command, db, settled, edited>>,
         NEW f \in Target, f \notin settled,
         \A n \in Node : n # f => content'[n] = content[n] /\ mtime'[n] = mtime[n]
  PROVE  /\ edited' => settled' = {}
         /\ \A t \in settled' : Current(t)' /\ ToSet(Deps[t]) \cap Target \subseteq settled'
<1>1. ASSUME NEW t \in settled PROVE Current(t)'
  <2>1. t \in Target /\ t \in Node /\ t # f /\ Current(t)
    BY Files DEF Exact, Base, TypeOK, SettledInv
  <2>2. ASSUME NEW k \in DOMAIN Deps[t]
        PROVE  content'[Deps[t][k]] = content[Deps[t][k]] /\ mtime'[Deps[t][k]] = mtime[Deps[t][k]]
    <3>1. Deps[t][k] \in Node /\ Deps[t][k] \in ToSet(Deps[t])
      BY <2>1, Files
    <3>2. Deps[t][k] # f
      BY <3>1 DEF SettledInv
    <3>3. QED
      BY <3>1, <3>2
  <2>3. content'[t] = content[t]
    BY <2>1
  <2>4. QED
    BY <2>1, <2>2, <2>3 DEF Current, Timed, Precise
<1>2. QED
  BY <1>1 DEF SettledInv

LEMMA SettledStep ==
  ASSUME Exact, Exact', SettledInv, [Next]_vars
  PROVE  SettledInv'
<1>1. Base
  BY DEF Exact
<1>2. CASE (\E s \in Source, value \in 1 .. MaxContent : Edit(s, value)) \/ EditCommand \/ Crash
  <2>1. settled' = {}
    BY <1>1, <1>2, EditIs, CrashIs DEF EditCommand, Given
  <2>2. QED
    BY <2>1 DEF SettledInv, NotAgain
<1>3. ASSUME UNCHANGED <<setting, command, content, mtime, db, settled>>, edited' = edited \/ ~edited',
             phase' # "executing" \/ (phase = "executing" /\ todo' = todo)
      PROVE  SettledInv'
  <2>1. \A t \in settled : Current(t)'
    BY <1>3 DEF SettledInv, Current, Timed, Precise
  <2>2. NotAgain'
    BY <1>3 DEF SettledInv, NotAgain
  <2>3. QED
    BY <1>3, <2>1, <2>2 DEF SettledInv
<1>4. CASE Age \/ Interrupt \/ Done \/ Unlink \/ UNCHANGED vars
  <2>1. /\ UNCHANGED <<setting, command, content, mtime, db, settled, edited>>
        /\ phase' # "executing" \/ (phase = "executing" /\ todo' = todo)
    BY <1>4 DEF Age, Interrupt, Done, Unlink, Finish, vars, world, build, observers, history
  <2>2. QED
    BY <1>3, <2>1
<1>5. CASE \E request \in Requests : Start(request)
  <2>1. /\ UNCHANGED <<setting, command, content, mtime, db, settled>> /\ ~edited'
        /\ phase' # "executing"
    BY <1>5 DEF Start, world
  <2>2. QED
    BY <1>3, <2>1
<1>6. CASE VisitSource \/ UpToDate
  <2>1. /\ UNCHANGED <<setting, command, content, mtime, db, settled, edited>>
        /\ phase' # "executing"
    BY <1>1, <1>6, VisitSourceIs, UpToDateIs
  <2>2. QED
    BY <1>3, <2>1
<1>7. CASE OutOfDate
  <2> DEFINE t == Head(todo)
  <2>1. /\ todo # << >> /\ t \in Target
        /\ content[t] = << >> \/ Changed(t)
        /\ \A n \in Node : n # t => content'[n] = content[n] /\ mtime'[n] = mtime[n]
        /\ UNCHANGED <<setting, command, db, settled, edited, todo>>
    BY <1>1, <1>7, OutOfDateIs
  <2>2. t \notin settled
    <3>1. SUFFICES ASSUME t \in settled PROVE FALSE
      OBVIOUS
    <3>2. Current(t) /\ ~edited
      BY <3>1 DEF SettledInv
    <3>3. ~Changed(t)
      BY <2>1, <3>2, CurrentUnchanged
    <3>4. QED
      BY <2>1, <3>2, <3>3 DEF Current
  <2>3. NotAgain'
    BY <2>1, <2>2 DEF NotAgain
  <2> HIDE DEF t
  <2>4. /\ edited' => settled' = {}
        /\ \A u \in settled' : Current(u)' /\ ToSet(Deps[u]) \cap Target \subseteq settled'
    BY <2>1, <2>2, SettledKept
  <2>5. QED
    BY <2>3, <2>4 DEF SettledInv
<1>8. CASE Executed \/ Fails
  <2> DEFINE t == Head(todo)
  <2>1. /\ phase = "executing" /\ phase' # "executing" /\ t \in Target
        /\ \A n \in Node : n # t => content'[n] = content[n] /\ mtime'[n] = mtime[n]
        /\ UNCHANGED <<setting, command, db, settled, edited>>
    BY <1>1, <1>8, ExecutedIs, FailsIs
  <2>2. t \notin settled
    BY <2>1 DEF SettledInv, NotAgain
  <2>3. NotAgain'
    BY <2>1 DEF NotAgain
  <2> HIDE DEF t
  <2>4. QED
    BY <2>1, <2>2, <2>3, SettledKept DEF SettledInv
<1>9. CASE Rename
  <2>1. /\ phase = "renaming" /\ phase' = "idle"
        /\ settled' = IF status = "ok" /\ ~edited THEN settled \cup requested ELSE settled
        /\ UNCHANGED <<status, requested, edited>>
    BY <1>1, <1>9, RenameIs
  <2>2. ASSUME NEW t \in settled
        PROVE  Current(t)' /\ ToSet(Deps[t]) \cap Target \subseteq settled
    BY <1>9, <2>2, CurrentStored DEF SettledInv, Exact, Base, TypeOK
  <2>3. ASSUME status = "ok", ~edited, NEW t \in requested
        PROVE  Current(t)' /\ ToSet(Deps[t]) \cap Target \subseteq requested
    <3>1. t \in Target /\ t \in to_be_merged /\ ToSet(Deps[t]) \cap Target \subseteq requested
      BY <2>1, <2>3 DEF Exact, Base, TypeOK, BuildInv
    <3>2. QED
      BY <1>9, <2>3, <3>1, CurrentStored
  <2>4. CASE status = "ok" /\ ~edited
    <3>1. \A t \in settled \cup requested : Current(t)' /\ ToSet(Deps[t]) \cap Target \subseteq settled \cup requested
      BY <2>2, <2>3, <2>4
    <3>2. QED
      BY <2>1, <2>4, <3>1 DEF SettledInv, NotAgain
  <2>5. CASE ~(status = "ok" /\ ~edited)
    BY <2>1, <2>2, <2>5 DEF SettledInv, NotAgain
  <2>6. QED
    BY <2>4, <2>5
<1>10. QED
  BY <1>2, <1>4, <1>5, <1>6, <1>7, <1>8, <1>9 DEF Next, Step

\* NotAgainAlways: with settings that can be trusted, what a whole build left up to date
\* is not built again before something is edited or a build crashes, whatever else was
\* asked for, interrupted or stored in part meanwhile (Node/__init__.py:1023,
\* SConsign.py:157).
THEOREM NotAgainAlways ==
  ASSUME \A s \in Settings : Trustworthy(s)
  PROVE  Spec => []NotAgain
<1>1. Init => Exact /\ SettledInv
  <2>1. Init => Trustworthy(setting)
    BY DEF Init
  <2>2. Init => SettledInv
    BY DEF Init, SettledInv, NotAgain
  <2>3. QED
    BY <2>1, <2>2, ExactInit
<1>2. (Exact /\ SettledInv) /\ [Next]_vars => (Exact /\ SettledInv)'
  BY ExactStep, SettledStep
<1>3. Exact /\ SettledInv => NotAgain
  BY DEF SettledInv
<1>4. QED
  BY <1>1, <1>2, <1>3, PTL DEF Spec

-----------------------------------------------------------------------------
(***************************************************************************)
(* Which contents of its children an entry says a target was made of.      *)
(***************************************************************************)
\* sig is the signature of w, as a content of c.
Tells(c, sig, w) ==
  /\ Precise => sig.csig = w
  /\ Timed /\ mtime[c] = sig.timestamp /\ content[c] # << >> => content[c] = w

\* The target was made of what its entry tells; and of what will be stored of it.
RightStored(t) ==
  /\ Len(db[t].sigs) = Len(Deps[t])
  /\ \E W \in Ws(t) :
       /\ content[t] = Make(db[t].bactsig, W)
       /\ \A k \in DOMAIN Deps[t] : Tells(Deps[t][k], db[t].sigs[k], W[k])
RightNow(t) ==
  \E W \in Ws(t) :
    /\ content[t] = Make(command, W)
    /\ \A k \in DOMAIN Deps[t] : Tells(Deps[t][k], ninfo[Deps[t][k]], W[k])

\* The entries that say something of c at the time that the build knows it by.
SameTime(c, u, j) ==
  /\ u \in Target /\ j \in DOMAIN db[u].sigs
  /\ Deps[u][j] = c /\ db[u].sigs[j].timestamp = ninfo[c].timestamp

LEMMA InfoSame ==
  ASSUME NEW i \in Infos, NEW j \in Infos, i.csig = j.csig, i.timestamp = j.timestamp
  PROVE  i = j
BY DEF Infos

LEMMA SequencesOfContents ==
  ASSUME Base, NEW t \in Target, NEW W \in Ws(t)
  PROVE  /\ W \in Seq(Seq(Nat)) /\ Len(W) = Len(Deps[t]) /\ Len(W) \in Nat
         /\ DOMAIN W = DOMAIN Deps[t] /\ DOMAIN Deps[t] = 1 .. Len(W)
         /\ \A k \in DOMAIN Deps[t] : W[k] \in Seq(Nat)
<1>1. W \in Seq(Seq(Nat)) /\ Len(W) = Len(Deps[t]) /\ DOMAIN Deps[t] = 1 .. Len(Deps[t])
  BY Files DEF Ws
<1>2. DOMAIN W = 1 .. Len(W) /\ Len(W) \in Nat /\ \A k \in 1 .. Len(W) : W[k] \in Seq(Nat)
  BY <1>1
<1>3. QED
  BY <1>1, <1>2

\* What looking at the children of a target makes of the signature of a node: nothing new,
\* that of its content, or one that was stored of it at this time.
LEMMA LookFinds ==
  ASSUME Exact, todo # << >>, Head(todo) \in Target, NEW c \in to_be_merged
  PROVE  LET new == AfterChanged(Head(todo))[c]
         IN /\ new.timestamp = ninfo[c].timestamp
            /\ \/ new = ninfo[c]
               \/ Precise /\ ninfo[c].csig = << >> /\ new.csig = content[c]
               \/ Precise /\ Timed /\ \E u \in Target : \E j \in DOMAIN db[u].sigs :
                    SameTime(c, u, j) /\ new.csig = db[u].sigs[j].csig
<1> DEFINE t == Head(todo)
           new == AfterChanged(t)[c]
<1>1. /\ c \in Node /\ Known(c) /\ TypeOK /\ new \in Infos /\ ninfo[c] \in Infos
      /\ new.timestamp = ninfo[c].timestamp
      /\ c \notin ToSet(Deps[t]) => new = ninfo[c]
  BY LookEffect DEF Exact, Base, InfoInv, TypeOK
<1>2. ASSUME c \in ToSet(Deps[t])
      PROVE  \/ new = ninfo[c]
             \/ Precise /\ ninfo[c].csig = << >> /\ new.csig = content[c]
             \/ Precise /\ Timed /\ \E u \in Target : \E j \in DOMAIN db[u].sigs :
                  SameTime(c, u, j) /\ new.csig = db[u].sigs[j].csig
  <2>1. PICK k \in DOMAIN Deps[t] : Deps[t][k] = c /\ new.csig = CsigAfter(c, Prev(t, k))
    BY <1>1, <1>2, LookEffect
  <2> DEFINE prev == Prev(t, k)
  <2>2. CASE setting.decider = "timestamp-match"
    <3>1. CsigAfter(c, prev) = ninfo[c].csig
      BY <2>2 DEF CsigAfter
    <3>2. QED
      BY <1>1, <2>1, <3>1, InfoSame
  <2>3. CASE setting.decider = "MD5-timestamp" /\ TimestampMatches(c, prev)
    <3>1. prev.timestamp = ninfo[c].timestamp /\ prev.timestamp # 0
      BY <1>1, <2>3 DEF TimestampMatches, Known
    <3>2. k \in DOMAIN db[t].sigs /\ prev = db[t].sigs[k]
      BY <1>1, <3>1, Previous, InfoFields
    <3>3. Precise /\ Timed
      BY <2>3 DEF Precise, Timed
    <3>4. Stored(c, prev)
      BY <2>1, <3>2 DEF Exact, SigInv
    <3>5. prev.csig # << >>
      BY <3>3, <3>4 DEF Stored
    <3>6. CsigAfter(c, prev) = prev.csig
      BY <2>3, <3>3, <3>5 DEF CsigAfter
    <3>7. SameTime(c, t, k)
      BY <2>1, <3>1, <3>2 DEF SameTime
    <3>8. QED
      BY <2>1, <3>2, <3>3, <3>6, <3>7
  <2>4. CASE Precise /\ ~(setting.decider = "MD5-timestamp" /\ TimestampMatches(c, prev))
    <3>1. CsigAfter(c, prev) = GetCsig(c)
      BY <2>4 DEF CsigAfter, Precise
    <3>2. new.csig = GetCsig(c)
      BY <2>1, <3>1
    <3>3. CASE ninfo[c].csig = << >>
      BY <2>4, <3>2, <3>3, HandledCsig
    <3>4. CASE ninfo[c].csig # << >>
      BY <1>1, <2>4, <3>2, <3>4, HandledCsig, InfoSame
    <3>5. QED
      BY <3>3, <3>4
  <2>5. QED
    BY <2>2, <2>3, <2>4 DEF Precise
<1>3. QED
  BY <1>1, <1>2

LEMMA TellsKept ==
  ASSUME UNCHANGED setting, NEW c, NEW sig, NEW w, Tells(c, sig, w),
         \/ mtime'[c] = mtime[c] /\ content'[c] \in {content[c], << >>}
         \/ mtime'[c] # sig.timestamp
  PROVE  Tells(c, sig, w)'
BY DEF Tells, Precise, Timed

\* What was stored stays right while files, but not the target, are written or removed.
LEMMA RightStoredKept ==
  ASSUME Exact, UNCHANGED <<setting, db>>, NEW t \in Target, content'[t] = content[t],
         \A n \in Node : \/ mtime'[n] = mtime[n] /\ content'[n] \in {content[n], << >>}
                         \/ mtime'[n] = mtime[n] + 1,
         RightStored(t)
  PROVE  RightStored(t)'
<1>1. PICK W \in Ws(t) :
        /\ content[t] = Make(db[t].bactsig, W)
        /\ \A k \in DOMAIN Deps[t] : Tells(Deps[t][k], db[t].sigs[k], W[k])
  BY DEF RightStored
<1>2. Len(db[t].sigs) = Len(Deps[t]) /\ TypeOK
  BY DEF RightStored, Exact, Base
<1>3. DOMAIN db[t].sigs = DOMAIN Deps[t]
  <2>1. DOMAIN db[t].sigs = 1 .. Len(db[t].sigs)
    BY <1>2, SigPlaces
  <2>2. QED
    BY <1>2, <2>1, Files
<1>4. ASSUME NEW k \in DOMAIN Deps[t]
      PROVE  Tells(Deps[t][k], db[t].sigs[k], W[k])'
  <2>1. PICK c \in Node : c = Deps[t][k]
    BY Files
  <2>2. PICK sig \in Infos : sig = db[t].sigs[k]
    BY <1>2, <1>3, SigPlaces
  <2>3. Stored(c, sig) /\ Tells(c, sig, W[k])
    BY <1>1, <1>3, <2>1, <2>2 DEF Exact, SigInv
  <2>4. sig.timestamp \in Nat /\ mtime[c] \in Nat
    BY <1>2, <2>2, Naturals, InfoFields
  <2>5. \/ mtime'[c] = mtime[c] /\ content'[c] \in {content[c], << >>}
        \/ mtime'[c] # sig.timestamp
    BY <2>3, <2>4 DEF Stored
  <2>6. Tells(c, sig, W[k])'
    BY <2>3, <2>5, TellsKept
  <2>7. QED
    BY <2>1, <2>2, <2>6
<1>5. QED
  BY <1>1, <1>2, <1>4 DEF RightStored

\* And so does what is to be stored, when its children are known by the same.
LEMMA RightNowKept ==
  ASSUME Exact, UNCHANGED <<setting, command>>, NEW t \in to_be_merged \cap Target,
         content'[t] = content[t],
         \A n \in Node : \/ mtime'[n] = mtime[n] /\ content'[n] \in {content[n], << >>}
                         \/ mtime'[n] = mtime[n] + 1,
         \A c \in ToSet(Deps[t]) : ninfo'[c] = ninfo[c],
         RightNow(t)
  PROVE  RightNow(t)'
<1>1. PICK W \in Ws(t) :
        /\ content[t] = Make(command, W)
        /\ \A k \in DOMAIN Deps[t] : Tells(Deps[t][k], ninfo[Deps[t][k]], W[k])
  BY DEF RightNow
<1>2. ASSUME NEW k \in DOMAIN Deps[t]
      PROVE  Tells(Deps[t][k], ninfo[Deps[t][k]], W[k])'
  <2>1. PICK c \in to_be_merged : c = Deps[t][k] /\ c \in ToSet(Deps[t]) /\ c \in Node
    BY Files DEF Exact, Base, BuildInv
  <2>2. PICK sig \in Infos : sig = ninfo[c]
    BY <2>1 DEF Exact, Base, TypeOK
  <2>3. Known(c) /\ Tells(c, sig, W[k])
    BY <1>1, <2>1, <2>2 DEF Exact, InfoInv
  <2>4. sig.timestamp \in Nat /\ mtime[c] \in Nat
    BY <2>1, <2>2, Naturals, InfoFields DEF Exact, Base
  <2>5. \/ mtime'[c] = mtime[c] /\ content'[c] \in {content[c], << >>}
        \/ mtime'[c] # sig.timestamp
    BY <2>1, <2>2, <2>3, <2>4 DEF Known
  <2>6. Tells(c, sig, W[k])'
    BY <2>3, <2>5, TellsKept
  <2>7. QED
    BY <2>1, <2>2, <2>6
<1>3. QED
  BY <1>1, <1>2 DEF RightNow

LEMMA WSame ==
  ASSUME Base, NEW t \in Target, NEW W \in Ws(t), NEW V \in Ws(t),
         \A k \in DOMAIN Deps[t] : W[k] = V[k]
  PROVE  W = V
<1>1. /\ W \in Seq(Seq(Nat)) /\ V \in Seq(Seq(Nat)) /\ Len(W) = Len(V)
      /\ DOMAIN Deps[t] = 1 .. Len(W)
  BY SequencesOfContents
<1>2. QED
  BY <1>1, SeqEqual

\* Nothing is lost of a child that is found unchanged.
LEMMA UnchangedTells ==
  ASSUME Exact, todo # << >>, Head(todo) \in Target, ~Changed(Head(todo)),
         NEW k \in DOMAIN Deps[Head(todo)], NEW w,
         Tells(Deps[Head(todo)][k], db[Head(todo)].sigs[k], w)
  PROVE  Tells(Deps[Head(todo)][k], AfterChanged(Head(todo))[Deps[Head(todo)][k]], w)
<1> DEFINE t == Head(todo)
<1>1. TypeOK /\ t \in Target /\ Len(db[t].sigs) = Len(Deps[t]) /\ ~ChildChanged(Deps[t][k], Prev(t, k))
  BY DEF Changed, DepsChanged, Exact, Base
<1>2. DOMAIN db[t].sigs = DOMAIN Deps[t]
  <2>1. DOMAIN db[t].sigs = 1 .. Len(db[t].sigs) /\ DOMAIN Deps[t] = 1 .. Len(Deps[t])
    BY <1>1, SigPlaces, Files
  <2>2. QED
    BY <1>1, <2>1
<1>3. PICK c \in to_be_merged : c = Deps[t][k] /\ c \in ToSet(Deps[t]) /\ c \in Node
  BY <1>1, LookSays, Files
<1>4. PICK sig \in Infos : sig = db[t].sigs[k]
  BY <1>1, <1>2, SigPlaces
<1>5. Stored(c, sig) /\ Tells(c, sig, w) /\ ~ChildChanged(c, sig)
  BY <1>1, <1>2, <1>3, <1>4, Previous DEF Exact, SigInv
<1>6. PICK j \in DOMAIN Deps[t] : Deps[t][j] = c /\ AfterChanged(t)[c].csig = CsigAfter(c, Prev(t, j))
  BY <1>1, <1>3, LookEffect
<1>7. Prev(t, j) = sig
  BY <1>1, <1>2, <1>3, <1>4, <1>6, Previous DEF Exact, SigInv
<1>8. PICK new \in Infos : new = AfterChanged(t)[c]
  BY <1>1, <1>3, LookEffect
<1>9. new.csig = CsigAfter(c, sig) /\ new.timestamp = ninfo[c].timestamp
  BY <1>1, <1>3, <1>6, <1>7, <1>8, LookEffect
<1>10. setting.decider \in {"content", "timestamp-match", "MD5-timestamp"}
  BY <1>1, SettingsAssumption DEF TypeOK
<1>11. Tells(c, new, w)
  <2>1. CASE setting.decider = "content"
    <3>1. new.csig = sig.csig
      BY <1>5, <1>9, <2>1 DEF ChildChanged, ContentChanged, CsigAfter
    <3>2. QED
      BY <1>5, <2>1, <3>1 DEF Tells, Timed, Precise
  <2>2. CASE setting.decider = "timestamp-match"
    <3>1. new.timestamp = sig.timestamp
      BY <1>5, <1>9, <2>2 DEF ChildChanged, TimestampMatches
    <3>2. QED
      BY <1>5, <2>2, <3>1 DEF Tells, Timed, Precise
  <2>3. CASE setting.decider = "MD5-timestamp" /\ TimestampMatches(c, sig)
    <3>1. sig.csig # << >>
      BY <1>5, <2>3 DEF Stored, Precise
    <3>2. new.csig = sig.csig /\ new.timestamp = sig.timestamp
      BY <1>9, <2>3, <3>1 DEF CsigAfter, TimestampMatches
    <3>3. new = sig
      BY <3>2, InfoSame
    <3>4. QED
      BY <1>5, <3>3
  <2>4. CASE setting.decider = "MD5-timestamp" /\ ~TimestampMatches(c, sig)
    <3>1. new.csig = sig.csig /\ new.csig = GetCsig(c) /\ Precise
      BY <1>5, <1>9, <2>4 DEF ChildChanged, ContentChanged, CsigAfter, Precise
    <3>2. new.csig = w
      BY <1>5, <3>1 DEF Tells
    <3>3. mtime[c] = new.timestamp => new.csig = content[c]
      BY <1>3, <1>9, <3>1, HandledCsig
    <3>4. QED
      BY <3>2, <3>3 DEF Tells
  <2>5. QED
    BY <1>10, <2>1, <2>2, <2>3, <2>4
<1>12. QED
  BY <1>3, <1>8, <1>11

\* So what will be stored of an up to date target is right when what was stored is...
LEMMA UpToDateRight ==
  ASSUME Exact, UpToDate, NEW t \in {Head(todo)}, RightStored(t)
  PROVE  RightNow(t)'
<1>1. /\ todo # << >> /\ t \in Target /\ ~Changed(t)
      /\ \A n \in Node : n # t => ninfo'[n] = AfterChanged(t)[n]
      /\ UNCHANGED <<setting, command, content, mtime>>
  BY UpToDateIs DEF Exact
<1>2. db[t].bactsig = command
  BY <1>1 DEF Changed
<1>3. t \notin ToSet(Deps[t])
  BY <1>1, QueueHead DEF Exact, Base, TypeOK, BuildInv
<1>4. PICK W \in Ws(t) :
        /\ content[t] = Make(command, W)
        /\ \A k \in DOMAIN Deps[t] : Tells(Deps[t][k], db[t].sigs[k], W[k])
  BY <1>2 DEF RightStored
<1>5. ASSUME NEW k \in DOMAIN Deps[t]
      PROVE  Tells(Deps[t][k], ninfo[Deps[t][k]], W[k])'
  <2>1. PICK c \in Node : c = Deps[t][k] /\ c # t
    BY <1>1, <1>3, Files
  <2>2. Tells(c, AfterChanged(t)[c], W[k])
    BY <1>1, <1>4, <2>1, UnchangedTells
  <2>3. PICK new : new = AfterChanged(t)[c]
    OBVIOUS
  <2>4. Tells(c, new, W[k])'
    BY <1>1, <2>2, <2>3, TellsKept
  <2>5. QED
    BY <1>1, <2>1, <2>3, <2>4
<1>6. QED
  BY <1>1, <1>4, <1>5 DEF RightNow

\* ...and then, when nothing was edited, it is made of its children as they are.
LEMMA UpToDateMade ==
  ASSUME Exact, todo # << >>, Head(todo) \in Target, ~Changed(Head(todo)), ~edited,
         RightStored(Head(todo))
  PROVE  content[Head(todo)] = Made(Head(todo))
<1> DEFINE t == Head(todo)
<1>1. t \in Target /\ db[t].bactsig = command /\ Base
  BY DEF Changed, Exact
<1>2. PICK W \in Ws(t) :
        /\ content[t] = Make(command, W)
        /\ \A k \in DOMAIN Deps[t] : Tells(Deps[t][k], db[t].sigs[k], W[k])
  BY <1>1 DEF RightStored
<1>3. ASSUME NEW k \in DOMAIN Deps[t] PROVE W[k] = content[Deps[t][k]]
  <2>1. PICK c \in to_be_merged : c = Deps[t][k] /\ c \in ToSet(Deps[t])
    BY <1>1, LookSays, Files
  <2>2. PICK new : new = AfterChanged(t)[c]
    OBVIOUS
  <2>3. Tells(c, new, W[k])
    BY <1>2, <2>1, <2>2, UnchangedTells
  <2>4. Known(c) /\ c \in Node /\ TypeOK
    BY <2>1 DEF Exact, Base, TypeOK, InfoInv
  <2>5. ninfo[c].timestamp = mtime[c] /\ content[c] # << >>
    BY <2>4 DEF Known
  <2>6. Precise => new.csig = content[c]
    BY <2>1, <2>2, <2>5, LookSays
  <2>7. new.timestamp = mtime[c]
    BY <2>2, <2>4, <2>5, LookEffect
  <2>8. Precise \/ Timed
    BY DEF Precise, Timed
  <2>9. QED
    BY <2>1, <2>3, <2>5, <2>6, <2>7, <2>8 DEF Tells
<1>4. Parts(t) \in Ws(t) /\ Made(t) = Make(command, Parts(t))
      /\ \A k \in DOMAIN Deps[t] : Parts(t)[k] = content[Deps[t][k]]
  BY <1>1, MadeIs
<1>5. W = Parts(t)
  BY <1>1, <1>3, <1>4, WSame
<1>6. QED
  BY <1>2, <1>4, <1>5

-----------------------------------------------------------------------------
(***************************************************************************)
(* The entries that are about the file that is there.                      *)
(***************************************************************************)
\* What other entries have of c at the same time is the same.
Kept(c) ==
  \A u \in Target : \A j \in DOMAIN db[u].sigs :
    SameTime(c, u, j) => db[u].sigs[j].csig = ninfo[c].csig

\* What is to be stored of t is right, and stays so when others look at its children.
Firm(t) == RightNow(t) /\ (Precise /\ Timed => \A c \in ToSet(Deps[t]) : Kept(c))

RecordedInv ==
  /\ \A t \in Target :
       /\ recorded[t] = "made" => t \in to_be_merged
       /\ recorded[t] = "yes" /\ content[t] # << >> /\ db[t].bactsig # 0 => RightStored(t)
       /\ t \in to_be_merged /\ recorded[t] # "no" => Firm(t)
  /\ phase = "executing" => recorded[Head(todo)] = "no" /\ content[Head(todo)] = << >>

LEMMA InfoOfChild ==
  ASSUME Exact, NEW t \in to_be_merged \cap Target, NEW c \in ToSet(Deps[t])
  PROVE  c \in to_be_merged /\ c \in Node /\ Known(c) /\ (Precise => ninfo[c].csig # << >>)
<1>1. c \in to_be_merged /\ c \in Node
  BY DEF Exact, Base, BuildInv, TypeOK
<1>2. QED
  BY <1>1 DEF Exact, InfoInv, Decided

\* The children of such a target are known by the same after others looked at them.
LEMMA FirmLooked ==
  ASSUME Exact, todo # << >>, Head(todo) \in Target, NEW t \in to_be_merged \cap Target, Firm(t),
         NEW c \in ToSet(Deps[t])
  PROVE  AfterChanged(Head(todo))[c] = ninfo[c]
<1> DEFINE new == AfterChanged(Head(todo))[c]
<1>1. c \in to_be_merged /\ c \in Node /\ (Precise => ninfo[c].csig # << >>)
  BY InfoOfChild
<1>2. /\ new.timestamp = ninfo[c].timestamp
      /\ \/ new = ninfo[c]
         \/ Precise /\ ninfo[c].csig = << >> /\ new.csig = content[c]
         \/ Precise /\ Timed /\ \E u \in Target : \E j \in DOMAIN db[u].sigs :
              SameTime(c, u, j) /\ new.csig = db[u].sigs[j].csig
  BY <1>1, LookFinds
<1>3. new \in Infos /\ ninfo[c] \in Infos
  BY <1>1, LookEffect DEF Exact, Base, TypeOK
<1> HIDE DEF new
<1>4. CASE new = ninfo[c]
  BY <1>4 DEF new
<1>5. CASE new # ninfo[c]
  <2>1. Precise /\ Timed
    BY <1>1, <1>2, <1>5
  <2>2. PICK u \in Target : \E j \in DOMAIN db[u].sigs :
          SameTime(c, u, j) /\ new.csig = db[u].sigs[j].csig
    BY <1>1, <1>2, <1>5
  <2>3. new.csig = ninfo[c].csig
    BY <2>1, <2>2 DEF Firm, Kept
  <2>4. QED
    BY <1>2, <1>3, <1>5, <2>3, InfoSame
<1>6. QED
  BY <1>4, <1>5

\* They stay firm when no other entry is stored and their children are known by the same.
LEMMA FirmKept ==
  ASSUME Exact, UNCHANGED <<setting, command, db>>, NEW t \in to_be_merged \cap Target, Firm(t),
         content'[t] = content[t],
         \A n \in Node : \/ mtime'[n] = mtime[n] /\ content'[n] \in {content[n], << >>}
                         \/ mtime'[n] = mtime[n] + 1,
         \A c \in ToSet(Deps[t]) : ninfo'[c] = ninfo[c]
  PROVE  Firm(t)'
<1>1. RightNow(t)'
  BY RightNowKept DEF Firm
<1>2. ASSUME Precise /\ Timed, NEW c \in ToSet(Deps[t]) PROVE Kept(c)'
  BY <1>2 DEF Firm, Kept, SameTime
<1>3. QED
  BY <1>1, <1>2 DEF Firm, Precise, Timed

\* A child that was not written since it was visited is known by its content.
LEMMA KeptNow ==
  ASSUME Exact, Precise, NEW c \in to_be_merged, ninfo[c].timestamp = mtime[c],
         NEW u \in Target, NEW j \in DOMAIN db[u].sigs, SameTime(c, u, j)
  PROVE  db[u].sigs[j].csig = content[c]
<1>1. Stored(c, db[u].sigs[j]) /\ Known(c)
  BY DEF Exact, SigInv, InfoInv, SameTime
<1>2. QED
  BY <1>1 DEF Stored, Known, SameTime

LEMMA RecordedUpToDate ==
  ASSUME Exact, RecordedInv, UpToDate
  PROVE  RecordedInv'
<1> DEFINE h == Head(todo)
<1>1. /\ phase = "taskmaster" /\ todo # << >> /\ h \in Target /\ h \in Node
      /\ content[h] # << >> /\ ~Changed(h)
      /\ \A n \in Node : n # h => ninfo'[n] = AfterChanged(h)[n]
      /\ to_be_merged' = to_be_merged \cup {h}
      /\ recorded'[h] = IF setting.decider = "MD5-timestamp" /\ ~Untouched(h) THEN "no"
                        ELSE recorded[h]
      /\ \A t \in Target : t # h => recorded'[t] = recorded[t]
      /\ UNCHANGED <<setting, command, content, mtime, db, phase>>
  BY UpToDateIs DEF Exact
<1>2. /\ h \notin to_be_merged /\ h \notin ToSet(Deps[h]) /\ ToSet(Deps[h]) \subseteq to_be_merged
      /\ to_be_merged \subseteq Node
  BY <1>1, QueueHead DEF Exact, Base, TypeOK, BuildInv
<1>3. ASSUME NEW t \in Target, recorded'[t] = "made" PROVE t \in to_be_merged'
  BY <1>1, <1>3 DEF RecordedInv
<1>4. ASSUME NEW t \in Target, recorded'[t] = "yes", content[t] # << >>, db[t].bactsig # 0
      PROVE  RightStored(t)'
  <2>1. recorded[t] = "yes"
    BY <1>1, <1>4
  <2>2. RightStored(t)
    BY <1>4, <2>1 DEF RecordedInv
  <2>3. QED
    BY <1>1, <2>2, RightStoredKept
<1>5. ASSUME NEW t \in to_be_merged \cap Target, recorded'[t] # "no" PROVE Firm(t)'
  <2>1. t # h /\ Firm(t)
    BY <1>1, <1>2, <1>5 DEF RecordedInv
  <2>2. ASSUME NEW c \in ToSet(Deps[t]) PROVE ninfo'[c] = ninfo[c]
    <3>1. c \in to_be_merged /\ c \in Node /\ c # h
      BY <1>2, <1>5, InfoOfChild
    <3>2. QED
      BY <1>1, <1>5, <2>1, <3>1, FirmLooked
  <2>3. QED
    BY <1>1, <1>5, <2>1, <2>2, FirmKept
<1>6. ASSUME NEW t \in {h}, recorded'[t] # "no" PROVE Firm(t)'
  <2>1. recorded[t] = "yes"
    BY <1>1, <1>2, <1>6 DEF RecordedInv, Exact, Base, TypeOK
  <2>2. db[t].bactsig # 0
    BY <1>1 DEF Changed, Exact, Base, TypeOK
  <2>3. RightStored(t)
    BY <1>1, <2>1, <2>2 DEF RecordedInv
  <2>4. RightNow(t)'
    BY <2>3, UpToDateRight
  <2>5. ASSUME Precise, Timed, NEW c \in ToSet(Deps[t]) PROVE Kept(c)'
    <3>1. setting.decider = "MD5-timestamp"
      BY <2>5, SettingsAssumption DEF Precise, Timed, Exact, Base, TypeOK
    <3>2. ninfo[c].timestamp = mtime[c]
      BY <1>1, <1>6, <3>1 DEF Untouched
    <3>3. c \in to_be_merged /\ c \in Node /\ c # h
      BY <1>2
    <3>4. ninfo'[c].csig = content[c] /\ ninfo'[c].timestamp = ninfo[c].timestamp
      BY <1>1, <2>5, <3>2, <3>3, LookSays, LookEffect DEF Exact, Base
    <3>5. \A u \in Target : \A j \in DOMAIN db[u].sigs : SameTime(c, u, j)' => SameTime(c, u, j)
      BY <1>1, <3>4 DEF SameTime
    <3>6. QED
      BY <1>1, <2>5, <3>2, <3>3, <3>4, <3>5, KeptNow DEF Kept
  <2>6. QED
    BY <1>1, <2>4, <2>5 DEF Firm, Precise, Timed
<1>7. QED
  BY <1>1, <1>3, <1>4, <1>5, <1>6 DEF RecordedInv

LEMMA RecordedOutOfDate ==
  ASSUME Exact, RecordedInv, OutOfDate
  PROVE  RecordedInv'
<1> DEFINE h == Head(todo)
<1>1. /\ todo # << >> /\ h \in Target /\ h \in Node /\ phase = "taskmaster"
      /\ ninfo' = AfterChanged(h)
      /\ content'[h] = << >> /\ \A n \in Node : n # h => content'[n] = content[n]
      /\ recorded'[h] = "no" /\ \A t \in Target : t # h => recorded'[t] = recorded[t]
      /\ UNCHANGED <<setting, command, mtime, db, todo, to_be_merged>>
  BY OutOfDateIs DEF Exact
<1>2. h \notin to_be_merged
  BY <1>1, QueueHead DEF Exact, Base, TypeOK, BuildInv
<1>3. \A n \in Node : mtime'[n] = mtime[n] /\ content'[n] \in {content[n], << >>}
  BY <1>1
<1>4. ASSUME NEW t \in Target, recorded'[t] = "made" PROVE t \in to_be_merged
  BY <1>1, <1>4 DEF RecordedInv
<1>5. ASSUME NEW t \in Target, recorded'[t] = "yes", content'[t] # << >>, db[t].bactsig # 0
      PROVE  RightStored(t)'
  <2>1. t # h /\ t \in Node /\ recorded[t] = "yes" /\ content'[t] = content[t]
    BY <1>1, <1>5, Files
  <2>2. RightStored(t)
    BY <1>5, <2>1 DEF RecordedInv
  <2>3. QED
    BY <1>1, <1>3, <2>1, <2>2, RightStoredKept
<1>6. ASSUME NEW t \in to_be_merged \cap Target, recorded'[t] # "no" PROVE Firm(t)'
  <2>1. t # h /\ t \in Node /\ Firm(t) /\ content'[t] = content[t]
    BY <1>1, <1>2, <1>6, Files DEF RecordedInv
  <2>2. ASSUME NEW c \in ToSet(Deps[t]) PROVE ninfo'[c] = ninfo[c]
    BY <1>1, <1>6, <2>1, FirmLooked
  <2>3. QED
    BY <1>1, <1>3, <1>6, <2>1, <2>2, FirmKept
<1>7. recorded'[Head(todo')] = "no" /\ content'[Head(todo')] = << >>
  BY <1>1
<1>8. QED
  BY <1>1, <1>4, <1>5, <1>6, <1>7 DEF RecordedInv

LEMMA RecordedExecuted ==
  ASSUME Exact, RecordedInv, Executed
  PROVE  RecordedInv'
<1> DEFINE h == Head(todo)
<1>1. /\ todo # << >> /\ h \in Target /\ h \in Node /\ phase = "executing" /\ phase' = "taskmaster"
      /\ content'[h] = Made(h) /\ mtime'[h] = mtime[h] + 1
      /\ \A n \in Node : n # h => content'[n] = content[n] /\ mtime'[n] = mtime[n]
      /\ \A n \in Node : n # h => ninfo'[n] = ninfo[n]
      /\ to_be_merged' = to_be_merged \cup {h}
      /\ recorded'[h] = IF Untouched(h) THEN "made" ELSE "no"
      /\ \A t \in Target : t # h => recorded'[t] = recorded[t]
      /\ UNCHANGED <<setting, command, db>>
  BY ExecutedIs DEF Exact
<1>2. /\ h \notin to_be_merged /\ h \notin ToSet(Deps[h]) /\ ToSet(Deps[h]) \subseteq to_be_merged
      /\ to_be_merged \subseteq Node
  BY <1>1, QueueHead DEF Exact, Base, TypeOK, BuildInv
<1>3. \A n \in Node : \/ mtime'[n] = mtime[n] /\ content'[n] \in {content[n], << >>}
                      \/ mtime'[n] = mtime[n] + 1
  BY <1>1
<1>4. ASSUME NEW t \in Target, recorded'[t] = "made" PROVE t \in to_be_merged'
  BY <1>1, <1>4 DEF RecordedInv
<1>5. ASSUME NEW t \in Target, recorded'[t] = "yes", content'[t] # << >>, db[t].bactsig # 0
      PROVE  RightStored(t)'
  <2>1. t # h /\ t \in Node /\ recorded[t] = "yes" /\ content'[t] = content[t]
    BY <1>1, <1>5, Files
  <2>2. RightStored(t)
    BY <1>5, <2>1 DEF RecordedInv
  <2>3. QED
    BY <1>1, <1>3, <2>1, <2>2, RightStoredKept
<1>6. ASSUME NEW t \in to_be_merged \cap Target, recorded'[t] # "no" PROVE Firm(t)'
  <2>1. t # h /\ t \in Node /\ Firm(t) /\ content'[t] = content[t]
    BY <1>1, <1>2, <1>6, Files DEF RecordedInv
  <2>2. ASSUME NEW c \in ToSet(Deps[t]) PROVE ninfo'[c] = ninfo[c]
    BY <1>1, <1>2, <1>6, InfoOfChild
  <2>3. QED
    BY <1>1, <1>3, <1>6, <2>1, <2>2, FirmKept
<1>7. ASSUME NEW t \in {h}, recorded'[t] # "no" PROVE Firm(t)'
  <2>1. ASSUME NEW c \in ToSet(Deps[t])
        PROVE  /\ c \in to_be_merged /\ c \in Node /\ c # h
               /\ ninfo[c].timestamp = mtime[c] /\ (Precise => ninfo[c].csig = content[c])
    <3>1. c \in to_be_merged /\ c \in Node /\ c # h /\ Known(c)
      BY <1>2 DEF Exact, InfoInv
    <3>2. ninfo[c].timestamp = mtime[c]
      BY <1>1, <1>7 DEF Untouched
    <3>3. Precise => ninfo[c].csig # << >>
      BY <1>1 DEF Exact, InfoInv, Decided
    <3>4. QED
      BY <3>1, <3>2, <3>3 DEF Known
  <2>2. RightNow(t)'
    <3>1. /\ Parts(t) \in Ws(t) /\ \A k \in DOMAIN Deps[t] : Parts(t)[k] = content[Deps[t][k]]
          /\ Made(t) = Make(command, Parts(t))
      BY <1>1, MadeIs DEF Exact
    <3>2. PICK W \in Ws(t) :
            /\ content'[t] = Make(command, W)
            /\ \A k \in DOMAIN Deps[t] : W[k] = content[Deps[t][k]]
      BY <1>1, <3>1
    <3>3. ASSUME NEW k \in DOMAIN Deps[t]
          PROVE  Tells(Deps[t][k], ninfo[Deps[t][k]], W[k])'
      <4>1. PICK c \in ToSet(Deps[t]) : c = Deps[t][k]
        BY <1>1, Files
      <4>2. ninfo'[c] = ninfo[c] /\ content'[c] = content[c] /\ mtime'[c] = mtime[c]
        BY <1>1, <2>1
      <4>3. Tells(c, ninfo[c], W[k])'
        BY <1>1, <2>1, <3>2, <4>1, <4>2 DEF Tells, Precise, Timed
      <4>4. QED
        BY <4>1, <4>3
    <3>4. QED
      BY <1>1, <3>2, <3>3 DEF RightNow
  <2>3. ASSUME Precise, NEW c \in ToSet(Deps[t]) PROVE Kept(c)'
    <3>1. ninfo'[c] = ninfo[c]
      BY <1>1, <2>1
    <3>2. \A u \in Target : \A j \in DOMAIN db[u].sigs : SameTime(c, u, j)' => SameTime(c, u, j)
      BY <1>1, <3>1 DEF SameTime
    <3>3. QED
      BY <1>1, <2>1, <2>3, <3>1, <3>2, KeptNow DEF Kept
  <2>4. QED
    BY <1>1, <2>2, <2>3 DEF Firm, Precise, Timed
<1>8. QED
  BY <1>1, <1>4, <1>5, <1>6, <1>7 DEF RecordedInv

\* What stays firm or right when nothing is looked at or written but, perhaps, a source.
LEMMA RecordedKept ==
  ASSUME Exact, RecordedInv,
         UNCHANGED <<setting, command, db, recorded>>,
         \A t \in Target : content'[t] = content[t],
         \A n \in Node : \/ mtime'[n] = mtime[n] /\ content'[n] \in {content[n], << >>}
                         \/ mtime'[n] = mtime[n] + 1,
         to_be_merged \subseteq to_be_merged', to_be_merged' \cap Target \subseteq to_be_merged,
         \A n \in to_be_merged : ninfo'[n] = ninfo[n],
         phase' = "executing" => phase = "executing" /\ Head(todo') = Head(todo)
  PROVE  RecordedInv'
<1>1. ASSUME NEW t \in Target, recorded[t] = "yes", content[t] # << >>, db[t].bactsig # 0
      PROVE  RightStored(t)'
  BY <1>1, RightStoredKept DEF RecordedInv
<1>2. ASSUME NEW t \in to_be_merged \cap Target, recorded[t] # "no"
      PROVE  Firm(t)'
  <2>1. \A c \in ToSet(Deps[t]) : ninfo'[c] = ninfo[c]
    BY InfoOfChild
  <2>2. QED
    BY <1>2, <2>1, FirmKept DEF RecordedInv
<1>3. phase' = "executing" => recorded'[Head(todo')] = "no" /\ content'[Head(todo')] = << >>
  BY DEF RecordedInv, Exact, Base, BuildInv
<1>4. QED
  BY <1>1, <1>2, <1>3 DEF RecordedInv

LEMMA RecordedFails ==
  ASSUME Exact, RecordedInv, Fails
  PROVE  RecordedInv'
<1> DEFINE h == Head(todo)
<1>1. /\ phase = "executing" /\ phase' = "writing" /\ h \in Target /\ h \in Node
      /\ h \notin to_be_merged /\ recorded[h] = "no"
      /\ \A n \in Node : n # h => content'[n] = content[n] /\ mtime'[n] = mtime[n]
      /\ \/ mtime'[h] = mtime[h] + 1
         \/ content'[h] = content[h] /\ mtime'[h] = mtime[h]
      /\ UNCHANGED <<setting, command, db, ninfo, to_be_merged, recorded>>
  BY FailsIs DEF Exact, RecordedInv
<1>2. \A n \in Node : \/ mtime'[n] = mtime[n] /\ content'[n] \in {content[n], << >>}
                      \/ mtime'[n] = mtime[n] + 1
  BY <1>1
<1>3. ASSUME NEW t \in Target, recorded[t] # "no" PROVE t # h /\ content'[t] = content[t]
  BY <1>1, <1>3, Files
<1>4. ASSUME NEW t \in Target, recorded[t] = "yes", content'[t] # << >>, db[t].bactsig # 0
      PROVE  RightStored(t)'
  <2>1. content'[t] = content[t]
    BY <1>3, <1>4
  <2>2. RightStored(t)
    BY <1>4, <2>1 DEF RecordedInv
  <2>3. QED
    BY <1>1, <1>2, <2>1, <2>2, RightStoredKept
<1>5. ASSUME NEW t \in to_be_merged \cap Target, recorded[t] # "no"
      PROVE  Firm(t)'
  BY <1>1, <1>2, <1>3, <1>5, FirmKept DEF RecordedInv
<1>6. QED
  BY <1>1, <1>4, <1>5 DEF RecordedInv

\* What will be stored of a target is right, and then is stored.
LEMMA RightNowStored ==
  ASSUME Exact, Rename, NEW t \in to_be_merged \cap Target, RightNow(t)
  PROVE  RightStored(t)'
<1>1. /\ t \in Node /\ db'[t] = Entry(t) /\ Base
      /\ UNCHANGED <<setting, command, content, mtime>>
  BY RenameIs, Files DEF Exact
<1>2. PICK W \in Ws(t) :
        /\ content[t] = Make(command, W)
        /\ \A k \in DOMAIN Deps[t] : Tells(Deps[t][k], ninfo[Deps[t][k]], W[k])
  BY DEF RightNow
<1>3. /\ Entry(t).bactsig = command /\ Len(Entry(t).sigs) = Len(Deps[t])
      /\ \A k \in DOMAIN Deps[t] : Entry(t).sigs[k] = ninfo[Deps[t][k]]
  BY <1>1, EntryIs
<1>4. ASSUME NEW k \in DOMAIN Deps[t]
      PROVE  Tells(Deps[t][k], db[t].sigs[k], W[k])'
  <2>1. PICK c : c = Deps[t][k]
    OBVIOUS
  <2>2. PICK sig : sig = ninfo[c]
    OBVIOUS
  <2>3. Tells(c, sig, W[k])'
    BY <1>1, <1>2, <2>1, <2>2, TellsKept
  <2>4. db'[t].sigs[k] = sig
    BY <1>1, <1>3, <2>1, <2>2
  <2>5. QED
    BY <2>1, <2>3, <2>4
<1>5. QED
  BY <1>1, <1>2, <1>3, <1>4 DEF RightStored

\* What was stored of a target that was not handled is stored again.
LEMMA RightStoredStays ==
  ASSUME UNCHANGED <<setting, content, mtime>>, NEW t \in Target, db'[t] = db[t], RightStored(t)
  PROVE  RightStored(t)'
<1>1. ASSUME NEW c, NEW sig, NEW w, Tells(c, sig, w) PROVE Tells(c, sig, w)'
  BY <1>1 DEF Tells, Precise, Timed
<1>2. PICK W \in Ws(t) :
        /\ content[t] = Make(db[t].bactsig, W)
        /\ \A k \in DOMAIN Deps[t] : Tells(Deps[t][k], db[t].sigs[k], W[k])
  BY DEF RightStored
<1>3. ASSUME NEW k \in DOMAIN Deps[t] PROVE Tells(Deps[t][k], db[t].sigs[k], W[k])'
  <2>1. PICK sig : sig = db[t].sigs[k]
    OBVIOUS
  <2>2. Tells(Deps[t][k], sig, W[k])'
    BY <1>1, <1>2, <2>1
  <2>3. QED
    BY <2>1, <2>2
<1>4. QED
  BY <1>2, <1>3 DEF RightStored

LEMMA RecordedRename ==
  ASSUME Exact, RecordedInv, Rename
  PROVE  RecordedInv'
<1>1. /\ phase' = "idle" /\ to_be_merged' = {}
      /\ \A t \in Target : recorded'[t] = IF recorded[t] = "made" THEN "yes" ELSE recorded[t]
      /\ \A n \in Node : db'[n] = Entry(n)
      /\ UNCHANGED <<setting, command, content, mtime>>
  BY RenameIs DEF Exact
<1>2. ASSUME NEW t \in Target, recorded'[t] = "yes", content[t] # << >>, db'[t].bactsig # 0
      PROVE  RightStored(t)'
  <2>1. recorded[t] \in {"yes", "made"} /\ t \in Node
    BY <1>1, <1>2, Files
  <2>2. CASE t \in to_be_merged
    <3>1. RightNow(t)
      BY <2>1, <2>2 DEF RecordedInv, Firm
    <3>2. QED
      BY <2>2, <3>1, RightNowStored
  <2>3. CASE t \notin to_be_merged
    <3>1. recorded[t] = "yes" /\ db'[t] = db[t]
      BY <1>1, <2>1, <2>3, EntryIs DEF RecordedInv, Exact
    <3>2. RightStored(t)
      BY <1>2, <3>1 DEF RecordedInv
    <3>3. QED
      BY <1>1, <3>1, <3>2, RightStoredStays
  <2>4. QED
    BY <2>2, <2>3
<1>3. \A t \in Target : recorded'[t] # "made"
  BY <1>1
<1>4. QED
  BY <1>1, <1>2, <1>3 DEF RecordedInv

LEMMA RecordedCrash ==
  ASSUME Exact, RecordedInv, Crash
  PROVE  RecordedInv'
<1>1. /\ phase' = "idle" /\ to_be_merged' = {}
      /\ \A t \in Target : recorded'[t] = IF recorded[t] = "made" THEN "no" ELSE recorded[t]
      /\ db' = db \/ \A n \in Node : db'[n] = NoEntry
      /\ UNCHANGED <<setting, command, content, mtime>>
  BY CrashIs DEF Exact
<1>2. ASSUME NEW t \in Target, recorded'[t] = "yes", content[t] # << >>, db'[t].bactsig # 0
      PROVE  RightStored(t)'
  <2>1. recorded[t] = "yes" /\ db' = db
    BY <1>1, <1>2, Files, InfoFields
  <2>2. RightStored(t)
    BY <1>2, <2>1 DEF RecordedInv
  <2>3. QED
    BY <1>1, <2>1, <2>2, RightStoredStays
<1>3. \A t \in Target : recorded'[t] # "made"
  BY <1>1
<1>4. QED
  BY <1>1, <1>2, <1>3 DEF RecordedInv

LEMMA RecordedInit == Exact /\ Init => RecordedInv
<1>1. Init => \A t \in Target : recorded[t] = "yes" /\ content[t] = << >>
  BY Files DEF Init, Node
<1>2. Init => to_be_merged = {} /\ phase = "idle"
  BY DEF Init
<1>3. QED
  BY <1>1, <1>2 DEF RecordedInv

LEMMA RecordedStep ==
  ASSUME Exact, RecordedInv, [Next]_vars
  PROVE  RecordedInv'
<1>1. Base
  BY DEF Exact
<1>2. CASE \E s \in Source, value \in 1 .. MaxContent : Edit(s, value)
  <2>1. PICK s \in Source, value \in 1 .. MaxContent : Edit(s, value)
    BY <1>2
  <2>2. /\ s \in Node /\ s \notin Target /\ mtime'[s] = mtime[s] + 1
        /\ \A n \in Node : n # s => content'[n] = content[n] /\ mtime'[n] = mtime[n]
        /\ UNCHANGED <<setting, command, db, phase, todo, ninfo, to_be_merged, recorded>>
    BY <1>1, <2>1, EditIs
  <2>3. \A t \in Target : content'[t] = content[t]
    BY <2>2, Files
  <2>4. \A n \in Node : \/ mtime'[n] = mtime[n] /\ content'[n] \in {content[n], << >>}
                        \/ mtime'[n] = mtime[n] + 1
    BY <2>2
  <2>5. QED
    BY <2>2, <2>3, <2>4, RecordedKept
<1>3. CASE EditCommand
  <2>1. /\ phase = "idle"
        /\ UNCHANGED <<setting, content, mtime, db, phase, todo, ninfo, to_be_merged, recorded>>
    BY <1>3 DEF EditCommand, build
  <2>2. to_be_merged = {} /\ to_be_merged' = {}
    BY <1>1, <2>1 DEF Base, BuildInv
  <2>3. ASSUME NEW t \in Target, recorded[t] = "yes", content[t] # << >>, db[t].bactsig # 0
        PROVE  RightStored(t)'
    BY <2>1, <2>3, RightStoredStays DEF RecordedInv
  <2>4. QED
    BY <2>1, <2>2, <2>3 DEF RecordedInv
<1>4. CASE Age \/ Interrupt \/ Done \/ Unlink \/ UNCHANGED vars
  <2>1. /\ UNCHANGED <<setting, command, content, mtime, db, ninfo, to_be_merged, recorded>>
        /\ phase' = "executing" => phase = "executing" /\ todo' = todo
    BY <1>4 DEF Age, Interrupt, Done, Unlink, Finish, vars, world, build, observers, history
  <2>2. QED
    BY <2>1, RecordedKept
<1>5. CASE \E request \in Requests : Start(request)
  <2>1. /\ phase = "idle" /\ phase' = "taskmaster" /\ to_be_merged' = {}
        /\ UNCHANGED <<setting, command, content, mtime, db, recorded>>
    BY <1>5 DEF Start, world
  <2>2. to_be_merged = {}
    BY <1>1, <2>1 DEF Base, BuildInv
  <2>3. QED
    BY <2>1, <2>2, RecordedKept
<1>6. CASE VisitSource
  <2>1. /\ phase' = "taskmaster" /\ Head(todo) \in Source /\ Head(todo) \notin to_be_merged
        /\ Head(todo) \notin Target
        /\ \A n \in Node : n # Head(todo) => ninfo'[n] = ninfo[n]
        /\ to_be_merged' = to_be_merged \cup {Head(todo)}
        /\ UNCHANGED <<setting, command, content, mtime, db, recorded>>
    BY <1>1, <1>6, VisitSourceIs
  <2>2. to_be_merged \subseteq Node
    BY <1>1 DEF Base, TypeOK
  <2>3. QED
    BY <2>1, <2>2, RecordedKept
<1>7. QED
  BY <1>2, <1>3, <1>4, <1>5, <1>6, RecordedUpToDate, RecordedOutOfDate, RecordedExecuted,
     RecordedFails, RecordedRename, RecordedCrash DEF Next, Step

-----------------------------------------------------------------------------
(***************************************************************************)
(* The past, while no content came back: o has the obsolete contents of    *)
(* each file, l the last complete one.                                     *)
(***************************************************************************)
\* X was made of contents that the children had, with a command that there was; an
\* obsolete one of something that is obsolete.
Origin(o, l, t, X) ==
  \E c \in had["command"], W \in Ws(t) :
    /\ X = Make(c, W)
    /\ \A k \in DOMAIN Deps[t] :
         W[k] # << >> /\ W[k] \in o[Deps[t][k]] \cup {l[Deps[t][k]]}
    /\ X \in o[t] => c # command \/ \E k \in DOMAIN Deps[t] : W[k] \in o[Deps[t][k]]

SourcesInv(o, l) ==
  \A s \in Source : l[s] = content[s] /\ o[s] = {<<v>> : v \in had[s]} \ {content[s]}
OriginsInv(o, l) ==
  /\ \A t \in Target :
       /\ l[t] \notin o[t] \cup {<<0>>} /\ << >> \notin o[t]
       /\ \A X \in o[t] \cup {l[t]} : X # << >> => Origin(o, l, t, X)
  /\ \A n \in Node : \A X \in o[n] : Len(X) = Len(l[n])
LastInv(l) ==
  \A t \in Target :
    content[t] \in {<< >>, <<0>>, l[t]} /\ (t \in to_be_merged => content[t] = l[t])
SeenInv(o, l) ==
  Precise =>
    /\ \A t \in Target : \A k \in DOMAIN db[t].sigs :
         db[t].sigs[k].csig \in o[Deps[t][k]] \cup {l[Deps[t][k]]}
    /\ \A n \in Node : ninfo[n].csig \in o[n] \cup {l[n], << >>}

\* The signature a build knows c by, or one stored of it at that time, is not that of its
\* content: it was edited since it was visited. Then nothing was stored of this content.
Doubt(c) ==
  \/ ninfo[c].csig \notin {<< >>, content[c]}
  \/ \E u \in Target : \E j \in DOMAIN db[u].sigs :
       SameTime(c, u, j) /\ db[u].sigs[j].csig # content[c]
Elsewhere(c) ==
  \A u \in Target : \A j \in DOMAIN db[u].sigs :
    Deps[u][j] = c => db[u].sigs[j].csig # content[c]
DoubtInv == Precise => \A c \in to_be_merged : Doubt(c) => Elsewhere(c)

\* What sig is about is obsolete...
Obsolete(o, c, sig) ==
  (Precise => sig.csig \in o[c]) /\ (Timed => sig.timestamp < mtime[c])
\* ...and what this build knows of c, or may find of it, is something else.
Apart(c, sig) ==
  /\ Precise => sig.csig # ninfo[c].csig
  /\ Timed => sig.timestamp # ninfo[c].timestamp
  /\ Precise /\ Timed =>
       \A u \in Target : \A j \in DOMAIN db[u].sigs :
         SameTime(c, u, j) => db[u].sigs[j].csig # sig.csig

\* t is still to be looked at.
Waiting(t) ==
  \/ phase = "taskmaster" /\ t \in ToSet(todo)
  \/ phase = "executing" /\ t \in ToSet(Tail(todo))

Hopeless(o, t, k) ==
  /\ Obsolete(o, Deps[t][k], db[t].sigs[k])
  /\ Waiting(t) /\ Deps[t][k] \in to_be_merged => Apart(Deps[t][k], db[t].sigs[k])

\* A target whose entry does not tell what it was made of will be found changed.
StaleStored(o, t) ==
  db[t].bactsig # 0 =>
    \/ RightStored(t)
    \/ db[t].bactsig # command
    \/ \E k \in DOMAIN Deps[t] : Hopeless(o, t, k)
StaleNow(o, t) ==
  \/ RightNow(t)
  \/ \E k \in DOMAIN Deps[t] : Obsolete(o, Deps[t][k], ninfo[Deps[t][k]])
StaleInv(o) ==
  \A t \in Target : StaleStored(o, t) /\ (t \in to_be_merged => StaleNow(o, t))

HistoryInv(o, l) == SourcesInv(o, l) /\ OriginsInv(o, l) /\ LastInv(l) /\ SeenInv(o, l)
Past(o, l) == HistoryInv(o, l) /\ DoubtInv /\ StaleInv(o)

Olds == [Node -> SUBSET Seq(Nat)]
Lasts == [Node -> Seq(Nat)]

LEMMA LastFacts ==
  ASSUME Exact, NEW o \in Olds, NEW l \in Lasts, HistoryInv(o, l), NEW n \in Node
  PROVE  /\ l[n] \notin o[n] /\ << >> \notin o[n]
         /\ n \in to_be_merged => content[n] = l[n]
         /\ n \in Source => content[n] = l[n]
<1>1. CASE n \in Target
  BY <1>1, Files DEF HistoryInv, OriginsInv, LastInv
<1>2. CASE n \in Source
  <2>1. l[n] = content[n] /\ o[n] = {<<v>> : v \in had[n]} \ {content[n]}
    BY <1>2 DEF HistoryInv, SourcesInv
  <2>2. \A v : <<v>> # << >>
    OBVIOUS
  <2>3. << >> \notin o[n]
    BY <2>1, <2>2
  <2>4. QED
    BY <2>1, <2>3
<1>3. QED
  BY <1>1, <1>2, Files DEF Node, File

\* A node that is known at its time is not in doubt.
LEMMA NoDoubt ==
  ASSUME Exact', Precise', NEW c \in to_be_merged', ninfo'[c].timestamp = mtime'[c]
  PROVE  ~Doubt(c)'
<1>1. Known(c)' /\ SigInv'
  BY DEF Exact, InfoInv
<1>2. ninfo'[c].csig \in {<< >>, content'[c]} /\ content'[c] # << >>
  BY <1>1 DEF Known
<1>3. ASSUME NEW u \in Target, NEW j \in DOMAIN db'[u].sigs, SameTime(c, u, j)'
      PROVE  db'[u].sigs[j].csig = content'[c]
  <2>1. PICK sig : sig = db'[u].sigs[j]
    OBVIOUS
  <2>2. Deps[u][j] = c /\ sig.timestamp = mtime'[c]
    BY <1>3, <2>1 DEF SameTime
  <2>3. Stored(c, sig)'
    BY <1>1, <2>1, <2>2 DEF SigInv
  <2>4. QED
    BY <1>2, <2>1, <2>2, <2>3 DEF Stored
<1>4. QED
  BY <1>2, <1>3 DEF Doubt

\* What becomes of the information of c while t waits: c stays known by the same, is looked
\* at, or is visited.
Follows(o, t, c) ==
  Waiting(t)' /\ c \in to_be_merged' =>
    \/ /\ Waiting(t) /\ c \in to_be_merged /\ ninfo'[c].timestamp = ninfo[c].timestamp
       /\ \/ ninfo'[c].csig = ninfo[c].csig
          \/ ninfo'[c].csig = content[c]
          \/ Precise /\ Timed /\ \E u \in Target : \E j \in DOMAIN db[u].sigs :
               SameTime(c, u, j) /\ ninfo'[c].csig = db[u].sigs[j].csig
    \/ ninfo'[c].timestamp = mtime'[c] /\ content'[c] \notin o[c]

\* What is hopeless stays so.
LEMMA HopelessKept ==
  ASSUME Exact, Exact', UNCHANGED <<setting, db>>,
         NEW o \in Olds, NEW l \in Lasts, HistoryInv(o, l),
         NEW t \in Target, NEW k \in DOMAIN db[t].sigs, Hopeless(o, t, k),
         NEW c \in Node, c = Deps[t][k],
         NEW p \in Olds, o[c] \subseteq p[c],
         mtime'[c] = mtime[c] \/ mtime'[c] = mtime[c] + 1,
         Follows(o, t, c)
  PROVE  Hopeless(p, t, k)'
<1>1. PICK sig \in Infos : sig = db[t].sigs[k]
  BY SigPlaces DEF Exact, Base
<1>2. Obsolete(o, c, sig) /\ (Waiting(t) /\ c \in to_be_merged => Apart(c, sig)) /\ Stored(c, sig)
  BY <1>1 DEF Hopeless, Exact, SigInv
<1>3. sig.timestamp \in Nat /\ mtime[c] \in Nat /\ (Precise' <=> Precise) /\ (Timed' <=> Timed)
  BY <1>1, Naturals, InfoFields DEF Exact, Base, Precise, Timed
<1>4. Obsolete(p, c, sig)'
  BY <1>2, <1>3 DEF Obsolete
<1>5. ASSUME Waiting(t), c \in to_be_merged, ninfo'[c].timestamp = ninfo[c].timestamp,
             \/ ninfo'[c].csig = ninfo[c].csig
             \/ ninfo'[c].csig = content[c]
             \/ Precise /\ Timed /\ \E u \in Target : \E j \in DOMAIN db[u].sigs :
                  SameTime(c, u, j) /\ ninfo'[c].csig = db[u].sigs[j].csig
      PROVE  Apart(c, sig)'
  <2>1. Apart(c, sig)
    BY <1>2, <1>5
  <2>2. content[c] \notin o[c]
    BY <1>5, LastFacts
  <2>3. Precise => sig.csig # ninfo'[c].csig
    <3>1. CASE ninfo'[c].csig = ninfo[c].csig
      BY <2>1, <3>1 DEF Apart
    <3>2. CASE ninfo'[c].csig = content[c]
      BY <1>2, <2>2, <3>2 DEF Obsolete
    <3>3. ASSUME Precise, Timed, NEW u \in Target, NEW j \in DOMAIN db[u].sigs,
                 SameTime(c, u, j), ninfo'[c].csig = db[u].sigs[j].csig
          PROVE  sig.csig # ninfo'[c].csig
      BY <2>1, <3>3 DEF Apart
    <3>4. QED
      BY <1>5, <3>1, <3>2, <3>3
  <2>4. \A u, j : SameTime(c, u, j)' <=> SameTime(c, u, j)
    BY <1>5 DEF SameTime
  <2>5. QED
    BY <1>3, <1>5, <2>1, <2>3, <2>4 DEF Apart
<1>6. ASSUME c \in to_be_merged', ninfo'[c].timestamp = mtime'[c], content'[c] \notin o[c]
      PROVE  Apart(c, sig)'
  <2>1. Timed => sig.timestamp # ninfo'[c].timestamp
    BY <1>2, <1>3, <1>6 DEF Obsolete
  <2>2. Precise => ~Doubt(c)'
    BY <1>3, <1>6, NoDoubt
  <2>3. Precise => sig.csig # ninfo'[c].csig
    BY <1>2, <1>6, <2>2 DEF Doubt, Obsolete, Stored
  <2>4. ASSUME Precise, NEW u \in Target, NEW j \in DOMAIN db'[u].sigs, SameTime(c, u, j)'
        PROVE  db'[u].sigs[j].csig # sig.csig
    BY <1>2, <1>6, <2>2, <2>4 DEF Doubt, Obsolete
  <2>5. QED
    BY <1>3, <2>1, <2>3, <2>4 DEF Apart
<1>7. Waiting(t)' /\ c \in to_be_merged' => Apart(c, sig)'
  BY <1>5, <1>6 DEF Follows
<1>8. QED
  BY <1>1, <1>4, <1>7 DEF Hopeless

-----------------------------------------------------------------------------
(***************************************************************************)
(* The past, when the children of a target are looked at.                  *)
(***************************************************************************)
LEMMA SeenLooked ==
  ASSUME Exact, NEW o \in Olds, NEW l \in Lasts, HistoryInv(o, l), Precise,
         todo # << >>, Head(todo) \in Target, NEW n \in Node
  PROVE  AfterChanged(Head(todo))[n].csig \in o[n] \cup {l[n], << >>}
<1> DEFINE new == AfterChanged(Head(todo))[n]
<1>1. ninfo[n].csig \in o[n] \cup {l[n], << >>}
  BY DEF HistoryInv, SeenInv
<1>2. CASE n \notin ToSet(Deps[Head(todo)])
  BY <1>1, <1>2, LookEffect DEF Exact, Base
<1>3. CASE n \in ToSet(Deps[Head(todo)])
  <2>1. n \in to_be_merged
    BY <1>3, LookSays
  <2>2. content[n] = l[n]
    BY <2>1, LastFacts
  <2>3. \/ new = ninfo[n]
        \/ new.csig = content[n]
        \/ \E u \in Target : \E j \in DOMAIN db[u].sigs :
             SameTime(n, u, j) /\ new.csig = db[u].sigs[j].csig
    BY <2>1, LookFinds
  <2>4. ASSUME NEW u \in Target, NEW j \in DOMAIN db[u].sigs, SameTime(n, u, j)
        PROVE  db[u].sigs[j].csig \in o[n] \cup {l[n]}
    BY <2>4 DEF HistoryInv, SeenInv, SameTime
  <2> HIDE DEF new
  <2>5. new.csig \in o[n] \cup {l[n], << >>}
    BY <1>1, <2>2, <2>3, <2>4
  <2>6. QED
    BY <2>5 DEF new
<1>4. QED
  BY <1>2, <1>3

LEMMA DoubtLooked ==
  ASSUME Exact, DoubtInv, UNCHANGED <<setting, db>>, Precise,
         todo # << >>, Head(todo) \in Target, NEW c \in to_be_merged,
         content'[c] = content[c], ninfo'[c] = AfterChanged(Head(todo))[c], Doubt(c)'
  PROVE  Elsewhere(c)'
<1>1. /\ ninfo'[c].timestamp = ninfo[c].timestamp
      /\ \/ ninfo'[c] = ninfo[c]
         \/ ninfo'[c].csig = content[c]
         \/ \E u \in Target : \E j \in DOMAIN db[u].sigs :
              SameTime(c, u, j) /\ ninfo'[c].csig = db[u].sigs[j].csig
  BY LookFinds
<1>2. \A u, j : SameTime(c, u, j)' <=> SameTime(c, u, j)
  BY <1>1 DEF SameTime
<1>3. ASSUME NEW u \in Target, NEW j \in DOMAIN db[u].sigs, SameTime(c, u, j),
             db[u].sigs[j].csig # content[c]
      PROVE  Doubt(c)
  BY <1>3 DEF Doubt
<1>4. CASE ninfo'[c].csig \notin {<< >>, content[c]}
  <2>1. CASE ninfo'[c] = ninfo[c]
    BY <1>4, <2>1 DEF Doubt, DoubtInv, Elsewhere
  <2>2. ASSUME NEW u \in Target, NEW j \in DOMAIN db[u].sigs,
               SameTime(c, u, j), ninfo'[c].csig = db[u].sigs[j].csig
        PROVE  Doubt(c)
    BY <1>3, <1>4, <2>2
  <2>3. Doubt(c)
    BY <1>1, <1>4, <2>1, <2>2 DEF Doubt
  <2>4. QED
    BY <2>3 DEF DoubtInv, Elsewhere
<1>5. CASE \E u \in Target : \E j \in DOMAIN db'[u].sigs :
             SameTime(c, u, j)' /\ db'[u].sigs[j].csig # content[c]
  <2>1. Doubt(c)
    BY <1>2, <1>3, <1>5
  <2>2. QED
    BY <2>1 DEF DoubtInv, Elsewhere
<1>6. QED
  BY <1>4, <1>5 DEF Doubt

LEMMA StaleNowKept ==
  ASSUME Exact, UNCHANGED <<setting, command>>, NEW t \in to_be_merged \cap Target,
         content'[t] = content[t],
         \A n \in Node : \/ mtime'[n] = mtime[n] /\ content'[n] \in {content[n], << >>}
                         \/ mtime'[n] = mtime[n] + 1,
         \A c \in ToSet(Deps[t]) : ninfo'[c] = ninfo[c],
         NEW o \in Olds, NEW p \in Olds, \A n \in Node : o[n] \subseteq p[n],
         StaleNow(o, t)
  PROVE  StaleNow(p, t)'
<1>1. CASE RightNow(t)
  <2>1. RightNow(t)'
    BY <1>1, RightNowKept
  <2>2. QED
    BY <2>1 DEF StaleNow
<1>2. ASSUME NEW k \in DOMAIN Deps[t], Obsolete(o, Deps[t][k], ninfo[Deps[t][k]])
      PROVE  StaleNow(p, t)'
  <2>1. PICK c \in Node : c = Deps[t][k] /\ c \in ToSet(Deps[t])
    BY Files
  <2>2. PICK sig : sig = ninfo[c]
    OBVIOUS
  <2>3. Obsolete(o, c, sig) /\ sig.timestamp \in Nat /\ mtime[c] \in Nat
    BY <1>2, <2>1, <2>2, Naturals DEF Exact, Base
  <2>4. mtime'[c] = mtime[c] \/ mtime'[c] = mtime[c] + 1
    BY <2>1
  <2>5. Obsolete(p, c, sig)'
    BY <2>1, <2>3, <2>4 DEF Obsolete, Precise, Timed
  <2>6. ninfo'[c] = sig
    BY <2>1, <2>2
  <2>7. QED
    BY <2>1, <2>5, <2>6 DEF StaleNow
<1>3. QED
  BY <1>1, <1>2 DEF StaleNow

\* A signature that others find of a child of a stale target is obsolete too.
LEMMA StaleNowLooked ==
  ASSUME Exact, NEW o \in Olds, NEW l \in Lasts, HistoryInv(o, l), DoubtInv,
         UNCHANGED <<setting, command, mtime>>, todo # << >>, Head(todo) \in Target,
         NEW t \in to_be_merged \cap Target, content'[t] = content[t],
         \A n \in Node : content'[n] \in {content[n], << >>},
         \A c \in ToSet(Deps[t]) : ninfo'[c] = AfterChanged(Head(todo))[c],
         StaleNow(o, t)
  PROVE  StaleNow(o, t)'
<1>1. CASE \A c \in ToSet(Deps[t]) : ninfo'[c] = ninfo[c]
  <2>1. \A n \in Node : \/ mtime'[n] = mtime[n] /\ content'[n] \in {content[n], << >>}
                        \/ mtime'[n] = mtime[n] + 1
    OBVIOUS
  <2>2. QED
    BY <1>1, <2>1, StaleNowKept
<1>2. ASSUME NEW c \in ToSet(Deps[t]), ninfo'[c] # ninfo[c]
      PROVE  StaleNow(o, t)'
  <2>1. /\ c \in to_be_merged /\ c \in Node /\ (Precise => ninfo[c].csig # << >>)
        /\ content[c] = l[c] /\ l[c] \notin o[c]
    BY InfoOfChild, LastFacts
  <2>2. PICK new \in Infos : new = ninfo'[c] /\ ninfo[c] \in Infos
    BY <2>1, LookEffect DEF Exact, Base, TypeOK
  <2>3. /\ new.timestamp = ninfo[c].timestamp /\ Precise /\ Timed
        /\ \E u \in Target : \E j \in DOMAIN db[u].sigs :
             SameTime(c, u, j) /\ new.csig = db[u].sigs[j].csig
    BY <1>2, <2>1, <2>2, LookFinds
  <2>4. PICK u \in Target : \E j \in DOMAIN db[u].sigs :
          SameTime(c, u, j) /\ new.csig = db[u].sigs[j].csig
    BY <2>3
  <2>5. PICK j \in DOMAIN db[u].sigs : SameTime(c, u, j) /\ new.csig = db[u].sigs[j].csig
    BY <2>4
  <2>6. new.csig # ninfo[c].csig
    BY <1>2, <2>2, <2>3, InfoSame
  <2>7. new.csig # content[c]
    <3>1. SUFFICES ASSUME new.csig = content[c] PROVE FALSE
      OBVIOUS
    <3>2. Doubt(c)
      BY <2>1, <2>3, <2>6, <3>1 DEF Doubt
    <3>3. Elsewhere(c)
      BY <2>1, <2>3, <3>2 DEF DoubtInv
    <3>4. QED
      BY <2>5, <3>1, <3>3 DEF Elsewhere, SameTime
  <2>8. new.csig \in o[c]
    BY <2>1, <2>3, <2>5, <2>7 DEF HistoryInv, SeenInv, SameTime
  <2>9. new.timestamp < mtime[c]
    <3>1. ninfo[c].timestamp # mtime[c]
      BY <2>1, <2>3, <2>5, <2>7, KeptNow
    <3>2. ninfo[c].timestamp <= mtime[c]
      BY <2>1 DEF Exact, InfoInv, Known
    <3>3. ninfo[c].timestamp \in Nat /\ mtime[c] \in Nat
      BY <2>1, Naturals DEF Exact, Base
    <3>4. QED
      BY <2>3, <3>1, <3>2, <3>3
  <2>10. Obsolete(o, c, new)'
    BY <2>8, <2>9 DEF Obsolete
  <2>11. PICK k \in DOMAIN Deps[t] : Deps[t][k] = c
    BY Files DEF ToSet
  <2>12. QED
    BY <2>2, <2>10, <2>11 DEF StaleNow
<1>3. QED
  BY <1>1, <1>2

\* A target that is hopeless is not found up to date...
LEMMA HopelessChanged ==
  ASSUME Exact, NEW o \in Olds, NEW l \in Lasts, HistoryInv(o, l),
         phase = "taskmaster", todo # << >>, Head(todo) \in Target,
         db[Head(todo)].bactsig # 0, NEW k \in DOMAIN Deps[Head(todo)], Hopeless(o, Head(todo), k)
  PROVE  Changed(Head(todo))
<1> DEFINE t == Head(todo)
<1>1. /\ Base /\ t \in Target /\ Len(db[t].sigs) = Len(Deps[t])
      /\ DOMAIN Deps[t] = 1 .. Len(Deps[t]) /\ DOMAIN db[t].sigs = 1 .. Len(db[t].sigs)
  BY Files, SigPlaces DEF Exact, Base, SigInv
<1>2. PICK c \in to_be_merged : c = Deps[t][k] /\ c \in ToSet(Deps[t]) /\ c \in Node
  BY <1>1, LookSays, Files
<1>3. PICK sig \in Infos : sig = db[t].sigs[k] /\ Prev(t, k) = sig
  BY <1>1, SigPlaces, Previous DEF Base
<1>4. t \in ToSet(todo)
  BY <1>1, QueueHead DEF Base, TypeOK, BuildInv
<1>5. Obsolete(o, c, sig) /\ Apart(c, sig)
  BY <1>2, <1>3, <1>4 DEF Hopeless, Waiting
<1>6. content[c] = l[c] /\ l[c] \notin o[c]
  BY <1>2, LastFacts
<1>7. Timed => ~TimestampMatches(c, sig)
  BY <1>5 DEF Apart, TimestampMatches
<1>8. Precise => ContentChanged(c, sig)
  BY <1>2, <1>5, <1>6, HandledCsig DEF Apart, Obsolete, ContentChanged
<1>9. setting.decider \in {"content", "timestamp-match", "MD5-timestamp"}
  BY <1>1, SettingsAssumption DEF Base, TypeOK
<1>10. ChildChanged(c, sig)
  BY <1>7, <1>8, <1>9 DEF ChildChanged, Timed, Precise
<1>11. QED
  BY <1>2, <1>3, <1>10 DEF Changed, DepsChanged

\* ...and one that is found changed, though its entry is right, is hopeless.
LEMMA ChangedObsolete ==
  ASSUME Exact, NEW o \in Olds, NEW l \in Lasts, HistoryInv(o, l), DoubtInv,
         todo # << >>, Head(todo) \in Target, Changed(Head(todo)),
         db[Head(todo)].bactsig = command, RightStored(Head(todo))
  PROVE  \E k \in DOMAIN Deps[Head(todo)] :
           Obsolete(o, Deps[Head(todo)][k], db[Head(todo)].sigs[k])
<1> DEFINE t == Head(todo)
<1>1. /\ Base /\ t \in Target /\ Len(db[t].sigs) = Len(Deps[t])
      /\ DOMAIN Deps[t] = 1 .. Len(Deps[t]) /\ DOMAIN db[t].sigs = 1 .. Len(db[t].sigs)
  BY Files, SigPlaces DEF Exact, Base, RightStored
<1>2. PICK k \in DOMAIN Deps[t] : ChildChanged(Deps[t][k], Prev(t, k))
  BY <1>1 DEF Changed, DepsChanged
<1>3. PICK c \in to_be_merged : c = Deps[t][k] /\ c \in ToSet(Deps[t]) /\ c \in Node
  BY <1>1, LookSays, Files
<1>4. PICK sig \in Infos : sig = db[t].sigs[k] /\ Prev(t, k) = sig
  BY <1>1, SigPlaces, Previous DEF Base
<1>5. Stored(c, sig) /\ Known(c) /\ ChildChanged(c, sig)
  BY <1>1, <1>2, <1>3, <1>4 DEF Exact, SigInv, InfoInv
<1>6. content[c] = l[c]
  BY <1>3, LastFacts
<1>7. setting.decider \in {"content", "timestamp-match", "MD5-timestamp"}
  BY <1>1, SettingsAssumption DEF Base, TypeOK
<1>8. (Timed => ~TimestampMatches(c, sig)) /\ (Precise => ContentChanged(c, sig))
  BY <1>5, <1>7 DEF ChildChanged, Timed, Precise
<1>9. Timed => sig.timestamp < mtime[c]
  <2>1. sig.timestamp \in Nat /\ mtime[c] \in Nat /\ ninfo[c].timestamp \in Nat
    BY <1>1, <1>3, Naturals, InfoFields DEF Base
  <2>2. sig.timestamp <= ninfo[c].timestamp /\ ninfo[c].timestamp <= mtime[c]
    BY <1>3, <1>5 DEF Stored, Known
  <2>3. QED
    BY <1>8, <2>1, <2>2 DEF TimestampMatches
<1>10. ASSUME Precise PROVE sig.csig \in o[c]
  <2>1. sig.csig \in o[c] \cup {l[c]}
    BY <1>1, <1>3, <1>4, <1>10 DEF HistoryInv, SeenInv
  <2>2. sig.csig # content[c]
    <3>1. SUFFICES ASSUME sig.csig = content[c] PROVE FALSE
      OBVIOUS
    <3>2. ninfo[c].csig \notin {<< >>, content[c]}
      BY <1>3, <1>5, <1>8, <1>10, <3>1, HandledCsig DEF ContentChanged
    <3>3. Elsewhere(c)
      BY <1>10, <3>2 DEF Doubt, DoubtInv
    <3>4. QED
      BY <1>1, <1>3, <1>4, <3>1, <3>3 DEF Elsewhere
  <2>3. QED
    BY <1>6, <2>1, <2>2
<1>11. QED
  BY <1>3, <1>4, <1>9, <1>10 DEF Obsolete

LEMMA StaleStoredKept ==
  ASSUME Exact, Exact', UNCHANGED <<setting, command, db>>,
         NEW o \in Olds, NEW l \in Lasts, HistoryInv(o, l),
         NEW p \in Olds, \A n \in Node : o[n] \subseteq p[n],
         NEW t \in Target, content'[t] = content[t] \/ ~RightStored(t),
         \A n \in Node : \/ mtime'[n] = mtime[n] /\ content'[n] \in {content[n], << >>}
                         \/ mtime'[n] = mtime[n] + 1,
         \A c \in ToSet(Deps[t]) : Follows(o, t, c),
         StaleStored(o, t)
  PROVE  StaleStored(p, t)'
<1>1. SUFFICES ASSUME db[t].bactsig # 0, db[t].bactsig = command
               PROVE  RightStored(t)' \/ \E k \in DOMAIN Deps[t] : Hopeless(p, t, k)'
  BY DEF StaleStored
<1>2. CASE RightStored(t)
  BY <1>2, RightStoredKept
<1>3. ASSUME NEW k \in DOMAIN Deps[t], Hopeless(o, t, k)
      PROVE  Hopeless(p, t, k)'
  <2>1. /\ Len(db[t].sigs) = Len(Deps[t])
        /\ DOMAIN Deps[t] = 1 .. Len(Deps[t]) /\ DOMAIN db[t].sigs = 1 .. Len(db[t].sigs)
    BY <1>1, Files, SigPlaces DEF Exact, Base, SigInv
  <2>2. k \in DOMAIN db[t].sigs
    BY <2>1
  <2>3. PICK c \in Node : c = Deps[t][k] /\ c \in ToSet(Deps[t])
    BY Files
  <2>4. mtime'[c] = mtime[c] \/ mtime'[c] = mtime[c] + 1
    BY <2>3
  <2>5. QED
    BY <1>3, <2>2, <2>3, <2>4, HopelessKept
<1>4. QED
  BY <1>1, <1>2, <1>3 DEF StaleStored

\* What was made is right, or a target that was removed or cut short is not.
LEMMA RightMade ==
  ASSUME Base, NEW t \in Target, RightStored(t)
  PROVE  content[t] # << >> /\ (db[t].bactsig # 0 => content[t] # <<0>>)
<1>1. PICK W \in Ws(t) : content[t] = Make(db[t].bactsig, W)
  BY DEF RightStored
<1>2. db[t].bactsig \in Nat /\ W \in Seq(Seq(Nat))
  BY Files, InfoFields, SequencesOfContents DEF Base, TypeOK
<1>3. QED
  BY <1>1, <1>2, MakeType

-----------------------------------------------------------------------------
(***************************************************************************)
(* The past is inductive: steps that write nothing.                        *)
(***************************************************************************)
LEMMA HistoryKept ==
  ASSUME NEW o \in Olds, NEW l \in Lasts, HistoryInv(o, l),
         UNCHANGED <<had, command>>, \A s \in Source : content'[s] = content[s]
  PROVE  SourcesInv(o, l)' /\ OriginsInv(o, l)'
<1>1. SourcesInv(o, l)'
  BY DEF HistoryInv, SourcesInv
<1>2. \A t, X : Origin(o, l, t, X)' <=> Origin(o, l, t, X)
  BY DEF Origin
<1>3. OriginsInv(o, l)'
  BY <1>2 DEF HistoryInv, OriginsInv
<1>4. QED
  BY <1>1, <1>3

\* A step that ends a build or begins one, or does nothing to files and information.
LEMMA PastQuiet ==
  ASSUME Exact, Exact', NEW o \in Olds, NEW l \in Lasts, Past(o, l),
         UNCHANGED <<setting, command, content, mtime, had>>,
         \/ UNCHANGED <<db, ninfo, to_be_merged>> /\ \A t \in Target : Waiting(t)' => Waiting(t)
         \/ /\ to_be_merged' = {} /\ \A n \in Node : ninfo'[n] = NoInfo
            /\ db' = db \/ \A n \in Node : db'[n] = NoEntry
  PROVE  Past(o, l)'
<1>1. SourcesInv(o, l)' /\ OriginsInv(o, l)'
  BY HistoryKept DEF Past
<1>2. LastInv(l)'
  BY DEF Past, HistoryInv, LastInv
<1>3. /\ db' = db \/ \A n \in Node : db'[n] = NoEntry
      /\ ninfo' = ninfo \/ \A n \in Node : ninfo'[n] = NoInfo
      /\ NoInfo.csig = << >> /\ NoEntry.sigs = << >> /\ NoEntry.bactsig = 0
      /\ (Precise' <=> Precise) /\ (Timed' <=> Timed)
  BY InfoFields DEF Precise, Timed
<1>4. SeenInv(o, l)'
  <2>1. ASSUME Precise, NEW t \in Target, NEW k \in DOMAIN db'[t].sigs
        PROVE  db'[t].sigs[k].csig \in o[Deps[t][k]] \cup {l[Deps[t][k]]}
    <3>1. db' = db
      BY <1>3, <2>1, Files
    <3>2. QED
      BY <2>1, <3>1 DEF Past, HistoryInv, SeenInv
  <2>2. ASSUME Precise, NEW n \in Node PROVE ninfo'[n].csig \in o[n] \cup {l[n], << >>}
    BY <1>3, <2>2 DEF Past, HistoryInv, SeenInv
  <2>3. QED
    BY <1>3, <2>1, <2>2 DEF SeenInv
<1>5. DoubtInv'
  <2>1. SUFFICES ASSUME Precise, NEW c \in to_be_merged', Doubt(c)' PROVE Elsewhere(c)'
    BY <1>3 DEF DoubtInv
  <2>2. UNCHANGED <<db, ninfo, to_be_merged>>
    BY <2>1
  <2>3. Doubt(c)
    BY <2>1, <2>2 DEF Doubt, SameTime
  <2>4. QED
    BY <2>1, <2>2, <2>3 DEF Past, DoubtInv, Elsewhere
<1>6. \A n \in Node : mtime'[n] = mtime[n] /\ content'[n] \in {content[n], << >>}
  OBVIOUS
<1>7. ASSUME NEW t \in Target PROVE StaleStored(o, t)'
  <2>1. CASE db' = db
    <3>1. \A c \in ToSet(Deps[t]) : Follows(o, t, c)
      BY DEF Follows
    <3>2. content'[t] = content[t] /\ StaleStored(o, t)
      BY DEF Past, StaleInv
    <3>3. QED
      BY <1>6, <2>1, <3>1, <3>2, StaleStoredKept DEF Past
  <2>2. CASE \A n \in Node : db'[n] = NoEntry
    BY <1>3, <2>2, Files DEF StaleStored
  <2>3. QED
    BY <1>3, <2>1, <2>2
<1>8. ASSUME NEW t \in to_be_merged' \cap Target PROVE StaleNow(o, t)'
  <2>1. UNCHANGED <<ninfo, to_be_merged>>
    BY <1>8
  <2>2. t \in to_be_merged \cap Target /\ StaleNow(o, t) /\ content'[t] = content[t]
    BY <1>8, <2>1 DEF Past, StaleInv
  <2>3. QED
    BY <1>6, <2>1, <2>2, StaleNowKept
<1>9. QED
  BY <1>1, <1>2, <1>4, <1>5, <1>7, <1>8 DEF Past, HistoryInv, StaleInv

LEMMA PastCommand ==
  ASSUME Exact, Exact', NEW o \in Olds, NEW l \in Lasts, Past(o, l), EditCommand, ~reverted'
  PROVE  Past(o, l)'
<1>1. /\ phase = "idle" /\ command' \notin had["command"]
      /\ had' = [had EXCEPT !["command"] = @ \cup {command'}]
      /\ UNCHANGED <<setting, content, mtime, db, phase, todo, ninfo, to_be_merged>>
  BY DEF EditCommand, Given, build
<1>2. to_be_merged = {} /\ "command" \notin Source
      /\ (Precise' <=> Precise) /\ (Timed' <=> Timed)
  BY <1>1, GraphAssumption DEF Exact, Base, BuildInv, Precise, Timed
<1>3. /\ \A s \in Source : had'[s] = had[s]
      /\ had["command"] \subseteq had'["command"]
  BY <1>1, <1>2 DEF Exact, Base, TypeOK
<1>4. SourcesInv(o, l)'
  BY <1>1, <1>3 DEF Past, HistoryInv, SourcesInv
<1>5. OriginsInv(o, l)'
  <2>1. ASSUME NEW t \in Target, NEW X, Origin(o, l, t, X) PROVE Origin(o, l, t, X)'
    <3>1. PICK c \in had["command"], W \in Ws(t) :
            /\ X = Make(c, W)
            /\ \A k \in DOMAIN Deps[t] :
                 W[k] # << >> /\ W[k] \in o[Deps[t][k]] \cup {l[Deps[t][k]]}
      BY <2>1 DEF Origin
    <3>2. c \in had'["command"] /\ c # command'
      BY <1>1, <1>3
    <3>3. QED
      BY <3>1, <3>2 DEF Origin
  <2>2. QED
    BY <2>1 DEF Past, HistoryInv, OriginsInv
<1>6. LastInv(l)' /\ SeenInv(o, l)'
  BY <1>1, <1>2 DEF Past, HistoryInv, LastInv, SeenInv
<1>7. DoubtInv'
  BY <1>1, <1>2 DEF DoubtInv
<1>8. ASSUME NEW t \in Target PROVE StaleStored(o, t)'
  <2>1. db[t].bactsig \in had["command"] \cup {0}
    BY DEF Exact, Base, FileInv
  <2>2. QED
    BY <1>1, <2>1 DEF StaleStored
<1>9. QED
  BY <1>1, <1>2, <1>4, <1>5, <1>6, <1>7, <1>8 DEF Past, HistoryInv, StaleInv

LEMMA PastVisitSource ==
  ASSUME Exact, Exact', NEW o \in Olds, NEW l \in Lasts, Past(o, l), VisitSource
  PROVE  Past(o, l)'
<1> DEFINE h == Head(todo)
<1>1. /\ phase = "taskmaster" /\ todo # << >> /\ h \in Source /\ h \in Node /\ h \notin Target
      /\ h \notin to_be_merged
      /\ ninfo'[h] = Visited(h, NoInfo)
      /\ \A n \in Node : n # h => ninfo'[n] = ninfo[n]
      /\ to_be_merged' = to_be_merged \cup {h} /\ todo' = Tail(todo)
      /\ UNCHANGED <<setting, command, content, mtime, db, phase, had>>
  BY VisitSourceIs DEF Exact
<1>2. /\ content[h] # << >> /\ content[h] = l[h] /\ l[h] \notin o[h]
      /\ to_be_merged \subseteq Node /\ (Precise' <=> Precise) /\ (Timed' <=> Timed)
  <2>1. content[h] # << >>
    <3>1. PICK v \in had[h] : content[h] = <<v>>
      BY <1>1 DEF Exact, Base, FileInv
    <3>2. QED
      BY <3>1
  <2>2. QED
    BY <1>1, <2>1, LastFacts DEF Past, Exact, Base, TypeOK, Precise, Timed
<1>3. ninfo'[h].timestamp = mtime[h] /\ (Precise => ninfo'[h].csig \in {<< >>, content[h]})
  BY <1>1, <1>2, VisitedKnown
<1>4. SourcesInv(o, l)' /\ OriginsInv(o, l)'
  BY <1>1, HistoryKept DEF Past
<1>5. LastInv(l)'
  BY <1>1 DEF Past, HistoryInv, LastInv
<1>6. SeenInv(o, l)'
  <2>1. ASSUME Precise, NEW n \in Node PROVE ninfo'[n].csig \in o[n] \cup {l[n], << >>}
    BY <1>1, <1>2, <1>3, <2>1 DEF Past, HistoryInv, SeenInv
  <2>2. QED
    BY <1>1, <1>2, <2>1 DEF Past, HistoryInv, SeenInv
<1>7. DoubtInv'
  <2>1. SUFFICES ASSUME Precise, NEW c \in to_be_merged', Doubt(c)' PROVE Elsewhere(c)'
    BY <1>2 DEF DoubtInv
  <2>2. c # h
    BY <1>1, <1>2, <1>3, <2>1, NoDoubt
  <2>3. c \in to_be_merged /\ ninfo'[c] = ninfo[c]
    BY <1>1, <1>2, <2>2
  <2>4. Doubt(c)
    BY <1>1, <2>1, <2>3 DEF Doubt, SameTime
  <2>5. QED
    BY <1>1, <2>1, <2>3, <2>4 DEF Past, DoubtInv, Elsewhere
<1>8. \A n \in Node : mtime'[n] = mtime[n] /\ content'[n] \in {content[n], << >>}
  BY <1>1
<1>9. ASSUME NEW t \in Target PROVE StaleStored(o, t)'
  <2>1. Waiting(t)' => Waiting(t)
    BY <1>1, TailElements DEF Waiting, Exact, Base, TypeOK, BuildInv, Queue
  <2>2. ASSUME NEW c \in Node, Waiting(t)', c \in to_be_merged', c # h
        PROVE  /\ Waiting(t) /\ c \in to_be_merged /\ ninfo'[c] = ninfo[c]
    BY <1>1, <2>1, <2>2
  <2>3. \A c \in ToSet(Deps[t]) : Follows(o, t, c)
    BY <1>1, <1>2, <1>3, <2>2, Files DEF Follows
  <2>4. content'[t] = content[t] /\ StaleStored(o, t)
    BY <1>1 DEF Past, StaleInv
  <2>5. QED
    BY <1>1, <1>8, <2>3, <2>4, StaleStoredKept DEF Past
<1>10. ASSUME NEW t \in to_be_merged' \cap Target PROVE StaleNow(o, t)'
  <2>1. t \in to_be_merged \cap Target /\ StaleNow(o, t) /\ content'[t] = content[t]
    BY <1>1, <1>10 DEF Past, StaleInv
  <2>2. \A c \in ToSet(Deps[t]) : ninfo'[c] = ninfo[c]
    BY <1>1, <2>1, InfoOfChild
  <2>3. QED
    BY <1>1, <1>8, <2>1, <2>2, StaleNowKept
<1>11. QED
  BY <1>4, <1>5, <1>6, <1>7, <1>9, <1>10 DEF Past, HistoryInv, StaleInv

\* An up to date target was made of what its entry tells.
LEMMA UpToDateSound ==
  ASSUME Exact, NEW o \in Olds, NEW l \in Lasts, Past(o, l),
         phase = "taskmaster", todo # << >>, Head(todo) \in Target, ~Changed(Head(todo))
  PROVE  RightStored(Head(todo)) /\ db[Head(todo)].bactsig # 0
<1> DEFINE h == Head(todo)
<1>1. db[h].bactsig = command /\ command # 0
  BY DEF Changed, Exact, Base, TypeOK
<1>2. StaleStored(o, h)
  BY DEF Past, StaleInv
<1>3. ASSUME NEW k \in DOMAIN Deps[h], Hopeless(o, h, k) PROVE FALSE
  BY <1>1, <1>3, HopelessChanged DEF Past
<1>4. QED
  BY <1>1, <1>2, <1>3 DEF StaleStored

LEMMA PastUpToDate ==
  ASSUME Exact, Exact', NEW o \in Olds, NEW l \in Lasts, Past(o, l), UpToDate
  PROVE  Past(o, l)'
<1> DEFINE h == Head(todo)
<1>1. /\ phase = "taskmaster" /\ todo # << >> /\ h \in Target /\ h \in Node /\ h \notin Source
      /\ content[h] # << >> /\ ~Changed(h)
      /\ ninfo'[h] = Visited(h, AfterChanged(h)[h])
      /\ \A n \in Node : n # h => ninfo'[n] = AfterChanged(h)[n]
      /\ to_be_merged' = to_be_merged \cup {h} /\ todo' = Tail(todo)
      /\ UNCHANGED <<setting, command, content, mtime, db, phase, had>>
  BY UpToDateIs, Files DEF Exact
<1>2. /\ h \notin to_be_merged /\ h \notin ToSet(Deps[h])
      /\ to_be_merged \subseteq Node /\ (Precise' <=> Precise) /\ (Timed' <=> Timed)
  BY <1>1, QueueHead DEF Exact, Base, TypeOK, BuildInv, Precise, Timed
<1>3. RightStored(h)
  BY <1>1, UpToDateSound
<1>4. content[h] = l[h] /\ l[h] \notin o[h]
  <2>1. content[h] # <<0>>
    BY <1>1, <1>3, UpToDateSound, RightMade DEF Exact
  <2>2. QED
    BY <1>1, <2>1, LastFacts DEF Past, HistoryInv, LastInv
<1>5. ninfo'[h].timestamp = mtime[h] /\ (Precise => ninfo'[h].csig \in {<< >>, content[h]})
  <2>1. AfterChanged(h)[h] = NoInfo
    BY <1>1, <1>2, LookEffect DEF Exact, Base, BuildInv
  <2>2. QED
    BY <1>1, <2>1, VisitedKnown
<1>6. SourcesInv(o, l)' /\ OriginsInv(o, l)'
  BY <1>1, HistoryKept DEF Past
<1>7. LastInv(l)'
  BY <1>1, <1>4 DEF Past, HistoryInv, LastInv
<1>8. SeenInv(o, l)'
  <2>1. ASSUME Precise, NEW n \in Node PROVE ninfo'[n].csig \in o[n] \cup {l[n], << >>}
    BY <1>1, <1>4, <1>5, <2>1, SeenLooked DEF Past
  <2>2. QED
    BY <1>1, <1>2, <2>1 DEF Past, HistoryInv, SeenInv
<1>9. DoubtInv'
  <2>1. SUFFICES ASSUME Precise, NEW c \in to_be_merged', Doubt(c)' PROVE Elsewhere(c)'
    BY <1>2 DEF DoubtInv
  <2>2. c # h
    BY <1>1, <1>2, <1>5, <2>1, NoDoubt
  <2>3. c \in to_be_merged /\ c \in Node /\ ninfo'[c] = AfterChanged(h)[c]
    BY <1>1, <1>2, <2>2
  <2>4. QED
    BY <1>1, <2>1, <2>3, DoubtLooked DEF Past
<1>10. \A n \in Node : mtime'[n] = mtime[n] /\ content'[n] \in {content[n], << >>}
  BY <1>1
<1>11. ASSUME NEW t \in Target PROVE StaleStored(o, t)'
  <2>1. Waiting(t)' => Waiting(t)
    BY <1>1, TailElements DEF Waiting, Exact, Base, TypeOK, BuildInv, Queue
  <2>2. ASSUME NEW c \in Node, c \in to_be_merged', c # h
        PROVE  /\ c \in to_be_merged /\ ninfo'[c].timestamp = ninfo[c].timestamp
               /\ \/ ninfo'[c].csig = ninfo[c].csig
                  \/ ninfo'[c].csig = content[c]
                  \/ Precise /\ Timed /\ \E u \in Target : \E j \in DOMAIN db[u].sigs :
                       SameTime(c, u, j) /\ ninfo'[c].csig = db[u].sigs[j].csig
    BY <1>1, <2>2, LookFinds
  <2>3. \A c \in ToSet(Deps[t]) : Follows(o, t, c)
    BY <1>1, <1>4, <1>5, <2>1, <2>2, Files DEF Follows
  <2>4. content'[t] = content[t] /\ StaleStored(o, t)
    BY <1>1 DEF Past, StaleInv
  <2>5. QED
    BY <1>1, <1>10, <2>3, <2>4, StaleStoredKept DEF Past
<1>12. ASSUME NEW t \in to_be_merged \cap Target PROVE StaleNow(o, t)'
  <2>1. StaleNow(o, t) /\ content'[t] = content[t]
    BY <1>1, <1>12 DEF Past, StaleInv
  <2>2. \A c \in ToSet(Deps[t]) : ninfo'[c] = AfterChanged(h)[c]
    BY <1>1, <1>2, <1>12, InfoOfChild
  <2>3. QED
    BY <1>1, <1>10, <2>1, <2>2, StaleNowLooked DEF Past
<1>13. ASSUME NEW t \in {h} PROVE StaleNow(o, t)'
  <2>1. RightNow(t)'
    BY <1>3, UpToDateRight
  <2>2. QED
    BY <2>1 DEF StaleNow
<1>14. QED
  BY <1>1, <1>6, <1>7, <1>8, <1>9, <1>11, <1>12, <1>13 DEF Past, HistoryInv, StaleInv

LEMMA PastOutOfDate ==
  ASSUME Exact, Exact', NEW o \in Olds, NEW l \in Lasts, Past(o, l), OutOfDate
  PROVE  Past(o, l)'
<1> DEFINE h == Head(todo)
<1>1. /\ phase = "taskmaster" /\ phase' = "executing" /\ todo # << >>
      /\ h \in Target /\ h \in Node /\ h \notin Source
      /\ content[h] = << >> \/ Changed(h)
      /\ ninfo' = AfterChanged(h)
      /\ content'[h] = << >> /\ \A n \in Node : n # h => content'[n] = content[n]
      /\ UNCHANGED <<setting, command, mtime, db, todo, to_be_merged, had>>
  BY OutOfDateIs, Files DEF Exact
<1>2. /\ h \notin to_be_merged
      /\ to_be_merged \subseteq Node /\ (Precise' <=> Precise) /\ (Timed' <=> Timed)
  BY <1>1, QueueHead DEF Exact, Base, TypeOK, BuildInv, Precise, Timed
<1>3. ToSet(Tail(todo)) = ToSet(todo) \ {h}
  BY <1>1, TailElements DEF Exact, Base, TypeOK, BuildInv, Queue
<1>4. SourcesInv(o, l)' /\ OriginsInv(o, l)'
  BY <1>1, HistoryKept, Files DEF Past
<1>5. LastInv(l)'
  BY <1>1, <1>2, Files DEF Past, HistoryInv, LastInv
<1>6. SeenInv(o, l)'
  <2>1. ASSUME Precise, NEW n \in Node PROVE ninfo'[n].csig \in o[n] \cup {l[n], << >>}
    BY <1>1, <2>1, SeenLooked DEF Past
  <2>2. QED
    BY <1>1, <1>2, <2>1 DEF Past, HistoryInv, SeenInv
<1>7. DoubtInv'
  <2>1. SUFFICES ASSUME Precise, NEW c \in to_be_merged', Doubt(c)' PROVE Elsewhere(c)'
    BY <1>2 DEF DoubtInv
  <2>2. c \in to_be_merged /\ c \in Node /\ ninfo'[c] = AfterChanged(h)[c] /\ content'[c] = content[c]
    BY <1>1, <1>2
  <2>3. QED
    BY <1>1, <2>1, <2>2, DoubtLooked DEF Past
<1>8. \A n \in Node : mtime'[n] = mtime[n] /\ content'[n] \in {content[n], << >>}
  BY <1>1
<1>9. ASSUME NEW t \in Target, t # h \/ ~RightStored(t) PROVE StaleStored(o, t)'
  <2>1. Waiting(t)' => Waiting(t)
    BY <1>1, <1>3 DEF Waiting
  <2>2. ASSUME NEW c \in Node, c \in to_be_merged'
        PROVE  /\ c \in to_be_merged /\ ninfo'[c].timestamp = ninfo[c].timestamp
               /\ \/ ninfo'[c].csig = ninfo[c].csig
                  \/ ninfo'[c].csig = content[c]
                  \/ Precise /\ Timed /\ \E u \in Target : \E j \in DOMAIN db[u].sigs :
                       SameTime(c, u, j) /\ ninfo'[c].csig = db[u].sigs[j].csig
    BY <1>1, <2>2, LookFinds
  <2>3. \A c \in ToSet(Deps[t]) : Follows(o, t, c)
    BY <2>1, <2>2, Files DEF Follows
  <2>4. StaleStored(o, t) /\ (content'[t] = content[t] \/ ~RightStored(t))
    BY <1>1, <1>9, Files DEF Past, StaleInv
  <2>5. QED
    BY <1>1, <1>8, <2>3, <2>4, StaleStoredKept DEF Past
<1>10. ASSUME NEW t \in {h}, RightStored(t) PROVE StaleStored(o, t)'
  <2>1. SUFFICES ASSUME db[t].bactsig = command
                 PROVE  \E k \in DOMAIN Deps[t] : Hopeless(o, t, k)'
    BY <1>1 DEF StaleStored
  <2>2. Changed(t)
    BY <1>1, <1>10, RightMade DEF Exact
  <2>3. PICK k \in DOMAIN Deps[t] : Obsolete(o, Deps[t][k], db[t].sigs[k])
    BY <1>1, <1>10, <2>1, <2>2, ChangedObsolete DEF Past
  <2>4. PICK c, sig : c = Deps[t][k] /\ sig = db[t].sigs[k]
    OBVIOUS
  <2>5. Obsolete(o, c, sig)'
    BY <1>1, <1>2, <2>3, <2>4 DEF Obsolete
  <2>6. ~Waiting(t)'
    BY <1>1, <1>3 DEF Waiting
  <2>7. QED
    BY <1>1, <2>4, <2>5, <2>6 DEF Hopeless
<1>11. ASSUME NEW t \in to_be_merged \cap Target PROVE StaleNow(o, t)'
  <2>1. StaleNow(o, t) /\ content'[t] = content[t]
    BY <1>1, <1>2, <1>11 DEF Past, StaleInv
  <2>2. \A c \in ToSet(Deps[t]) : ninfo'[c] = AfterChanged(h)[c]
    BY <1>1
  <2>3. QED
    BY <1>1, <1>8, <1>11, <2>1, <2>2, StaleNowLooked DEF Past
<1>12. QED
  BY <1>1, <1>4, <1>5, <1>6, <1>7, <1>9, <1>10, <1>11 DEF Past, HistoryInv, StaleInv

LEMMA PastFails ==
  ASSUME Exact, Exact', RecordedInv, NEW o \in Olds, NEW l \in Lasts, Past(o, l), Fails
  PROVE  Past(o, l)'
<1> DEFINE h == Head(todo)
<1>1. /\ phase = "executing" /\ phase' = "writing" /\ h \in Target /\ h \in Node
      /\ h \notin to_be_merged /\ h \notin Source /\ content[h] = << >>
      /\ \A n \in Node : n # h => content'[n] = content[n] /\ mtime'[n] = mtime[n]
      /\ \/ content'[h] = <<0>> /\ mtime'[h] = mtime[h] + 1
         \/ content'[h] = content[h] /\ mtime'[h] = mtime[h]
      /\ UNCHANGED <<setting, command, db, ninfo, to_be_merged, had>>
  BY FailsIs, Files DEF Exact, RecordedInv
<1>2. /\ \A n \in Node : \/ mtime'[n] = mtime[n] /\ content'[n] \in {content[n], << >>}
                         \/ mtime'[n] = mtime[n] + 1
      /\ to_be_merged \subseteq Node /\ (Precise' <=> Precise) /\ (Timed' <=> Timed)
  BY <1>1 DEF Exact, Base, TypeOK, Precise, Timed
<1>3. SourcesInv(o, l)' /\ OriginsInv(o, l)'
  BY <1>1, HistoryKept, Files DEF Past
<1>4. LastInv(l)'
  BY <1>1, Files DEF Past, HistoryInv, LastInv
<1>5. SeenInv(o, l)'
  BY <1>1, <1>2 DEF Past, HistoryInv, SeenInv
<1>6. DoubtInv'
  <2>1. SUFFICES ASSUME Precise, NEW c \in to_be_merged', Doubt(c)' PROVE Elsewhere(c)'
    BY <1>2 DEF DoubtInv
  <2>2. c \in to_be_merged /\ content'[c] = content[c] /\ ninfo'[c] = ninfo[c]
    BY <1>1, <1>2
  <2>3. Doubt(c)
    BY <1>1, <2>1, <2>2 DEF Doubt, SameTime
  <2>4. QED
    BY <1>1, <2>1, <2>2, <2>3 DEF Past, DoubtInv, Elsewhere
<1>7. ASSUME NEW t \in Target PROVE StaleStored(o, t)'
  <2>1. \A c \in ToSet(Deps[t]) : Follows(o, t, c)
    BY <1>1 DEF Follows, Waiting
  <2>2. content'[t] = content[t] \/ ~RightStored(t)
    BY <1>1, RightMade, Files DEF Exact
  <2>3. StaleStored(o, t)
    BY DEF Past, StaleInv
  <2>4. QED
    BY <1>1, <1>2, <2>1, <2>2, <2>3, StaleStoredKept DEF Past
<1>8. ASSUME NEW t \in to_be_merged' \cap Target PROVE StaleNow(o, t)'
  <2>1. t \in to_be_merged \cap Target /\ StaleNow(o, t) /\ content'[t] = content[t]
    BY <1>1, <1>2, <1>8 DEF Past, StaleInv
  <2>2. \A c \in ToSet(Deps[t]) : ninfo'[c] = ninfo[c]
    BY <1>1
  <2>3. QED
    BY <1>1, <1>2, <2>1, <2>2, StaleNowKept
<1>9. QED
  BY <1>3, <1>4, <1>5, <1>6, <1>7, <1>8 DEF Past, HistoryInv, StaleInv

LEMMA PastRename ==
  ASSUME Exact, Exact', NEW o \in Olds, NEW l \in Lasts, Past(o, l), Rename
  PROVE  Past(o, l)'
<1>1. /\ to_be_merged' = {} /\ \A n \in Node : db'[n] = Entry(n) /\ ninfo'[n] = NoInfo
      /\ UNCHANGED <<setting, command, content, mtime, had>>
      /\ NoInfo.csig = << >> /\ (Precise' <=> Precise) /\ (Timed' <=> Timed)
  BY RenameIs, InfoFields DEF Exact, Precise, Timed
<1>2. SourcesInv(o, l)' /\ OriginsInv(o, l)'
  BY <1>1, HistoryKept DEF Past
<1>3. LastInv(l)' /\ DoubtInv'
  BY <1>1 DEF Past, HistoryInv, LastInv, DoubtInv
<1>4. ASSUME NEW t \in Target
      PROVE  \/ t \in to_be_merged /\ \A k \in DOMAIN Deps[t] : db'[t].sigs[k] = ninfo[Deps[t][k]]
             \/ t \notin to_be_merged /\ db'[t] = db[t]
  BY <1>1, EntryIs, Files DEF Exact
<1>5. SeenInv(o, l)'
  <2>1. ASSUME Precise, NEW t \in Target, NEW k \in DOMAIN db'[t].sigs
        PROVE  db'[t].sigs[k].csig \in o[Deps[t][k]] \cup {l[Deps[t][k]]}
    <3>1. CASE t \in to_be_merged
      <4>1. k \in DOMAIN Deps[t]
        <5>1. DOMAIN db'[t].sigs = DOMAIN Deps[t]
          BY <1>1, <2>1, <3>1, Files, EntryIs, SigPlaces DEF Exact, Base
        <5>2. QED
          BY <2>1, <5>1
      <4>2. PICK c \in ToSet(Deps[t]) : c = Deps[t][k] /\ db'[t].sigs[k] = ninfo[c]
        BY <1>4, <3>1, <4>1, Files
      <4>3. c \in Node /\ ninfo[c].csig # << >>
        BY <2>1, <3>1, InfoOfChild
      <4>4. ninfo[c].csig \in o[c] \cup {l[c], << >>}
        BY <2>1, <4>3 DEF Past, HistoryInv, SeenInv
      <4>5. QED
        BY <4>2, <4>3, <4>4
    <3>2. CASE t \notin to_be_merged
      BY <1>4, <2>1, <3>2 DEF Past, HistoryInv, SeenInv
    <3>3. QED
      BY <3>1, <3>2
  <2>2. \A n \in Node : ninfo'[n].csig = << >>
    BY <1>1
  <2>3. QED
    BY <1>1, <2>1, <2>2 DEF SeenInv
<1>6. ASSUME NEW t \in Target, NEW k \in DOMAIN Deps[t], NEW sig, Obsolete(o, Deps[t][k], sig),
             sig = db'[t].sigs[k]
      PROVE  StaleStored(o, t)'
  <2>1. PICK c : c = Deps[t][k]
    OBVIOUS
  <2>2. Obsolete(o, c, sig)'
    BY <1>1, <1>6, <2>1 DEF Obsolete
  <2>3. Hopeless(o, t, k)'
    BY <1>1, <1>6, <2>1, <2>2 DEF Hopeless
  <2>4. QED
    BY <2>3 DEF StaleStored
<1>7. ASSUME NEW t \in Target PROVE StaleStored(o, t)'
  <2>1. CASE t \in to_be_merged
    <3>1. CASE RightNow(t)
      BY <2>1, <3>1, RightNowStored DEF StaleStored
    <3>2. ASSUME NEW k \in DOMAIN Deps[t], Obsolete(o, Deps[t][k], ninfo[Deps[t][k]])
          PROVE  StaleStored(o, t)'
      BY <1>4, <1>6, <2>1, <3>2
    <3>3. QED
      BY <2>1, <3>1, <3>2 DEF Past, StaleInv, StaleNow
  <2>2. CASE t \notin to_be_merged
    <3>1. db'[t] = db[t] /\ StaleStored(o, t)
      BY <1>4, <2>2 DEF Past, StaleInv
    <3>2. CASE RightStored(t)
      BY <1>1, <3>1, <3>2, RightStoredStays DEF StaleStored
    <3>3. ASSUME NEW k \in DOMAIN Deps[t], Hopeless(o, t, k) PROVE StaleStored(o, t)'
      BY <1>6, <3>1, <3>3 DEF Hopeless
    <3>4. QED
      BY <1>1, <3>1, <3>2, <3>3 DEF StaleStored
  <2>3. QED
    BY <2>1, <2>2
<1>8. QED
  BY <1>1, <1>2, <1>3, <1>5, <1>7 DEF Past, HistoryInv, StaleInv

-----------------------------------------------------------------------------
(***************************************************************************)
(* The past is inductive: a file has a new content.                        *)
(***************************************************************************)
\* With the new content X of f, what was the last one is obsolete.
Renewed(o, l, f, X, p, m) ==
  /\ p[f] = (o[f] \cup {l[f]}) \ {X, << >>} /\ m[f] = X
  /\ \A n \in Node : n # f => p[n] = o[n] /\ m[n] = l[n]
  /\ \A n \in Node : o[n] \subseteq p[n]
  /\ \A n \in Node : \A w \in o[n] \cup {l[n]} : w # << >> => w \in p[n] \cup {m[n]}

LEMMA Renewal ==
  ASSUME NEW o \in Olds, NEW l \in Lasts, NEW f \in Node, NEW X \in Seq(Nat),
         X \notin o[f], << >> \notin o[f]
  PROVE  \E p \in Olds, m \in Lasts : Renewed(o, l, f, X, p, m)
<1> DEFINE new == (o[f] \cup {l[f]}) \ {X, << >>}
           p == [o EXCEPT ![f] = new]
           m == [l EXCEPT ![f] = X]
<1>1. o \in [Node -> SUBSET Seq(Nat)] /\ l \in [Node -> Seq(Nat)]
  BY DEF Olds, Lasts
<1>2. new \subseteq Seq(Nat) /\ o[f] \subseteq new
  BY <1>1
<1> HIDE DEF new
<1>3. p \in Olds /\ m \in Lasts /\ p[f] = new /\ m[f] = X
      /\ \A n \in Node : n # f => p[n] = o[n] /\ m[n] = l[n]
  BY <1>1, <1>2 DEF Olds, Lasts
<1> HIDE DEF p, m
<1>4. \A n \in Node : o[n] \subseteq p[n]
  BY <1>2, <1>3
<1>5. \A n \in Node : \A w \in o[n] \cup {l[n]} : w # << >> => w \in p[n] \cup {m[n]}
  BY <1>3 DEF new
<1>6. Renewed(o, l, f, X, p, m)
  BY <1>3, <1>4, <1>5 DEF Renewed, new
<1>7. QED
  BY <1>3, <1>6

LEMMA OriginRenewed ==
  ASSUME UNCHANGED command, had["command"] \subseteq had'["command"],
         NEW o \in Olds, NEW l \in Lasts, NEW f \in Node, NEW X, NEW p \in Olds, NEW m \in Lasts,
         Renewed(o, l, f, X, p, m),
         NEW t \in Target, NEW Y, Y \in p[t] => Y \in o[t], Origin(o, l, t, Y)
  PROVE  Origin(p, m, t, Y)'
<1>1. PICK c \in had["command"], W \in Ws(t) :
        /\ Y = Make(c, W)
        /\ \A k \in DOMAIN Deps[t] :
             W[k] # << >> /\ W[k] \in o[Deps[t][k]] \cup {l[Deps[t][k]]}
        /\ Y \in o[t] => c # command \/ \E k \in DOMAIN Deps[t] : W[k] \in o[Deps[t][k]]
  BY DEF Origin
<1>2. \A k \in DOMAIN Deps[t] : Deps[t][k] \in Node
  BY Files
<1>3. \A k \in DOMAIN Deps[t] : /\ W[k] # << >> /\ W[k] \in p[Deps[t][k]] \cup {m[Deps[t][k]]}
                                /\ W[k] \in o[Deps[t][k]] => W[k] \in p[Deps[t][k]]
  BY <1>1, <1>2 DEF Renewed
<1>4. QED
  BY <1>1, <1>3 DEF Origin

LEMMA SeenRenewed ==
  ASSUME Exact, UNCHANGED <<setting, db>>,
         NEW o \in Olds, NEW l \in Lasts, HistoryInv(o, l), NEW f \in Node, NEW X,
         NEW p \in Olds, NEW m \in Lasts, Renewed(o, l, f, X, p, m),
         \A n \in Node : ninfo'[n] = ninfo[n] \/ (Precise => ninfo'[n].csig = m[n])
  PROVE  SeenInv(p, m)'
<1>1. ASSUME Precise, NEW t \in Target, NEW k \in DOMAIN db[t].sigs
      PROVE  db[t].sigs[k].csig \in p[Deps[t][k]] \cup {m[Deps[t][k]]}
  <2>1. PICK c \in Node, sig \in Infos : c = Deps[t][k] /\ sig = db[t].sigs[k]
    BY SigPlaces DEF Exact, Base
  <2>2. Stored(c, sig) /\ sig.csig \in o[c] \cup {l[c]}
    BY <1>1, <2>1 DEF Exact, SigInv, HistoryInv, SeenInv
  <2>3. sig.csig # << >>
    BY <1>1, <2>2 DEF Stored
  <2>4. sig.csig \in p[c] \cup {m[c]}
    BY <2>1, <2>2, <2>3 DEF Renewed
  <2>5. QED
    BY <2>1, <2>4
<1>2. ASSUME Precise, NEW n \in Node PROVE ninfo'[n].csig \in p[n] \cup {m[n], << >>}
  <2>1. ninfo[n].csig \in o[n] \cup {l[n], << >>}
    BY <1>2 DEF HistoryInv, SeenInv
  <2>2. CASE ninfo'[n] = ninfo[n]
    BY <2>1, <2>2 DEF Renewed
  <2>3. QED
    BY <1>2, <2>2
<1>3. QED
  BY <1>1, <1>2 DEF SeenInv, Precise

LEMMA PastEdit ==
  ASSUME Exact, Exact', NEW o \in Olds, NEW l \in Lasts, Past(o, l),
         NEW s \in Source, NEW value \in 1 .. MaxContent, Edit(s, value), ~reverted'
  PROVE  \E p \in Olds, m \in Lasts : Past(p, m)'
<1> DEFINE X == <<value>>
<1>1. /\ s \in Node /\ s \notin Target /\ content'[s] = X /\ mtime'[s] = mtime[s] + 1
      /\ \A n \in Node : n # s => content'[n] = content[n] /\ mtime'[n] = mtime[n]
      /\ UNCHANGED <<setting, command, db, phase, todo, ninfo, to_be_merged>>
  BY EditIs DEF Exact
<1>2. \/ content[s] = X /\ had' = had
      \/ content[s] # X /\ value \notin had[s] /\ had' = [had EXCEPT ![s] = @ \cup {value}]
  BY DEF Edit, Given, history
<1>3. /\ l[s] = content[s] /\ o[s] = {<<v>> : v \in had[s]} \ {content[s]}
      /\ \E v \in had[s] : content[s] = <<v>>
      /\ had \in [Source \cup {"command"} -> SUBSET (1 .. MaxContent \cup {1, 2})]
      /\ s # "command"
  BY GraphAssumption DEF Past, HistoryInv, SourcesInv, Exact, Base, FileInv, TypeOK
<1>4. /\ X \in Seq(Nat) /\ \A v : <<v>> = X <=> v = value
      /\ \A v : <<v>> # << >> /\ Len(<<v>>) = 1
  BY SettingsAssumption
<1>5. /\ had'[s] = had[s] \cup {value} /\ \A r \in Source : r # s => had'[r] = had[r]
      /\ had'["command"] = had["command"]
  <2>1. CASE content[s] = X /\ had' = had
    <3>1. value \in had[s]
      BY <1>3, <1>4, <2>1
    <3>2. QED
      BY <2>1, <3>1
  <2>2. CASE had' = [had EXCEPT ![s] = @ \cup {value}]
    BY <1>3, <2>2
  <2>3. QED
    BY <1>2, <2>1, <2>2
<1> HIDE DEF X
<1>6. X \notin o[s] /\ << >> \notin o[s]
  BY <1>2, <1>3, <1>4
<1>7. PICK p \in Olds, m \in Lasts : Renewed(o, l, s, X, p, m)
  BY <1>1, <1>4, <1>6, Renewal
<1>8. /\ \A n \in Node : \/ mtime'[n] = mtime[n] /\ content'[n] \in {content[n], << >>}
                         \/ mtime'[n] = mtime[n] + 1
      /\ to_be_merged \subseteq Node /\ (Precise' <=> Precise) /\ (Timed' <=> Timed)
  BY <1>1 DEF Exact, Base, TypeOK, Precise, Timed
<1>9. SourcesInv(p, m)'
  <2>1. o[s] \cup {l[s]} = {<<v>> : v \in had[s]}
    BY <1>3
  <2>2. p[s] = {<<v>> : v \in had'[s]} \ {X} /\ m[s] = X
    <3>1. p[s] = {<<v>> : v \in had[s]} \ {X}
      BY <1>4, <1>7, <2>1 DEF Renewed
    <3>2. {<<v>> : v \in had[s]} \ {X} = {<<v>> : v \in had'[s]} \ {X}
      BY <1>4, <1>5
    <3>3. QED
      BY <1>7, <3>1, <3>2 DEF Renewed
  <2>3. ASSUME NEW r \in Source, r # s
        PROVE  m[r] = content'[r] /\ p[r] = {<<v>> : v \in had'[r]} \ {content'[r]}
    <3>1. r \in Node /\ m[r] = l[r] /\ p[r] = o[r] /\ content'[r] = content[r] /\ had'[r] = had[r]
      BY <1>1, <1>5, <1>7, <2>3, Files DEF Renewed
    <3>2. QED
      BY <3>1 DEF Past, HistoryInv, SourcesInv
  <2>4. QED
    BY <1>1, <2>2, <2>3 DEF SourcesInv
<1>10. ASSUME NEW t \in Target PROVE p[t] = o[t] /\ m[t] = l[t] /\ content'[t] = content[t] /\ t \in Node
  BY <1>1, <1>7, Files DEF Renewed
<1>11. OriginsInv(p, m)'
  <2>1. ASSUME NEW t \in Target, NEW Y \in p[t] \cup {m[t]}, Y # << >>
        PROVE  Origin(p, m, t, Y)'
    <3>1. Origin(o, l, t, Y)
      BY <1>10, <2>1 DEF Past, HistoryInv, OriginsInv
    <3>2. QED
      BY <1>1, <1>5, <1>7, <1>10, <3>1, OriginRenewed
  <2>2. ASSUME NEW n \in Node, NEW Y \in p[n] PROVE Len(Y) = Len(m[n])
    <3>1. CASE n = s
      BY <1>3, <1>4, <1>7, <2>2, <3>1 DEF Renewed, X
    <3>2. CASE n # s
      BY <1>7, <2>2, <3>2 DEF Renewed, Past, HistoryInv, OriginsInv
    <3>3. QED
      BY <3>1, <3>2
  <2>3. QED
    BY <1>10, <2>1, <2>2 DEF Past, HistoryInv, OriginsInv
<1>12. LastInv(m)'
  BY <1>1, <1>10 DEF Past, HistoryInv, LastInv
<1>13. SeenInv(p, m)'
  BY <1>1, <1>7, SeenRenewed DEF Past
<1>14. DoubtInv'
  <2>1. SUFFICES ASSUME Precise, NEW c \in to_be_merged', Doubt(c)' PROVE Elsewhere(c)'
    BY <1>8 DEF DoubtInv
  <2>2. CASE content'[c] = content[c]
    <3>1. Doubt(c)
      BY <1>1, <2>1, <2>2 DEF Doubt, SameTime
    <3>2. QED
      BY <1>1, <2>1, <2>2, <3>1 DEF Past, DoubtInv, Elsewhere
  <2>3. CASE content'[c] # content[c]
    <3>1. c = s /\ content[s] # X
      BY <1>1, <1>8, <2>1, <2>3
    <3>2. X \notin o[s] \cup {l[s]}
      BY <1>3, <1>6, <3>1
    <3>3. QED
      BY <1>1, <2>1, <3>1, <3>2 DEF Past, HistoryInv, SeenInv, Elsewhere
  <2>4. QED
    BY <2>2, <2>3
<1>15. ASSUME NEW t \in Target PROVE StaleStored(p, t)'
  <2>1. \A c \in ToSet(Deps[t]) : Follows(o, t, c)
    BY <1>1 DEF Follows, Waiting
  <2>2. StaleStored(o, t)
    BY DEF Past, StaleInv
  <2>3. \A n \in Node : o[n] \subseteq p[n]
    BY <1>7 DEF Renewed
  <2>4. QED
    BY <1>1, <1>8, <1>10, <2>1, <2>2, <2>3, StaleStoredKept DEF Past
<1>16. ASSUME NEW t \in to_be_merged' \cap Target PROVE StaleNow(p, t)'
  <2>1. t \in to_be_merged \cap Target /\ StaleNow(o, t) /\ content'[t] = content[t]
    BY <1>1, <1>10, <1>16 DEF Past, StaleInv
  <2>2. (\A c \in ToSet(Deps[t]) : ninfo'[c] = ninfo[c]) /\ \A n \in Node : o[n] \subseteq p[n]
    BY <1>1, <1>7 DEF Renewed
  <2>3. QED
    BY <1>1, <1>8, <2>1, <2>2, StaleNowKept
<1>17. Past(p, m)'
  BY <1>9, <1>11, <1>12, <1>13, <1>14, <1>15, <1>16 DEF Past, HistoryInv, StaleInv
<1>18. QED
  BY <1>17

\* What a target was made of, and is made of now.
LEMMA Compared ==
  ASSUME Exact, NEW o \in Olds, NEW l \in Lasts, HistoryInv(o, l),
         NEW h \in Target, ToSet(Deps[h]) \subseteq to_be_merged, NEW Y, Origin(o, l, h, Y)
  PROVE  /\ Len(Y) = Len(Made(h))
         /\ Y \in o[h] => Y # Made(h)
         /\ Y # Made(h) =>
              \E c \in had["command"], W \in Ws(h) :
                /\ Y = Make(c, W)
                /\ \A k \in DOMAIN Deps[h] :
                     W[k] # << >> /\ W[k] \in o[Deps[h][k]] \cup {l[Deps[h][k]]}
                /\ c # command \/ \E k \in DOMAIN Deps[h] : W[k] \in o[Deps[h][k]]
<1>1. PICK c \in had["command"], W \in Ws(h) :
        /\ Y = Make(c, W)
        /\ \A k \in DOMAIN Deps[h] :
             W[k] # << >> /\ W[k] \in o[Deps[h][k]] \cup {l[Deps[h][k]]}
        /\ Y \in o[h] => c # command \/ \E k \in DOMAIN Deps[h] : W[k] \in o[Deps[h][k]]
  BY DEF Origin
<1>2. Base /\ c \in Nat /\ command \in Nat
  BY DEF Exact, Base, TypeOK, FileInv
<1>3. PICK V \in Ws(h) :
        /\ Made(h) = Make(command, V)
        /\ \A k \in DOMAIN Deps[h] : V[k] = content[Deps[h][k]]
  BY <1>2, MadeIs
<1>4. ASSUME NEW k \in DOMAIN Deps[h]
      PROVE  /\ Deps[h][k] \in Node /\ V[k] = l[Deps[h][k]] /\ V[k] \notin o[Deps[h][k]]
             /\ Len(W[k]) = Len(V[k])
             /\ W[k] # V[k] => W[k] \in o[Deps[h][k]]
  <2>1. PICK n \in to_be_merged : n = Deps[h][k] /\ n \in Node
    BY Files
  <2>2. content[n] = l[n] /\ l[n] \notin o[n]
    BY <2>1, LastFacts
  <2>3. W[k] \in o[n] => Len(W[k]) = Len(l[n])
    BY <2>1 DEF HistoryInv, OriginsInv
  <2>4. QED
    BY <1>1, <1>3, <2>1, <2>2, <2>3
<1>5. /\ W \in Seq(Seq(Nat)) /\ V \in Seq(Seq(Nat)) /\ Len(W) = Len(V)
      /\ DOMAIN Deps[h] = 1 .. Len(W)
  BY <1>2, SequencesOfContents
<1>6. /\ Len(Make(c, W)) = Len(Make(command, V))
      /\ Make(c, W) = Make(command, V) => c = command /\ W = V
  <2>1. \A k \in 1 .. Len(W) : Len(W[k]) = Len(V[k])
    BY <1>4, <1>5
  <2>2. W \in Seq(Seq(Nat)) /\ V \in Seq(Seq(Nat)) /\ Len(W) = Len(V)
    BY <1>5
  <2>3. QED
    BY ONLY <1>2, <2>1, <2>2, MakeSame
<1>7. Len(Y) = Len(Made(h))
  BY <1>1, <1>3, <1>6
<1>8. ASSUME Y \in o[h], Y = Made(h) PROVE FALSE
  <2>1. c = command /\ W = V
    BY <1>1, <1>3, <1>6, <1>8
  <2>2. QED
    BY <1>1, <1>4, <1>8, <2>1
<1>9. ASSUME Y # Made(h)
      PROVE  c # command \/ \E k \in DOMAIN Deps[h] : W[k] \in o[Deps[h][k]]
  <2>1. SUFFICES ASSUME c = command PROVE \E k \in DOMAIN Deps[h] : W[k] \in o[Deps[h][k]]
    OBVIOUS
  <2>2. W # V
    BY <1>1, <1>3, <1>9, <2>1
  <2>3. \E k \in DOMAIN Deps[h] : W[k] # V[k]
    BY <1>2, <2>2, WSame
  <2>4. QED
    BY <1>4, <2>3
<1>10. QED
  BY <1>1, <1>7, <1>8, <1>9

LEMMA PastExecuted ==
  ASSUME Exact, Exact', RecordedInv, NEW o \in Olds, NEW l \in Lasts, Past(o, l), Executed
  PROVE  \E p \in Olds, m \in Lasts : Past(p, m)'
<1> DEFINE h == Head(todo)
           X == Made(h)
<1>1. /\ phase = "executing" /\ phase' = "taskmaster" /\ todo # << >>
      /\ h \in Target /\ h \in Node /\ h \notin Source /\ content[h] = << >>
      /\ content'[h] = X /\ mtime'[h] = mtime[h] + 1
      /\ \A n \in Node : n # h => content'[n] = content[n] /\ mtime'[n] = mtime[n]
      /\ ninfo'[h].timestamp = mtime'[h]
      /\ setting.max_drift # "zero" => ninfo'[h].csig = X
      /\ \A n \in Node : n # h => ninfo'[n] = ninfo[n]
      /\ to_be_merged' = to_be_merged \cup {h} /\ todo' = Tail(todo)
      /\ UNCHANGED <<setting, command, db, had>>
  BY ExecutedIs, Files DEF Exact, RecordedInv
<1>2. /\ h \notin to_be_merged /\ h \notin ToSet(Deps[h]) /\ ToSet(Deps[h]) \subseteq to_be_merged
      /\ to_be_merged \subseteq Node /\ (Precise' <=> Precise) /\ (Timed' <=> Timed)
  BY <1>1, QueueHead DEF Exact, Base, TypeOK, BuildInv, Precise, Timed
<1>3. Precise => ninfo'[h].csig = X
  BY <1>1 DEF Exact, DriftInv, Trustworthy, Precise
<1>4. /\ X = Make(command, Parts(h)) /\ Parts(h) \in Ws(h)
      /\ \A k \in DOMAIN Deps[h] : Parts(h)[k] = content[Deps[h][k]]
      /\ X \in Seq(Nat) /\ X # << >> /\ X # <<0>>
  BY <1>1, MadeIs DEF Exact
<1>5. \A Y \in o[h] \cup {l[h]} : Y # << >> => Origin(o, l, h, Y)
  BY <1>1 DEF Past, HistoryInv, OriginsInv
<1>6. << >> \notin o[h] /\ X \notin o[h]
  BY <1>1, <1>2, <1>5, Compared, LastFacts DEF Past
<1> HIDE DEF X
<1>7. PICK p \in Olds, m \in Lasts : Renewed(o, l, h, X, p, m)
  BY <1>1, <1>4, <1>6, Renewal
<1>8. /\ \A n \in Node : \/ mtime'[n] = mtime[n] /\ content'[n] \in {content[n], << >>}
                         \/ mtime'[n] = mtime[n] + 1
      /\ m[h] = X /\ X \notin p[h] /\ << >> \notin p[h] /\ p[h] \subseteq o[h] \cup {l[h]}
      /\ \A n \in Node : n # h => p[n] = o[n] /\ m[n] = l[n]
      /\ \A n \in Node : o[n] \subseteq p[n]
  BY <1>1, <1>7 DEF Renewed
<1>9. SourcesInv(p, m)'
  <2>1. ASSUME NEW s \in Source
        PROVE  s \in Node /\ s # h /\ p[s] = o[s] /\ m[s] = l[s] /\ content'[s] = content[s]
    BY <1>1, <1>8, Files
  <2>2. QED
    BY <1>1, <2>1 DEF Past, HistoryInv, SourcesInv
<1>10. OriginsInv(p, m)'
  <2>1. ASSUME NEW t \in Target, t # h, NEW Y \in p[t] \cup {m[t]}, Y # << >>
        PROVE  Origin(p, m, t, Y)'
    <3>1. p[t] = o[t] /\ m[t] = l[t]
      BY <1>8, <2>1, Files
    <3>2. Origin(o, l, t, Y)
      BY <2>1, <3>1 DEF Past, HistoryInv, OriginsInv
    <3>3. QED
      BY <1>1, <1>7, <3>1, <3>2, OriginRenewed
  <2>2. ASSUME NEW t \in {h}, NEW Y \in p[t], Y # X PROVE Origin(p, m, t, Y)'
    <3>1. Y \in o[t] \cup {l[t]} /\ Y # << >> /\ Origin(o, l, t, Y)
      BY <1>5, <1>8, <2>2
    <3>2. Y # Made(t)
      BY <2>2 DEF X
    <3>3. PICK c \in had["command"], W \in Ws(t) :
            /\ Y = Make(c, W)
            /\ \A k \in DOMAIN Deps[t] :
                 W[k] # << >> /\ W[k] \in o[Deps[t][k]] \cup {l[Deps[t][k]]}
            /\ c # command \/ \E k \in DOMAIN Deps[t] : W[k] \in o[Deps[t][k]]
      BY <1>1, <1>2, <2>2, <3>1, <3>2, Compared DEF Past
    <3>4. ASSUME NEW k \in DOMAIN Deps[t]
          PROVE  p[Deps[t][k]] = o[Deps[t][k]] /\ m[Deps[t][k]] = l[Deps[t][k]]
      BY <1>1, <1>2, <1>8, <2>2, Files
    <3>5. QED
      BY <1>1, <3>3, <3>4 DEF Origin
  <2>3. ASSUME NEW t \in {h}, NEW Y \in {X} PROVE Origin(p, m, t, Y)'
    <3>1. ASSUME NEW k \in DOMAIN Deps[t]
          PROVE  Parts(t)[k] # << >> /\ Parts(t)[k] = m[Deps[t][k]]
      <4>1. PICK c \in to_be_merged : c = Deps[t][k] /\ c \in Node /\ c # h
        BY <1>1, <1>2, <2>3, Files
      <4>2. content[c] = l[c] /\ m[c] = l[c] /\ content[c] # << >>
        BY <1>8, <4>1, LastFacts DEF Past, Exact, InfoInv, Known
      <4>3. QED
        BY <1>4, <2>3, <4>1, <4>2
    <3>2. PICK W \in Ws(t) : /\ X = Make(command, W)
                             /\ \A k \in DOMAIN Deps[t] : W[k] # << >> /\ W[k] = m[Deps[t][k]]
      BY <1>4, <2>3, <3>1
    <3>3. command \in had["command"]
      BY DEF Exact, Base, FileInv
    <3>4. QED
      BY <1>1, <1>8, <2>3, <3>2, <3>3 DEF Origin
  <2>4. ASSUME NEW n \in Node, NEW Y \in p[n] PROVE Len(Y) = Len(m[n])
    <3>1. CASE n = h
      <4>1. Y # << >> /\ Origin(o, l, h, Y)
        BY <1>5, <1>8, <2>4, <3>1
      <4>2. Len(Y) = Len(Made(h))
        BY <1>1, <1>2, <4>1, Compared DEF Past
      <4>3. QED
        BY <1>8, <3>1, <4>2 DEF X
    <3>2. CASE n # h
      BY <1>8, <2>4, <3>2 DEF Past, HistoryInv, OriginsInv
    <3>3. QED
      BY <3>1, <3>2
  <2>5. ASSUME NEW t \in Target
        PROVE  /\ m[t] \notin p[t] \cup {<<0>>} /\ << >> \notin p[t]
               /\ \A Y \in p[t] \cup {m[t]} : Y # << >> => Origin(p, m, t, Y)'
    <3>1. CASE t = h
      <4>1. \A Y \in p[t] \cup {m[t]} : Y # << >> => Origin(p, m, t, Y)'
        BY <1>8, <2>2, <2>3, <3>1
      <4>2. QED
        BY <1>4, <1>8, <3>1, <4>1
    <3>2. CASE t # h
      <4>1. p[t] = o[t] /\ m[t] = l[t]
        BY <1>8, <3>2, Files
      <4>2. m[t] \notin p[t] \cup {<<0>>} /\ << >> \notin p[t]
        BY <4>1 DEF Past, HistoryInv, OriginsInv
      <4>3. QED
        BY <2>1, <3>2, <4>2
    <3>3. QED
      BY <3>1, <3>2
  <2>6. QED
    BY <2>4, <2>5 DEF OriginsInv
<1>11. LastInv(m)'
  BY <1>1, <1>8, Files DEF Past, HistoryInv, LastInv
<1>12. SeenInv(p, m)'
  <2>1. \A n \in Node : ninfo'[n] = ninfo[n] \/ (Precise => ninfo'[n].csig = m[n])
    BY <1>1, <1>3, <1>8
  <2>2. QED
    BY <1>1, <1>7, <2>1, SeenRenewed DEF Past
<1>13. DoubtInv'
  <2>1. SUFFICES ASSUME Precise, NEW c \in to_be_merged', Doubt(c)' PROVE Elsewhere(c)'
    BY <1>2 DEF DoubtInv
  <2>2. c # h
    BY <1>1, <1>2, <2>1, NoDoubt
  <2>3. c \in to_be_merged /\ ninfo'[c] = ninfo[c] /\ content'[c] = content[c]
    BY <1>1, <1>2, <2>2
  <2>4. Doubt(c)
    BY <1>1, <2>1, <2>3 DEF Doubt, SameTime
  <2>5. QED
    BY <1>1, <2>1, <2>3, <2>4 DEF Past, DoubtInv, Elsewhere
<1>14. ASSUME NEW t \in Target PROVE StaleStored(p, t)'
  <2>1. Waiting(t)' => Waiting(t)
    BY <1>1 DEF Waiting
  <2>2. ASSUME NEW c \in Node, Waiting(t)', c \in to_be_merged', c # h
        PROVE  /\ Waiting(t) /\ c \in to_be_merged /\ ninfo'[c] = ninfo[c]
    BY <1>1, <2>1, <2>2
  <2>3. \A c \in ToSet(Deps[t]) : Follows(o, t, c)
    BY <1>1, <1>6, <2>2, Files DEF Follows
  <2>4. StaleStored(o, t) /\ (content'[t] = content[t] \/ ~RightStored(t))
    BY <1>1, RightMade, Files DEF Past, StaleInv, Exact
  <2>5. QED
    BY <1>1, <1>8, <2>3, <2>4, StaleStoredKept DEF Past
<1>15. ASSUME NEW t \in to_be_merged \cap Target PROVE StaleNow(p, t)'
  <2>1. StaleNow(o, t) /\ content'[t] = content[t]
    BY <1>1, <1>2, <1>15 DEF Past, StaleInv
  <2>2. \A c \in ToSet(Deps[t]) : ninfo'[c] = ninfo[c]
    BY <1>1, <1>2, <1>15, InfoOfChild
  <2>3. QED
    BY <1>1, <1>8, <1>15, <2>1, <2>2, StaleNowKept
<1>16. ASSUME NEW t \in {h} PROVE StaleNow(p, t)'
  <2>1. CASE Precise => \A k \in DOMAIN Deps[t] : ninfo[Deps[t][k]].csig = content[Deps[t][k]]
    <3>1. PICK W \in Ws(t) :
            /\ content'[t] = Make(command, W)
            /\ \A k \in DOMAIN Deps[t] : W[k] = content[Deps[t][k]]
      BY <1>1, <1>4, <1>16
    <3>2. ASSUME NEW k \in DOMAIN Deps[t] PROVE Tells(Deps[t][k], ninfo[Deps[t][k]], W[k])'
      <4>1. PICK c \in ToSet(Deps[t]) : c = Deps[t][k] /\ c \in Node
        BY <1>1, <1>16, Files
      <4>2. ninfo'[c] = ninfo[c] /\ content'[c] = content[c] /\ mtime'[c] = mtime[c]
        BY <1>1, <1>2, <1>16, <4>1
      <4>3. Tells(c, ninfo[c], W[k])'
        BY <1>2, <2>1, <3>1, <4>1, <4>2 DEF Tells
      <4>4. QED
        BY <4>1, <4>3
    <3>3. QED
      BY <1>1, <3>1, <3>2 DEF StaleNow, RightNow
  <2>2. ASSUME Precise, NEW k \in DOMAIN Deps[t], ninfo[Deps[t][k]].csig # content[Deps[t][k]]
        PROVE  StaleNow(p, t)'
    <3>1. PICK c \in to_be_merged : c = Deps[t][k] /\ c \in Node /\ c # h /\ c \in ToSet(Deps[t])
      BY <1>1, <1>2, <1>16, Files
    <3>2. PICK sig \in Infos : sig = ninfo[c]
      BY <3>1 DEF Exact, Base, TypeOK
    <3>3. /\ sig.csig # << >> /\ sig.csig \in o[c] \cup {l[c], << >>} /\ content[c] = l[c]
          /\ Known(c)
      BY <1>1, <1>16, <2>2, <3>1, <3>2, LastFacts DEF Exact, InfoInv, Decided, Past, HistoryInv, SeenInv
    <3>4. sig.csig \in p[c]
      BY <1>8, <2>2, <3>1, <3>2, <3>3
    <3>5. sig.timestamp < mtime[c]
      <4>1. sig.timestamp # mtime[c] /\ sig.timestamp <= mtime[c]
        BY <2>2, <3>1, <3>2, <3>3 DEF Known
      <4>2. sig.timestamp \in Nat /\ mtime[c] \in Nat
        BY <3>1, <3>2, Naturals DEF Exact, Base
      <4>3. QED
        BY <4>1, <4>2
    <3>6. ninfo'[c] = sig /\ mtime'[c] = mtime[c]
      BY <1>1, <3>1, <3>2
    <3>7. Obsolete(p, c, sig)'
      BY <3>4, <3>5, <3>6 DEF Obsolete
    <3>8. QED
      BY <3>1, <3>6, <3>7 DEF StaleNow
  <2>3. QED
    BY <2>1, <2>2
<1>17. Past(p, m)'
  <2>1. ASSUME NEW t \in to_be_merged' \cap Target PROVE StaleNow(p, t)'
    BY <1>1, <1>15, <1>16, <2>1
  <2>2. QED
    BY <1>9, <1>10, <1>11, <1>12, <1>13, <1>14, <2>1 DEF Past, HistoryInv, StaleInv
<1>18. QED
  BY <1>17

-----------------------------------------------------------------------------
(***************************************************************************)
(* Fresh.                                                                  *)
(***************************************************************************)
PastInv == ~reverted => \E o \in Olds, l \in Lasts : Past(o, l)

LEMMA PastInit == Exact /\ Init => PastInv
<1> SUFFICES ASSUME Exact, Init PROVE \E o \in Olds, l \in Lasts : Past(o, l)
  BY DEF PastInv
<1>1. /\ Base /\ to_be_merged = {}
      /\ \A t \in Target : content[t] = << >> /\ db[t] = NoEntry
      /\ \A s \in Source : content[s] = <<1>> /\ had[s] = {1}
      /\ \A n \in Node : ninfo[n] = NoInfo
  BY Files DEF Exact, Init, NoEntries, File
<1>2. NoInfo.csig = << >> /\ NoEntry.sigs = << >> /\ NoEntry.bactsig = 0
  BY InfoFields
<1>3. PICK o \in Olds : \A n \in Node : o[n] = {}
  <2>1. [n \in Node |-> {}] \in Olds
    BY DEF Olds
  <2>2. QED
    BY <2>1
<1>4. PICK l \in Lasts : l = content
  BY <1>1, Files DEF Base, TypeOK, Lasts
<1>5. SourcesInv(o, l)
  BY <1>1, <1>3, <1>4, Files DEF SourcesInv
<1>6. OriginsInv(o, l)
  <2>1. << >> # <<0>>
    OBVIOUS
  <2>2. QED
    BY <1>1, <1>3, <1>4, <2>1, Files DEF OriginsInv
<1>7. LastInv(l) /\ SeenInv(o, l) /\ DoubtInv
  <2>1. \A t \in Target : DOMAIN db[t].sigs = {}
    BY <1>1, <1>2
  <2>2. QED
    BY <1>1, <1>2, <2>1 DEF LastInv, SeenInv, DoubtInv
<1>8. StaleInv(o)
  BY <1>1, <1>2 DEF StaleInv, StaleStored
<1>9. QED
  BY <1>5, <1>6, <1>7, <1>8 DEF Past, HistoryInv

LEMMA PastStep ==
  ASSUME Exact, Exact', RecordedInv, PastInv, [Next]_vars
  PROVE  PastInv'
<1> SUFFICES ASSUME ~reverted' PROVE \E p \in Olds, m \in Lasts : Past(p, m)'
  BY DEF PastInv
<1>1. Base
  BY DEF Exact
<1>2. ~reverted
  BY <1>1, VisitSourceIs, UpToDateIs, OutOfDateIs, ExecutedIs, FailsIs, RenameIs, CrashIs
     DEF Next, Step, Edit, EditCommand, Given, Age, Start, Interrupt, Done, Unlink, history,
         observers, vars
<1>3. PICK o \in Olds, l \in Lasts : Past(o, l)
  BY <1>2 DEF PastInv
<1>4. CASE \E s \in Source, value \in 1 .. MaxContent : Edit(s, value)
  BY <1>3, <1>4, PastEdit
<1>5. CASE EditCommand
  BY <1>3, <1>5, PastCommand
<1>6. CASE Age \/ Interrupt \/ Done \/ Unlink \/ UNCHANGED vars
  <2>1. /\ UNCHANGED <<setting, command, content, mtime, had, db, ninfo, to_be_merged>>
        /\ UNCHANGED <<phase, todo>> \/ phase' \in {"writing", "renaming"}
    BY <1>6 DEF Age, Interrupt, Done, Unlink, Finish, vars, world, build, observers, history
  <2>2. \A t \in Target : Waiting(t)' => Waiting(t)
    BY <2>1 DEF Waiting
  <2>3. QED
    BY <1>3, <2>1, <2>2, PastQuiet
<1>7. CASE (\E request \in Requests : Start(request)) \/ Crash
  <2>1. /\ UNCHANGED <<setting, command, content, mtime, had>>
        /\ to_be_merged' = {} /\ \A n \in Node : ninfo'[n] = NoInfo
        /\ db' = db \/ \A n \in Node : db'[n] = NoEntry
    BY <1>1, <1>7, CrashIs DEF Start, world, history
  <2>2. QED
    BY <1>3, <2>1, PastQuiet
<1>8. CASE VisitSource
  BY <1>3, <1>8, PastVisitSource
<1>9. CASE UpToDate
  BY <1>3, <1>9, PastUpToDate
<1>10. CASE OutOfDate
  BY <1>3, <1>10, PastOutOfDate
<1>11. CASE Executed
  BY <1>3, <1>11, PastExecuted
<1>12. CASE Fails
  BY <1>3, <1>12, PastFails
<1>13. CASE Rename
  BY <1>3, <1>13, PastRename
<1>14. QED
  BY <1>4, <1>5, <1>6, <1>7, <1>8, <1>9, <1>10, <1>11, <1>12, <1>13 DEF Next, Step

\* What a build handled is made of its children as they are, while nobody edits.
FreshInv ==
  /\ phase # "idle" /\ ~edited =>
       \A t \in to_be_merged \cap Target :
         ~reverted \/ recorded[t] # "no" => content[t] = Made(t)
  /\ Fresh

LEMMA MadeKept ==
  ASSUME UNCHANGED command, NEW t \in Target,
         \A c \in ToSet(Deps[t]) : content'[c] = content[c]
  PROVE  Made(t)' = Made(t)
<1>1. \A k \in DOMAIN Deps[t] : content'[Deps[t][k]] = content[Deps[t][k]]
  BY Files
<1>2. [k \in DOMAIN Deps[t] |-> content'[Deps[t][k]]] = [k \in DOMAIN Deps[t] |-> content[Deps[t][k]]]
  BY <1>1
<1>3. QED
  BY <1>2 DEF Made

\* Only a file that the build did not handle is written, and nothing else becomes of the
\* targets that it handled.
LEMMA FreshKept ==
  ASSUME Exact, FreshInv, UNCHANGED <<command, edited, reverted>>, phase # "idle", phase' # "idle",
         NEW h \in Node, h \notin to_be_merged,
         \A n \in Node : n # h => content'[n] = content[n],
         to_be_merged' \cap Target \subseteq to_be_merged \cup {h},
         \A t \in Target : t # h => recorded'[t] = recorded[t],
         \A t \in to_be_merged' \cap Target :
           t = h /\ ~edited /\ (~reverted \/ recorded'[t] # "no") => content'[t] = Made(t)'
  PROVE  FreshInv'
<1>1. ASSUME ~edited, NEW t \in to_be_merged' \cap Target, t # h, ~reverted \/ recorded'[t] # "no"
      PROVE  content'[t] = Made(t)'
  <2>1. t \in to_be_merged \cap Target /\ t \in Node
    BY <1>1, Files
  <2>2. \A c \in ToSet(Deps[t]) : content'[c] = content[c]
    BY <2>1, InfoOfChild
  <2>3. Made(t)' = Made(t) /\ content'[t] = content[t] /\ recorded'[t] = recorded[t]
    BY <1>1, <2>1, <2>2, MadeKept
  <2>4. QED
    BY <1>1, <2>1, <2>3 DEF FreshInv
<1>2. QED
  BY <1>1 DEF FreshInv, Fresh

LEMMA FreshStep ==
  ASSUME Exact, Exact', RecordedInv, PastInv, FreshInv, [Next]_vars
  PROVE  FreshInv'
<1>1. Base
  BY DEF Exact
<1> DEFINE h == Head(todo)
<1>2. CASE (\E s \in Source, value \in 1 .. MaxContent : Edit(s, value)) \/ EditCommand
  <2>1. edited'
    BY <1>1, <1>2, EditIs DEF EditCommand, Given
  <2>2. QED
    BY <2>1 DEF FreshInv, Fresh
<1>3. CASE Age \/ Interrupt \/ Done \/ Unlink \/ UNCHANGED vars
  <2>1. /\ UNCHANGED <<command, content, edited, reverted, to_be_merged, recorded, requested>>
        /\ phase' = "idle" => phase = "idle" /\ status' = status
        /\ phase = "idle" => phase' = "idle"
    BY <1>3 DEF Age, Interrupt, Done, Unlink, Finish, vars, world, build, observers, history
  <2>2. \A t \in Target : Made(t)' = Made(t)
    BY <2>1 DEF Made
  <2>3. to_be_merged \cap Target \subseteq Target /\ requested \subseteq Target
    BY <1>1 DEF Base, TypeOK
  <2>4. QED
    BY <2>1, <2>2, <2>3 DEF FreshInv, Fresh
<1>4. CASE \E request \in Requests : Start(request)
  <2>1. phase' = "taskmaster" /\ to_be_merged' = {}
    BY <1>4 DEF Start
  <2>2. QED
    BY <2>1 DEF FreshInv, Fresh
<1>5. CASE Crash
  BY <1>1, <1>5, CrashIs DEF FreshInv, Fresh
<1>6. CASE Rename
  <2>1. /\ phase = "renaming" /\ phase' = "idle"
        /\ \A t \in Target : recorded'[t] = "yes" => recorded[t] # "no"
        /\ UNCHANGED <<command, content, status, requested, edited, reverted>>
    BY <1>1, <1>6, RenameIs
  <2>2. ASSUME status = "ok", ~edited, NEW t \in requested, ~reverted \/ recorded'[t] = "yes"
        PROVE  content'[t] = Made(t)'
    <3>1. t \in to_be_merged \cap Target
      BY <1>1, <2>1, <2>2 DEF Base, BuildInv, TypeOK
    <3>2. content[t] = Made(t)
      BY <2>1, <2>2, <3>1 DEF FreshInv
    <3>3. QED
      BY <2>1, <3>2 DEF Made
  <2>3. QED
    BY <2>1, <2>2 DEF FreshInv, Fresh
<1>7. CASE VisitSource
  <2>1. /\ phase = "taskmaster" /\ phase' = "taskmaster" /\ h \in Node /\ h \notin to_be_merged
        /\ h \notin Target /\ to_be_merged' = to_be_merged \cup {h}
        /\ UNCHANGED <<command, content, edited, reverted, recorded>>
    BY <1>1, <1>7, VisitSourceIs
  <2> HIDE DEF h
  <2>2. QED
    BY <2>1, FreshKept
<1>8. CASE OutOfDate
  <2>1. /\ phase = "taskmaster" /\ phase' = "executing" /\ todo # << >> /\ h \in Node /\ h \in Target
        /\ \A n \in Node : n # h => content'[n] = content[n]
        /\ \A t \in Target : t # h => recorded'[t] = recorded[t]
        /\ UNCHANGED <<command, edited, reverted, to_be_merged>>
    BY <1>1, <1>8, OutOfDateIs
  <2>2. h \notin to_be_merged
    BY <1>1, <2>1, QueueHead DEF Base, TypeOK, BuildInv
  <2> HIDE DEF h
  <2>3. QED
    BY <2>1, <2>2, FreshKept
<1>9. CASE Fails
  <2>1. /\ phase = "executing" /\ phase' = "writing" /\ h \in Node /\ h \notin to_be_merged
        /\ \A n \in Node : n # h => content'[n] = content[n]
        /\ UNCHANGED <<command, edited, reverted, to_be_merged, recorded>>
    BY <1>1, <1>9, FailsIs
  <2> HIDE DEF h
  <2>2. QED
    BY <2>1, FreshKept
<1>10. CASE Executed
  <2>1. /\ phase = "executing" /\ phase' = "taskmaster" /\ todo # << >> /\ h \in Node /\ h \in Target
        /\ content'[h] = Made(h)
        /\ \A n \in Node : n # h => content'[n] = content[n]
        /\ \A t \in Target : t # h => recorded'[t] = recorded[t]
        /\ to_be_merged' = to_be_merged \cup {h}
        /\ UNCHANGED <<command, edited, reverted>>
    BY <1>1, <1>10, ExecutedIs
  <2>2. h \notin to_be_merged /\ h \notin ToSet(Deps[h]) /\ ToSet(Deps[h]) \subseteq Node
    BY <1>1, <2>1, QueueHead, Files DEF Base, TypeOK, BuildInv
  <2> HIDE DEF h
  <2>3. \A c \in ToSet(Deps[h]) : content'[c] = content[c]
    BY <2>1, <2>2
  <2>4. ASSUME NEW t \in {h} PROVE content'[t] = Made(t)'
    BY <2>1, <2>3, <2>4, MadeKept
  <2>5. QED
    BY <2>1, <2>2, <2>4, FreshKept
<1>11. CASE UpToDate
  <2>1. /\ phase = "taskmaster" /\ phase' = "taskmaster" /\ todo # << >> /\ h \in Node /\ h \in Target
        /\ content[h] # << >> /\ ~Changed(h)
        /\ recorded'[h] \in {"no", recorded[h]}
        /\ \A t \in Target : t # h => recorded'[t] = recorded[t]
        /\ to_be_merged' = to_be_merged \cup {h}
        /\ UNCHANGED <<command, content, edited, reverted>>
    BY <1>1, <1>11, UpToDateIs
  <2>2. h \notin to_be_merged
    BY <1>1, <2>1, QueueHead DEF Base, TypeOK, BuildInv
  <2>3. ~reverted => RightStored(h)
    BY <2>1, UpToDateSound DEF PastInv
  <2>4. recorded'[h] # "no" => RightStored(h)
    <3>1. SUFFICES ASSUME recorded'[h] # "no" PROVE RightStored(h)
      OBVIOUS
    <3>2. recorded[h] = "yes"
      BY <1>1, <2>1, <2>2, <3>1 DEF RecordedInv, Base, TypeOK
    <3>3. db[h].bactsig # 0
      BY <1>1, <2>1 DEF Changed, Base, TypeOK
    <3>4. QED
      BY <2>1, <3>2, <3>3 DEF RecordedInv
  <2>5. ~edited /\ (~reverted \/ recorded'[h] # "no") => content[h] = Made(h)
    BY <2>1, <2>3, <2>4, UpToDateMade
  <2>6. ASSUME NEW t \in {h} PROVE Made(t)' = Made(t)
    BY <2>1 DEF Made
  <2>7. ASSUME NEW t \in {h}
        PROVE  ~edited /\ (~reverted \/ recorded'[t] # "no") => content'[t] = Made(t)'
    BY <2>1, <2>5, <2>6, <2>7
  <2> HIDE DEF h
  <2>8. QED
    BY <2>1, <2>2, <2>7, FreshKept
<1>12. QED
  BY <1>2, <1>3, <1>4, <1>5, <1>6, <1>7, <1>8, <1>9, <1>10, <1>11 DEF Next, Step

\* FreshAlways: with settings that can be trusted, after a build that succeeded and during
\* which nobody edited anything, every target asked for is what its action makes of its
\* children as they are, whatever was edited, interrupted, failed or lost in the builds
\* before, and however many there were (Node/__init__.py:1015, Node/FS.py:2700,
\* SConsign.py:166).
THEOREM FreshAlways ==
  ASSUME \A s \in Settings : Trustworthy(s)
  PROVE  Spec => []Fresh
<1> DEFINE Inv == Exact /\ RecordedInv /\ PastInv /\ FreshInv
<1>1. Init => Inv
  <2>1. Init => Exact
    <3>1. Init => Trustworthy(setting)
      BY DEF Init
    <3>2. QED
      BY <3>1, ExactInit
  <2>2. Init => FreshInv
    BY DEF Init, FreshInv, Fresh
  <2>3. QED
    BY <2>1, <2>2, RecordedInit, PastInit
<1>2. Inv /\ [Next]_vars => Inv'
  BY ExactStep, RecordedStep, PastStep, FreshStep
<1>3. Inv => Fresh
  BY DEF FreshInv
<1>4. QED
  BY <1>1, <1>2, <1>3, PTL DEF Spec
=============================================================================
