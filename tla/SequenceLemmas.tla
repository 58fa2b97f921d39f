--------------------------- MODULE SequenceLemmas ---------------------------
(***************************************************************************)
(* What the sequence operators of the models do to the elements of a       *)
(* sequence.                                                               *)
(***************************************************************************)
EXTENDS Integers, SequencesExt, SequenceTheorems, TLAPS

\* An element is at some place of its sequence.
LEMMA Membership ==
  ASSUME NEW S, NEW s \in Seq(S)
  PROVE  /\ DOMAIN s = 1 .. Len(s)
         /\ ToSet(s) \subseteq S
         /\ \A x : x \in ToSet(s) <=> \E i \in 1 .. Len(s) : s[i] = x
BY DEF ToSet

\* Append adds one element, which is new if the sequence is to stay injective.
LEMMA AppendElements ==
  ASSUME NEW S, NEW s \in Seq(S), NEW x \in S
  PROVE  /\ Append(s, x) \in Seq(S)
         /\ Len(Append(s, x)) = Len(s) + 1
         /\ ToSet(Append(s, x)) = ToSet(s) \cup {x}
         /\ IsInjective(s) /\ x \notin ToSet(s) => IsInjective(Append(s, x))
<1> DEFINE t == Append(s, x)
<1>1. /\ t \in Seq(S)
      /\ Len(t) = Len(s) + 1
      /\ \A i \in 1 .. Len(s) : t[i] = s[i]
      /\ t[Len(s) + 1] = x
  BY AppendProperties
<1>2. DOMAIN t = 1 .. Len(s) + 1 /\ DOMAIN s = 1 .. Len(s) /\ Len(s) \in Nat
  BY <1>1
<1> HIDE DEF t
<1>3. ToSet(t) = ToSet(s) \cup {x}
  BY <1>1, <1>2 DEF ToSet
<1>4. ASSUME IsInjective(s), x \notin ToSet(s) PROVE IsInjective(t)
  BY <1>1, <1>2, <1>4 DEF ToSet, IsInjective
<1>5. QED
  BY <1>1, <1>3, <1>4 DEF t

\* Tail takes the head of an injective sequence, and nothing else.
LEMMA TailElements ==
  ASSUME NEW S, NEW s \in Seq(S), s # << >>
  PROVE  /\ Head(s) \in ToSet(s)
         /\ Tail(s) \in Seq(S)
         /\ Len(Tail(s)) = Len(s) - 1
         /\ IsInjective(s) => ToSet(Tail(s)) = ToSet(s) \ {Head(s)} /\ IsInjective(Tail(s))
<1> DEFINE t == Tail(s)
<1>1. /\ t \in Seq(S)
      /\ Len(t) = Len(s) - 1
      /\ \A i \in 1 .. Len(t) : t[i] = s[i + 1]
      /\ Head(s) = s[1]
  BY HeadTailProperties
<1>2. DOMAIN t = 1 .. Len(s) - 1 /\ DOMAIN s = 1 .. Len(s) /\ Len(s) \in Nat \ {0}
  BY <1>1
<1> HIDE DEF t
<1>3. Head(s) \in ToSet(s)
  BY <1>1, <1>2 DEF ToSet
<1>4. ASSUME IsInjective(s) PROVE IsInjective(t)
  <2>1. ASSUME NEW i \in 1 .. Len(s) - 1, NEW j \in 1 .. Len(s) - 1, t[i] = t[j]
        PROVE  i = j
    <3>1. i + 1 \in 1 .. Len(s) /\ j + 1 \in 1 .. Len(s) /\ s[i + 1] = s[j + 1]
      BY <1>1, <1>2, <2>1
    <3>2. i + 1 = j + 1
      BY <1>2, <1>4, <3>1 DEF IsInjective
    <3>3. QED
      BY ONLY <3>2, <1>2
  <2>2. QED
    BY ONLY <1>2, <2>1 DEF IsInjective
<1>5. ASSUME IsInjective(s) PROVE ToSet(t) = ToSet(s) \ {Head(s)}
  <2>1. ASSUME NEW i \in 1 .. Len(s) - 1 PROVE t[i] \in ToSet(s) \ {Head(s)}
    BY <1>1, <1>2, <1>5 DEF ToSet, IsInjective
  <2>2. ASSUME NEW i \in 1 .. Len(s), s[i] # Head(s) PROVE s[i] \in ToSet(t)
    <3>1. i - 1 \in 1 .. Len(s) - 1 /\ t[i - 1] = s[i]
      BY <1>1, <1>2, <2>2
    <3>2. QED
      BY <3>1, <1>2 DEF ToSet
  <2>3. QED
    BY <2>1, <2>2, <1>2 DEF ToSet
<1>6. QED
  BY <1>1, <1>3, <1>4, <1>5 DEF t

\* A sequence cut in two: the first k elements, and those behind them.
LEMMA CutPlaces ==
  ASSUME NEW S, NEW s \in Seq(S), NEW k \in 0 .. Len(s)
  PROVE  /\ SubSeq(s, 1, k) \in Seq(S) /\ Len(SubSeq(s, 1, k)) = k
         /\ \A i \in 1 .. k : SubSeq(s, 1, k)[i] = s[i]
         /\ SubSeq(s, k + 1, Len(s)) \in Seq(S) /\ Len(SubSeq(s, k + 1, Len(s))) = Len(s) - k
         /\ \A i \in 1 .. Len(s) - k : SubSeq(s, k + 1, Len(s))[i] = s[k + i]
<1> DEFINE a == SubSeq(s, 1, k)
           b == SubSeq(s, k + 1, Len(s))
<1>1. Len(s) \in Nat /\ \A i \in 1 .. Len(s) : s[i] \in S
  OBVIOUS
<1>2. a \in Seq(S) /\ Len(a) = k /\ \A i \in 1 .. k : a[i] = s[i]
  BY <1>1, SubSeqProperties
<1>3. \A i \in k + 1 .. Len(s) : s[i] \in S
  BY <1>1
<1>4. /\ b \in Seq(S)
      /\ Len(b) = IF k + 1 <= Len(s) THEN Len(s) - (k + 1) + 1 ELSE 0
      /\ \A i \in 1 .. Len(s) - (k + 1) + 1 : b[i] = s[(k + 1) + i - 1]
  BY <1>1, <1>3, SubSeqProperties
<1>5. Len(b) = Len(s) - k /\ \A i \in 1 .. Len(s) - k : b[i] = s[k + i]
  BY <1>1, <1>4
<1>6. QED
  BY <1>2, <1>4, <1>5

\* One sequence behind another.
LEMMA ConcatPlaces ==
  ASSUME NEW S, NEW s \in Seq(S), NEW t \in Seq(S)
  PROVE  /\ s \o t \in Seq(S) /\ Len(s \o t) = Len(s) + Len(t)
         /\ \A i \in 1 .. Len(s) : (s \o t)[i] = s[i]
         /\ \A i \in 1 .. Len(t) : (s \o t)[Len(s) + i] = t[i]
<1>1. Len(s) \in Nat /\ Len(t) \in Nat
  OBVIOUS
<1>2. /\ s \o t \in Seq(S) /\ Len(s \o t) = Len(s) + Len(t)
      /\ \A i \in 1 .. Len(s) + Len(t) :
           (s \o t)[i] = IF i <= Len(s) THEN s[i] ELSE t[i - Len(s)]
  BY ConcatProperties
<1>3. ASSUME NEW i \in 1 .. Len(s) PROVE (s \o t)[i] = s[i]
  BY <1>1, <1>2
<1>4. ASSUME NEW i \in 1 .. Len(t) PROVE (s \o t)[Len(s) + i] = t[i]
  <2>1. /\ Len(s) + i \in 1 .. Len(s) + Len(t) /\ ~(Len(s) + i <= Len(s))
        /\ (Len(s) + i) - Len(s) = i
    BY <1>1
  <2>2. QED
    BY <1>2, <2>1
<1>5. QED
  BY <1>2, <1>3, <1>4

\* A concatenation has the elements of both its parts.
LEMMA ConcatElements ==
  ASSUME NEW S, NEW s \in Seq(S), NEW t \in Seq(S)
  PROVE  /\ s \o t \in Seq(S)
         /\ ToSet(s \o t) = ToSet(s) \cup ToSet(t)
<1>1. /\ s \o t \in Seq(S) /\ Len(s \o t) = Len(s) + Len(t)
      /\ \A i \in 1 .. Len(s) : (s \o t)[i] = s[i]
      /\ \A i \in 1 .. Len(t) : (s \o t)[Len(s) + i] = t[i]
  BY ONLY ConcatPlaces, s \in Seq(S), t \in Seq(S)
<1>2. PICK u \in Seq(S) : u = s \o t
  BY <1>1
<1>3. /\ Len(u) = Len(s) + Len(t) /\ Len(s) \in Nat /\ Len(t) \in Nat
      /\ \A i \in 1 .. Len(s) : u[i] = s[i]
      /\ \A i \in 1 .. Len(t) : u[Len(s) + i] = t[i]
  BY <1>1, <1>2
<1>4. ASSUME NEW x \in ToSet(u) PROVE x \in ToSet(s) \cup ToSet(t)
  <2>1. PICK i \in 1 .. Len(u) : u[i] = x
    BY Membership
  <2>2. CASE i \in 1 .. Len(s)
    BY <1>3, <2>1, <2>2 DEF ToSet
  <2>3. CASE i \notin 1 .. Len(s)
    <3>1. PICK j \in 1 .. Len(t) : i = Len(s) + j
      <4>1. i - Len(s) \in 1 .. Len(t) /\ i = Len(s) + (i - Len(s))
        BY <1>3, <2>3
      <4>2. QED
        BY <4>1
    <3>2. t[j] = x
      BY <1>3, <2>1, <3>1
    <3>3. QED
      BY <3>2 DEF ToSet
  <2>4. QED
    BY <2>2, <2>3
<1>5. ASSUME NEW x \in ToSet(s) \cup ToSet(t) PROVE x \in ToSet(u)
  <2>1. CASE x \in ToSet(s)
    <3>1. PICK i \in 1 .. Len(s) : s[i] = x
      BY <2>1, Membership
    <3>2. i \in 1 .. Len(u) /\ u[i] = x
      BY <1>3, <3>1
    <3>3. QED
      BY <3>2, Membership
  <2>2. CASE x \in ToSet(t)
    <3>1. PICK i \in 1 .. Len(t) : t[i] = x
      BY <2>2, Membership
    <3>2. Len(s) + i \in 1 .. Len(u) /\ u[Len(s) + i] = x
      BY <1>3, <3>1
    <3>3. QED
      BY <3>2, Membership
  <2>3. QED
    BY <2>1, <2>2
<1>6. QED
  BY <1>1, <1>2, <1>4, <1>5

\* RemoveAt moves what was behind the gap one place forward.
LEMMA RemoveAtPlaces ==
  ASSUME NEW S, NEW s \in Seq(S), NEW k \in 1 .. Len(s)
  PROVE  /\ RemoveAt(s, k) \in Seq(S)
         /\ Len(RemoveAt(s, k)) = Len(s) - 1
         /\ \A i \in 1 .. Len(s) - 1 : RemoveAt(s, k)[i] = IF i < k THEN s[i] ELSE s[i + 1]
<1> DEFINE a == SubSeq(s, 1, k - 1)
           b == SubSeq(s, k + 1, Len(s))
<1>1. Len(s) \in Nat /\ k - 1 \in 0 .. Len(s) /\ k \in 0 .. Len(s)
  OBVIOUS
<1>2. a \in Seq(S) /\ Len(a) = k - 1 /\ \A i \in 1 .. k - 1 : a[i] = s[i]
  BY <1>1, CutPlaces
<1>3. b \in Seq(S) /\ Len(b) = Len(s) - k /\ \A i \in 1 .. Len(s) - k : b[i] = s[k + i]
  BY <1>1, CutPlaces
<1> HIDE DEF a, b
<1>4. /\ a \o b \in Seq(S) /\ Len(a \o b) = Len(s) - 1
      /\ \A i \in 1 .. k - 1 : (a \o b)[i] = s[i]
      /\ \A i \in 1 .. Len(s) - k : (a \o b)[(k - 1) + i] = s[k + i]
  <2>1. /\ a \o b \in Seq(S) /\ Len(a \o b) = Len(a) + Len(b)
        /\ \A i \in 1 .. Len(a) : (a \o b)[i] = a[i]
        /\ \A i \in 1 .. Len(b) : (a \o b)[Len(a) + i] = b[i]
    <3>1. a \in Seq(S) /\ b \in Seq(S)
      BY <1>2, <1>3
    <3>2. QED
      BY ONLY <3>1, ConcatPlaces
  <2>2. Len(a \o b) = Len(s) - 1
    BY <1>1, <1>2, <1>3, <2>1
  <2>3. \A i \in 1 .. Len(s) - k : (a \o b)[(k - 1) + i] = s[k + i]
    BY <1>2, <1>3, <2>1
  <2>4. QED
    BY <1>2, <2>1, <2>2, <2>3
<1>5. ASSUME NEW i \in 1 .. Len(s) - 1
      PROVE  (a \o b)[i] = IF i < k THEN s[i] ELSE s[i + 1]
  <2>1. CASE i < k
    <3>1. i \in 1 .. k - 1
      BY <1>1, <2>1
    <3>2. (a \o b)[i] = s[i]
      BY ONLY <1>4, <3>1
    <3>3. QED
      BY ONLY <2>1, <3>2
  <2>2. CASE i >= k
    <3>1. i - k + 1 \in 1 .. Len(s) - k /\ (k - 1) + (i - k + 1) = i /\ k + (i - k + 1) = i + 1
      BY <1>1, <2>2
    <3>2. (a \o b)[(k - 1) + (i - k + 1)] = s[k + (i - k + 1)]
      BY <1>4, <3>1
    <3>3. (a \o b)[i] = s[i + 1]
      BY ONLY <3>1, <3>2
    <3>4. ~(i < k)
      BY <1>1, <2>2
    <3>5. QED
      BY ONLY <3>3, <3>4
  <2>3. i < k \/ i >= k
    BY <1>1
  <2>4. QED
    BY ONLY <2>1, <2>2, <2>3
<1>6. RemoveAt(s, k) = a \o b
  BY DEF RemoveAt, a, b
<1>7. QED
  BY <1>4, <1>5, <1>6

\* RemoveAt takes one element of an injective sequence, and nothing else.
LEMMA RemoveAtElements ==
  ASSUME NEW S, NEW s \in Seq(S), NEW k \in 1 .. Len(s), IsInjective(s)
  PROVE  /\ ToSet(RemoveAt(s, k)) = ToSet(s) \ {s[k]}
         /\ IsInjective(RemoveAt(s, k))
<1> DEFINE t == RemoveAt(s, k)
<1>1. /\ t \in Seq(S)
      /\ Len(t) = Len(s) - 1
      /\ \A i \in 1 .. Len(s) - 1 : t[i] = IF i < k THEN s[i] ELSE s[i + 1]
  BY RemoveAtPlaces
<1>2. DOMAIN t = 1 .. Len(s) - 1 /\ DOMAIN s = 1 .. Len(s) /\ Len(s) \in Nat
  BY <1>1
<1> HIDE DEF t
<1> DEFINE old(i) == IF i < k THEN i ELSE i + 1
<1>3. \A i \in DOMAIN t : old(i) \in DOMAIN s \ {k} /\ t[i] = s[old(i)]
  BY <1>1, <1>2
<1>4. IsInjective(t)
  <2> SUFFICES ASSUME NEW i \in DOMAIN t, NEW j \in DOMAIN t, t[i] = t[j] PROVE i = j
    BY DEF IsInjective
  <2>1. old(i) = old(j)
    BY <1>3 DEF IsInjective
  <2>2. QED
    BY <2>1, <1>2
<1>9. ASSUME NEW i \in 1 .. Len(s) - 1 PROVE t[i] \in ToSet(s) \ {s[k]}
  <2>1. old(i) \in DOMAIN s /\ old(i) # k /\ t[i] = s[old(i)]
    BY <1>2, <1>3
  <2>2. s[old(i)] # s[k]
    BY <2>1, <1>2 DEF IsInjective
  <2>3. QED
    BY <2>1, <2>2 DEF ToSet
<1>5. ASSUME NEW i \in 1 .. Len(s), s[i] # s[k] PROVE s[i] \in ToSet(t)
  <2>1. CASE i < k
    <3>1. i \in 1 .. Len(s) - 1 /\ t[i] = s[i]
      BY <1>1, <1>2, <2>1
    <3>2. QED
      BY <3>1, <1>2 DEF ToSet
  <2>2. CASE i > k
    <3>1. i - 1 \in 1 .. Len(s) - 1 /\ t[i - 1] = s[i]
      BY <1>1, <1>2, <2>2
    <3>2. QED
      BY <3>1, <1>2 DEF ToSet
  <2>3. QED
    BY <1>5, <2>1, <2>2
<1>6. ToSet(t) = ToSet(s) \ {s[k]}
  BY <1>9, <1>5, <1>2 DEF ToSet
<1>7. QED
  BY <1>4, <1>6 DEF t

\* A sequence that agrees with another and has one element more appends it.
LEMMA AppendByPlaces ==
  ASSUME NEW L \in Nat, NEW p, p = [k \in 1 .. L |-> p[k]],
         NEW q, q = [k \in 1 .. L + 1 |-> q[k]], \A k \in 1 .. L : q[k] = p[k]
  PROVE  q = Append(p, q[L + 1])
<1> DEFINE S == {q[k] : k \in 1 .. L + 1}
<1>1. \A k \in 1 .. L : p[k] \in S
  OBVIOUS
<1>2. p \in [1 .. L -> S] /\ q \in [1 .. L + 1 -> S] /\ q[L + 1] \in S
  BY <1>1
<1> HIDE DEF S
<1>3. p \in Seq(S) /\ q \in Seq(S) /\ Len(p) = L /\ Len(q) = L + 1
  <2>1. p \in Seq(S) /\ q \in Seq(S)
    BY <1>2, SeqDef
  <2>2. DOMAIN p = 1 .. L /\ DOMAIN q = 1 .. L + 1
    BY <1>2
  <2>3. QED
    BY <2>1, <2>2, LenProperties
<1>4. /\ Append(p, q[L + 1]) \in Seq(S)
      /\ Len(Append(p, q[L + 1])) = L + 1
      /\ \A k \in 1 .. L : Append(p, q[L + 1])[k] = p[k]
      /\ Append(p, q[L + 1])[L + 1] = q[L + 1]
  BY <1>2, <1>3, AppendProperties
<1>5. \A k \in 1 .. L + 1 : q[k] = Append(p, q[L + 1])[k]
  <2> TAKE k \in 1 .. L + 1
  <2>1. k \in 1 .. L \/ k = L + 1
    OBVIOUS
  <2>2. QED
    BY <1>4, <2>1
<1>6. QED
  BY <1>3, <1>4, <1>5, SeqEqual

\* What is cut from the first of two sequences is cut from both together.
LEMMA CutConcat ==
  ASSUME NEW S, NEW s \in Seq(S), NEW t \in Seq(S), NEW k \in 0 .. Len(s)
  PROVE  SubSeq(s \o t, k + 1, Len(s \o t)) = SubSeq(s, k + 1, Len(s)) \o t
<1> DEFINE all == s \o t
           a == SubSeq(all, k + 1, Len(all))
           r == SubSeq(s, k + 1, Len(s))
           b == r \o t
<1>1. Len(s) \in Nat /\ Len(t) \in Nat /\ s \in Seq(S) /\ t \in Seq(S) /\ k \in 0 .. Len(s)
  OBVIOUS
<1>2. /\ all \in Seq(S) /\ Len(all) = Len(s) + Len(t)
      /\ \A i \in 1 .. Len(s) : all[i] = s[i]
      /\ \A i \in 1 .. Len(t) : all[Len(s) + i] = t[i]
  BY ONLY <1>1, ConcatPlaces
<1>3. r \in Seq(S) /\ Len(r) = Len(s) - k /\ \A i \in 1 .. Len(s) - k : r[i] = s[k + i]
  BY ONLY <1>1, CutPlaces
<1> HIDE DEF all, r
<1>4. /\ a \in Seq(S) /\ Len(a) = Len(all) - k
      /\ \A i \in 1 .. Len(all) - k : a[i] = all[k + i]
  <2>1. all \in Seq(S) /\ k \in 0 .. Len(all)
    BY <1>1, <1>2
  <2>2. QED
    BY ONLY <2>1, CutPlaces
<1>5. /\ b \in Seq(S) /\ Len(b) = Len(r) + Len(t)
      /\ \A i \in 1 .. Len(r) : b[i] = r[i]
      /\ \A i \in 1 .. Len(t) : b[Len(r) + i] = t[i]
  <2>1. r \in Seq(S) /\ t \in Seq(S)
    BY <1>3
  <2>2. QED
    BY ONLY <2>1, ConcatPlaces
<1> HIDE DEF a, b
<1>6. Len(a) = Len(b) /\ Len(a) = Len(s) - k + Len(t)
  BY ONLY <1>1, <1>2, <1>3, <1>4, <1>5
<1>7. ASSUME NEW i \in 1 .. Len(a) PROVE a[i] = b[i]
  <2>1. a[i] = all[k + i]
    BY <1>2, <1>4
  <2>2. CASE i <= Len(s) - k
    <3>1. i \in 1 .. Len(s) - k /\ k + i \in 1 .. Len(s)
      BY <1>1, <1>6, <2>2
    <3>2. QED
      BY <1>2, <1>3, <1>5, <2>1, <3>1
  <2>3. CASE ~(i <= Len(s) - k)
    <3>1. PICK j \in 1 .. Len(t) : j = i - (Len(s) - k)
      <4>1. i \in Int /\ i <= Len(s) - k + Len(t)
        BY <1>6
      <4>2. i - (Len(s) - k) \in 1 .. Len(t)
        BY ONLY <1>1, <2>3, <4>1
      <4>3. QED
        BY ONLY <4>2
    <3>2. k + i = Len(s) + j /\ i = Len(r) + j
      BY <1>1, <1>3, <3>1
    <3>3. QED
      BY <1>2, <1>5, <2>1, <3>2
  <2>4. QED
    BY <2>2, <2>3
<1>8. a = b
  BY <1>4, <1>5, <1>6, <1>7, SeqEqual
<1>9. QED
  BY <1>8 DEF a, b, all, r

\* Moving the first k elements of a sequence to the end of the one before it.
LEMMA MoveConcat ==
  ASSUME NEW S, NEW s \in Seq(S), NEW t \in Seq(S), NEW k \in 0 .. Len(t)
  PROVE  (s \o SubSeq(t, 1, k)) \o SubSeq(t, k + 1, Len(t)) = s \o t
<1> DEFINE f == SubSeq(t, 1, k)
           r == SubSeq(t, k + 1, Len(t))
<1>1. Len(s) \in Nat /\ Len(t) \in Nat /\ s \in Seq(S) /\ t \in Seq(S) /\ k \in 0 .. Len(t)
  OBVIOUS
<1>2. /\ f \in Seq(S) /\ Len(f) = k /\ \A i \in 1 .. k : f[i] = t[i]
      /\ r \in Seq(S) /\ Len(r) = Len(t) - k /\ \A i \in 1 .. Len(t) - k : r[i] = t[k + i]
  BY ONLY <1>1, CutPlaces
<1> HIDE DEF f, r
<1>3. f \o r \in Seq(S) /\ f \o r = t
  <2>1. f \in Seq(S) /\ r \in Seq(S)
    BY <1>2
  <2>2. /\ f \o r \in Seq(S) /\ Len(f \o r) = Len(f) + Len(r)
        /\ \A i \in 1 .. Len(f) : (f \o r)[i] = f[i]
        /\ \A i \in 1 .. Len(r) : (f \o r)[Len(f) + i] = r[i]
    BY ONLY <2>1, ConcatPlaces
  <2>3. Len(f \o r) = Len(t)
    BY ONLY <1>1, <1>2, <2>2
  <2>4. ASSUME NEW i \in 1 .. Len(t) PROVE (f \o r)[i] = t[i]
    <3>1. CASE i <= k
      BY <1>1, <1>2, <2>2, <3>1
    <3>2. CASE ~(i <= k)
      <4>1. PICK j \in 1 .. Len(t) - k : j = i - k
        BY <1>1, <3>2
      <4>2. i = k + j
        BY <1>1, <4>1
      <4>3. QED
        BY <1>2, <2>2, <4>2
    <3>3. QED
      BY <3>1, <3>2
  <2>5. QED
    BY <2>2, <2>3, <2>4, SeqEqual
<1>4. (s \o f) \o r = s \o (f \o r)
  <2>1. s \in Seq(S) /\ f \in Seq(S) /\ r \in Seq(S)
    BY <1>2
  <2>2. QED
    BY ONLY <2>1, ConcatAssociative, SMTT(20)
<1>5. QED
  BY <1>3, <1>4 DEF f, r
=============================================================================
