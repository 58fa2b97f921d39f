------------------------- MODULE FrameStreamProofs -------------------------
(***************************************************************************)
(* Theorems about FrameStream for any senders, receivers, sizes, numbers   *)
(* of messages, and any capacity of TCP.                                   *)
(***************************************************************************)
EXTENDS FrameStream, SequenceLemmas, TLAPS

\* The mutex: one sender at most is in SendMessage, with the last message.
SenderInv ==
  /\ \A s, u \in Sender : sender[s] # "idle" /\ sender[u] # "idle" => s = u
  /\ \A s \in Sender : sender[s] # "idle" => sizes # << >>
  /\ \A s \in Sender : sender[s] = "header" => sent_so_far = 0
  /\ \A s \in Sender : sender[s] = "payload" => sent_so_far < sizes[Len(sizes)]

\* The byte that will be written next.
NextOut ==
  IF \E s \in Sender : sender[s] = "header" THEN <<Len(sizes), 1>>
  ELSE IF \E s \in Sender : sender[s] = "payload"
  THEN <<Len(sizes), Header + sent_so_far + 1>>
  ELSE <<Len(sizes) + 1, 1>>

\* The bytes between the two ends, the next to be read first; and behind the last
\* one, while the connection is open, the next to be written.
Line == incoming \o outgoing
Ahead == IF peer = "open" THEN Append(Line, NextOut) ELSE Line

\* Bytes of messages with sizes z, each in its place.
Valid(z, line) ==
  \A i \in 1 .. Len(line) : /\ line[i][1] \in 1 .. Len(z)
                            /\ line[i][2] \in 1 .. Header + z[line[i][1]]

\* Byte q comes d bytes after byte p: in the same message, or after the rest of
\* that one, at least a byte of each message between, and the part before q.
Follows(z, p, q, d) ==
  \/ q[1] = p[1] /\ q[2] = p[2] + d
  \/ q[1] > p[1] /\ p[2] + d >= Header + z[p[1]] + q[2] + (q[1] - p[1] - 1)

InOrder(z, line) ==
  \A i, j \in 1 .. Len(line) : i < j => Follows(z, line[i], line[j], j - i)

StreamInv == Valid(sizes, Line) /\ InOrder(sizes, Ahead)

Reading(r) == receiver[r] \in {"payload", "deliver"}

\* A buffer is empty but while a payload is read, which goes on until it is whole.
BufInv ==
  \A r \in Receiver : /\ ~Reading(r) => buf[r] = << >>
                      /\ receiver[r] = "payload" => Len(buf[r]) < msglen[r]

\* While receivers do not overlap, one is at work at most, and none reads from a
\* socket that was given up.
OneInv ==
  ~overlap =>
    /\ \A r, u \in Receiver : receiver[r] # "none" /\ receiver[u] # "none" => r = u
    /\ \A r \in Receiver : receiver[r] \notin {"none", "select"} => sock_list

\* What is in the buffer is the begin of the message that is due.
ReadInv ==
  ~overlap => \A r \in Receiver : Reading(r) =>
    /\ Len(delivered) + 1 <= Len(sizes)
    /\ msglen[r] = sizes[Len(delivered) + 1]
    /\ \A i \in 1 .. Len(buf[r]) : buf[r][i] = <<Len(delivered) + 1, Header + i>>
    /\ receiver[r] = "deliver" => Len(buf[r]) = msglen[r]

\* The next byte to be read is the one that was not read yet.
DueInv ==
  ~overlap /\ sock_list /\ Ahead # << >> =>
    /\ \A r \in Receiver :
         /\ receiver[r] = "payload" => Ahead[1] = <<Len(delivered) + 1, Header + Len(buf[r]) + 1>>
         /\ receiver[r] = "deliver" => Ahead[1] = <<Len(delivered) + 2, 1>>
    /\ (\A r \in Receiver : ~Reading(r)) => Ahead[1] = <<Len(delivered) + 1, 1>>

\* The thread that delivered late was the last one.
LateInv ==
  ~overlap =>
    /\ late <= 1
    /\ late = 1 => \A r \in Receiver : receiver[r] # "none" => mode[r] # "async"

\* Headers arrive whole as long as TCP cut none.
WholeInv ==
  /\ ~header_cut /\ incoming # << >> => incoming[Len(incoming)][2] \notin 1 .. Header - 1
  /\ GivenUpForCause

IInv ==
  /\ TypeOK /\ SenderInv /\ StreamInv /\ BufInv /\ OneInv /\ ReadInv /\ DueInv
  /\ FramesIntact /\ LateInv /\ WholeInv

------------------------------------------------------------------------------
(***************************************************************************)
(* Bytes and messages.                                                     *)
(***************************************************************************)

\* A byte is its message and its place.
LEMMA Bytes ==
  /\ \A n, i \in Nat \ {0} : <<n, i>> \in Byte /\ <<n, i>>[1] = n /\ <<n, i>>[2] = i
  /\ \A p \in Byte : p = <<p[1], p[2]>> /\ p[1] \in Nat \ {0} /\ p[2] \in Nat \ {0}
BY DEF Byte

\* The bytes of a message that was begun.
LEMMA Messages ==
  ASSUME sizes \in Seq(0 .. MaxSize), NEW n \in 1 .. Len(sizes)
  PROVE  /\ HeaderOf(n) \in Seq(Byte) /\ Len(HeaderOf(n)) = Header
         /\ \A i \in 1 .. Header : HeaderOf(n)[i] = <<n, i>>
         /\ Payload(n) \in Seq(Byte) /\ Len(Payload(n)) = sizes[n]
         /\ \A i \in 1 .. sizes[n] : Payload(n)[i] = <<n, Header + i>>
         /\ sizes[n] \in 0 .. MaxSize /\ sizes[n] \in Nat
<1>1. sizes[n] \in 0 .. MaxSize /\ sizes[n] \in Nat /\ n \in Nat \ {0} /\ Header \in Nat \ {0}
  BY SizesAssumption
<1>2. \A i \in 1 .. Header : <<n, i>> \in Byte
  BY <1>1, Bytes
<1>3. \A i \in 1 .. sizes[n] : <<n, Header + i>> \in Byte
  BY <1>1, Bytes
<1>4. HeaderOf(n) \in [1 .. Header -> Byte] /\ Payload(n) \in [1 .. sizes[n] -> Byte]
  BY <1>2, <1>3 DEF HeaderOf, Payload
<1>5. HeaderOf(n) \in Seq(Byte) /\ Payload(n) \in Seq(Byte)
  BY <1>1, <1>4, SeqDef
<1>6. DOMAIN HeaderOf(n) = 1 .. Header /\ DOMAIN Payload(n) = 1 .. sizes[n]
  BY <1>4
<1>7. Len(HeaderOf(n)) = Header /\ Len(Payload(n)) = sizes[n]
  BY <1>1, <1>5, <1>6, LenProperties
<1>8. QED
  BY <1>1, <1>5, <1>7 DEF HeaderOf, Payload

\* The next byte to be written is one of the last message, or the first of the next.
LEMMA OutByte ==
  ASSUME TypeOK, SenderInv
  PROVE  /\ \A s \in Sender : sender[s] = "header" => NextOut = <<Len(sizes), 1>>
         /\ \A s \in Sender : sender[s] = "payload" =>
              NextOut = <<Len(sizes), Header + sent_so_far + 1>>
         /\ (\A s \in Sender : sender[s] = "idle") => NextOut = <<Len(sizes) + 1, 1>>
         /\ NextOut \in Byte
<1>1. \A s \in Sender : sender[s] = "header" => NextOut = <<Len(sizes), 1>>
  BY DEF NextOut
<1>2. \A s \in Sender : sender[s] = "payload" =>
        NextOut = <<Len(sizes), Header + sent_so_far + 1>>
  BY DEF NextOut, SenderInv
<1>3. (\A s \in Sender : sender[s] = "idle") => NextOut = <<Len(sizes) + 1, 1>>
  BY DEF NextOut
<1>4. \A s \in Sender : sender[s] # "idle" => Len(sizes) \in Nat \ {0}
  BY DEF SenderInv, TypeOK
<1>5. Header + sent_so_far + 1 \in Nat \ {0} /\ Len(sizes) + 1 \in Nat \ {0}
  BY SizesAssumption DEF TypeOK
<1>6. \/ \E s \in Sender : sender[s] = "header"
      \/ \E s \in Sender : sender[s] = "payload"
      \/ \A s \in Sender : sender[s] = "idle"
  BY DEF TypeOK
<1>7. NextOut \in Byte
  BY <1>1, <1>2, <1>3, <1>4, <1>5, <1>6, Bytes
<1>8. QED
  BY <1>1, <1>2, <1>3, <1>7

------------------------------------------------------------------------------
(***************************************************************************)
(* The order of the stream.                                                *)
(***************************************************************************)

\* What follows a byte that was taken is in order without it.
LEMMA OrderedRest ==
  ASSUME NEW z, NEW line \in Seq(Byte), NEW k \in 0 .. Len(line)
  PROVE  /\ Valid(z, line) => Valid(z, SubSeq(line, k + 1, Len(line)))
         /\ InOrder(z, line) => InOrder(z, SubSeq(line, k + 1, Len(line)))
<1> DEFINE rest == SubSeq(line, k + 1, Len(line))
<1>1. /\ Len(rest) = Len(line) - k /\ Len(line) \in Nat
      /\ \A i \in 1 .. Len(line) - k : rest[i] = line[k + i]
  BY CutPlaces
<1> HIDE DEF rest
<1>2. ASSUME Valid(z, line) PROVE Valid(z, rest)
  <2> SUFFICES ASSUME NEW i \in 1 .. Len(rest)
               PROVE  /\ rest[i][1] \in 1 .. Len(z)
                      /\ rest[i][2] \in 1 .. Header + z[rest[i][1]]
    BY DEF Valid
  <2>1. rest[i] = line[k + i] /\ k + i \in 1 .. Len(line)
    BY <1>1
  <2>2. QED
    BY <1>2, <2>1 DEF Valid
<1>3. ASSUME InOrder(z, line) PROVE InOrder(z, rest)
  <2> SUFFICES ASSUME NEW i \in 1 .. Len(rest), NEW j \in 1 .. Len(rest), i < j
               PROVE  Follows(z, rest[i], rest[j], j - i)
    BY DEF InOrder
  <2>1. /\ rest[i] = line[k + i] /\ k + i \in 1 .. Len(line)
        /\ rest[j] = line[k + j] /\ k + j \in 1 .. Len(line)
        /\ k + i < k + j /\ (k + j) - (k + i) = j - i
    BY <1>1
  <2>2. Follows(z, line[k + i], line[k + j], (k + j) - (k + i))
    BY <1>3, <2>1 DEF InOrder
  <2>3. QED
    BY <2>1, <2>2
<1>4. QED
  BY <1>2, <1>3 DEF rest

\* When a message more is begun, what is before it stays in order.
LEMMA OrderedMore ==
  ASSUME NEW z \in Seq(Nat), NEW y \in Seq(Nat), Len(z) <= Len(y),
         \A n \in 1 .. Len(z) : y[n] = z[n],
         NEW line \in Seq(Byte), NEW out \in Byte, Valid(z, line)
  PROVE  /\ Valid(y, line)
         /\ InOrder(z, line) => InOrder(y, line)
         /\ InOrder(z, Append(line, out)) => InOrder(y, Append(line, out))
<1>1. Len(z) \in Nat /\ Len(y) \in Nat /\ Len(line) \in Nat
  OBVIOUS
<1>2. \A i \in 1 .. Len(line) : /\ line[i][1] \in 1 .. Len(z) /\ line[i][1] \in 1 .. Len(y)
                                /\ y[line[i][1]] = z[line[i][1]]
  BY <1>1 DEF Valid
<1>3. Valid(y, line)
  BY <1>2 DEF Valid
<1>4. ASSUME InOrder(z, line) PROVE InOrder(y, line)
  BY <1>1, <1>2, <1>4 DEF InOrder, Follows
<1>5. ASSUME InOrder(z, Append(line, out)) PROVE InOrder(y, Append(line, out))
  <2>1. /\ Len(Append(line, out)) = Len(line) + 1
        /\ \A i \in 1 .. Len(line) : Append(line, out)[i] = line[i]
    BY AppendProperties
  <2>2. \A i, j \in 1 .. Len(line) + 1 : i < j => i \in 1 .. Len(line)
    BY <1>1
  <2>3. QED
    BY <1>2, <1>5, <2>1, <2>2 DEF InOrder, Follows
<1>6. QED
  BY <1>3, <1>4, <1>5

\* The order of a stream and a byte behind it.
LEMMA OrderedAppend ==
  ASSUME NEW z, NEW line \in Seq(Byte), NEW out \in Byte
  PROVE  InOrder(z, Append(line, out)) <=>
           /\ InOrder(z, line)
           /\ \A i \in 1 .. Len(line) : Follows(z, line[i], out, Len(line) + 1 - i)
<1> DEFINE ext == Append(line, out)
<1>1. /\ Len(ext) = Len(line) + 1 /\ Len(line) \in Nat
      /\ \A i \in 1 .. Len(line) : ext[i] = line[i]
      /\ ext[Len(line) + 1] = out
  BY AppendProperties
<1> HIDE DEF ext
<1>2. \A i, j \in 1 .. Len(line) + 1 :
        i < j => i \in 1 .. Len(line) /\ (j \in 1 .. Len(line) \/ j = Len(line) + 1)
  BY <1>1
<1>3. \A i \in 1 .. Len(line) : i \in 1 .. Len(line) + 1 /\ i < Len(line) + 1
  BY <1>1
<1>4. Len(line) + 1 \in 1 .. Len(line) + 1
  BY <1>1
<1>5. ASSUME InOrder(z, ext)
      PROVE  /\ InOrder(z, line)
             /\ \A i \in 1 .. Len(line) : Follows(z, line[i], out, Len(line) + 1 - i)
  <2>1. InOrder(z, line)
    BY <1>1, <1>3, <1>5 DEF InOrder
  <2>2. ASSUME NEW i \in 1 .. Len(line) PROVE Follows(z, line[i], out, Len(line) + 1 - i)
    BY <1>1, <1>3, <1>4, <1>5 DEF InOrder
  <2>3. QED
    BY <2>1, <2>2
<1>6. ASSUME InOrder(z, line),
             \A i \in 1 .. Len(line) : Follows(z, line[i], out, Len(line) + 1 - i)
      PROVE  InOrder(z, ext)
  BY <1>1, <1>2, <1>6 DEF InOrder
<1>7. QED
  BY <1>5, <1>6 DEF ext

\* Where byte p stands to the bytes that follow byte <<n, a>>, m of them later.
LEMMA FollowsOn ==
  ASSUME NEW z, NEW p, p[1] \in Nat, p[2] \in Nat, z[p[1]] \in Nat,
         NEW n \in Nat, z[n] \in Nat, p[1] <= n, NEW a \in Nat, NEW d \in Nat, NEW m \in Nat,
         Follows(z, p, <<n, a>>, d)
  PROVE  /\ Follows(z, p, <<n, a + m>>, d + m)
         /\ a + m = Header + z[n] + 1 /\ m > 0 => Follows(z, p, <<n + 1, 1>>, d + m)
<1>1. Header \in Nat \ {0}
  BY SizesAssumption
<1>2. CASE n = p[1] /\ a = p[2] + d
  <2>1. Follows(z, p, <<n, a + m>>, d + m)
    BY <1>2 DEF Follows
  <2>2. ASSUME a + m = Header + z[n] + 1 PROVE Follows(z, p, <<n + 1, 1>>, d + m)
    BY <1>1, <1>2, <2>2 DEF Follows
  <2>3. QED
    BY <2>1, <2>2
<1>3. CASE n > p[1] /\ p[2] + d >= Header + z[p[1]] + a + (n - p[1] - 1)
  <2>1. Follows(z, p, <<n, a + m>>, d + m)
    BY <1>1, <1>3 DEF Follows
  <2>2. ASSUME a + m = Header + z[n] + 1, m > 0 PROVE Follows(z, p, <<n + 1, 1>>, d + m)
    BY <1>1, <1>3, <2>2 DEF Follows
  <2>3. QED
    BY <2>1, <2>2
<1>4. QED
  BY <1>2, <1>3 DEF Follows

\* The stream stays in order when the next k bytes of message n, which is written up
\* to place a, are written behind it.
LEMMA OrderedGrows ==
  ASSUME NEW z \in Seq(Nat), NEW line \in Seq(Byte), Valid(z, line),
         NEW n \in 1 .. Len(z), n = Len(z), NEW a \in Nat \ {0}, NEW k \in Nat \ {0},
         a + k <= Header + z[n] + 1, InOrder(z, Append(line, <<n, a>>)),
         NEW w \in Seq(Byte), Len(w) = k, \A i \in 1 .. k : w[i] = <<n, a + i - 1>>,
         NEW out \in Byte,
         out = IF a + k = Header + z[n] + 1 THEN <<n + 1, 1>> ELSE <<n, a + k>>
  PROVE  Valid(z, line \o w) /\ InOrder(z, Append(line \o w, out))
<1> DEFINE long == line \o w
           L == Len(line)
<1>1. /\ L \in Nat /\ n \in Nat \ {0} /\ z[n] \in Nat /\ Header \in Nat \ {0}
      /\ a \in Nat \ {0} /\ k \in Nat \ {0} /\ n = Len(z) /\ a + k <= Header + z[n] + 1
  BY SizesAssumption, SMTT(20)
<1>2. /\ long \in Seq(Byte) /\ Len(long) = L + k
      /\ \A i \in 1 .. L : long[i] = line[i]
      /\ \A i \in 1 .. k : long[L + i] = <<n, a + i - 1>>
  <2>1. /\ long \in Seq(Byte) /\ Len(long) = Len(line) + Len(w)
        /\ \A i \in 1 .. Len(line) : long[i] = line[i]
        /\ \A i \in 1 .. Len(w) : long[Len(line) + i] = w[i]
    <3>1. line \in Seq(Byte) /\ w \in Seq(Byte)
      OBVIOUS
    <3>2. QED
      BY ONLY <3>1, ConcatPlaces DEF long
  <2>2. QED
    BY <2>1
<1>3. /\ InOrder(z, line)
      /\ \A i \in 1 .. L : Follows(z, line[i], <<n, a>>, L + 1 - i)
  BY OrderedAppend, Bytes, <1>1
<1>4. \A i \in 1 .. L : /\ line[i] \in Byte /\ line[i][1] \in 1 .. Len(z) /\ line[i][1] <= n
                        /\ line[i][2] \in 1 .. Header + z[line[i][1]]
  <2>1. \A i \in 1 .. L : /\ line[i] \in Byte /\ line[i][1] \in 1 .. Len(z)
                          /\ line[i][2] \in 1 .. Header + z[line[i][1]]
    BY DEF Valid
  <2>2. \A m \in 1 .. Len(z) : m <= n
    BY <1>1
  <2>3. QED
    BY <2>1, <2>2
<1>5. \A i \in 1 .. L + k : \/ i \in 1 .. L
                            \/ i - L \in 1 .. k /\ L + (i - L) = i
  BY <1>1
<1> HIDE DEF long, L
<1>6. ASSUME NEW i \in 1 .. L + k, i \notin 1 .. L PROVE long[i] = <<n, a + (i - L) - 1>>
  BY <1>2, <1>5, <1>6
<1>7. Valid(z, long)
  <2>1. ASSUME NEW i \in 1 .. L + k
        PROVE  long[i][1] \in 1 .. Len(z) /\ long[i][2] \in 1 .. Header + z[long[i][1]]
    <3>1. CASE i \in 1 .. L
      BY <1>2, <1>4, <3>1
    <3>2. CASE i \notin 1 .. L
      <4>1. PICK m \in 1 .. k : m = i - L
        BY <1>5, <3>2
      <4>2. long[i] = <<n, a + m - 1>>
        BY <1>2, <1>5, <3>2, <4>1
      <4>3. a + m - 1 \in 1 .. Header + z[n]
        BY ONLY <1>1, m \in 1 .. k
      <4>4. QED
        BY <1>1, <4>2, <4>3
    <3>3. QED
      BY <3>1, <3>2
  <2>2. QED
    BY <1>2, <2>1 DEF Valid
\* The first k + 1 bytes from <<n, a>> on, as far as they belong to message n.
<1>8. ASSUME NEW i \in 1 .. L, NEW m \in 0 .. k
      PROVE  /\ Follows(z, line[i], <<n, a + m>>, (L + 1 - i) + m)
             /\ a + m = Header + z[n] + 1 /\ m > 0
                  => Follows(z, line[i], <<n + 1, 1>>, (L + 1 - i) + m)
  <2>1. L + 1 - i \in Nat /\ m \in Nat
    BY <1>1
  <2>2. /\ line[i][1] \in Nat /\ line[i][2] \in Nat /\ z[line[i][1]] \in Nat
        /\ line[i][1] <= n /\ n \in Nat /\ a \in Nat /\ z[n] \in Nat
    <3>1. line[i] \in Byte /\ line[i][1] \in 1 .. Len(z) /\ line[i][1] <= n
      BY <1>4
    <3>2. line[i][1] \in Nat /\ line[i][2] \in Nat
      BY <3>1, Bytes
    <3>3. z[line[i][1]] \in Nat
      <4>1. \A x \in 1 .. Len(z) : z[x] \in Nat
        OBVIOUS
      <4>2. QED
        BY ONLY <3>1, <4>1
    <3>4. QED
      BY <1>1, <3>1, <3>2, <3>3
  <2>3. Follows(z, line[i], <<n, a>>, L + 1 - i)
    BY <1>3
  <2>4. QED
    BY ONLY <2>1, <2>2, <2>3, FollowsOn
<1>9. ASSUME NEW i \in 1 .. k, NEW m \in 0 .. k, i <= m
      PROVE  /\ Follows(z, <<n, a + i - 1>>, <<n, a + m>>, m + 1 - i)
             /\ a + m = Header + z[n] + 1 => Follows(z, <<n, a + i - 1>>, <<n + 1, 1>>, m + 1 - i)
  BY <1>1, <1>9, SMTT(20) DEF Follows
<1>10. InOrder(z, long)
  <2> SUFFICES ASSUME NEW i \in 1 .. L + k, NEW j \in 1 .. L + k, i < j
               PROVE  Follows(z, long[i], long[j], j - i)
    BY <1>2 DEF InOrder
  <2>1. CASE j \in 1 .. L
    <3>1. i \in 1 .. L
      BY <1>1, <2>1
    <3>2. QED
      BY <1>2, <1>3, <2>1, <3>1 DEF InOrder, L
  <2>2. CASE j \notin 1 .. L
    <3> DEFINE m == j - L - 1
    <3>1. m \in 0 .. k /\ long[j] = <<n, a + m>>
      <4>1. m \in 0 .. k /\ a + (j - L) - 1 = a + m
        BY <1>1, <1>5, <2>2
      <4>2. QED
        BY <1>6, <2>2, <4>1
    <3>2. CASE i \in 1 .. L
      <4>1. (L + 1 - i) + m = j - i
        BY <1>1
      <4>2. Follows(z, line[i], <<n, a + m>>, (L + 1 - i) + m)
        BY <1>8, <3>1, <3>2
      <4>3. QED
        BY <1>2, <3>1, <3>2, <4>1, <4>2
    <3>3. CASE i \notin 1 .. L
      <4>1. /\ i - L \in 1 .. k /\ i - L <= m /\ m + 1 - (i - L) = j - i
            /\ long[i] = <<n, a + (i - L) - 1>>
        <5>1. i - L \in 1 .. k /\ long[i] = <<n, a + (i - L) - 1>>
          BY <1>5, <1>6, <3>3
        <5>2. i \in Int /\ j \in Int /\ L \in Int /\ i < j
          BY <1>1
        <5>3. i - L <= j - L - 1 /\ (j - L - 1) + 1 - (i - L) = j - i
          BY ONLY <5>2
        <5>4. QED
          BY ONLY <5>1, <5>3 DEF m
      <4>2. Follows(z, <<n, a + (i - L) - 1>>, <<n, a + m>>, m + 1 - (i - L))
        BY <1>9, <3>1, <4>1
      <4>3. QED
        BY <3>1, <4>1, <4>2
    <3>4. QED
      BY <3>2, <3>3
  <2>3. QED
    BY <2>1, <2>2
<1>11. ASSUME NEW i \in 1 .. L + k PROVE Follows(z, long[i], out, (L + k) + 1 - i)
  <2>1. CASE i \in 1 .. L
    <3>1. (L + 1 - i) + k = (L + k) + 1 - i /\ k \in 0 .. k /\ k > 0
      BY <1>1
    <3>2. Follows(z, line[i], out, (L + 1 - i) + k)
      BY <1>8, <2>1, <3>1
    <3>3. QED
      BY <1>2, <2>1, <3>1, <3>2
  <2>2. CASE i \notin 1 .. L
    <3>1. i - L \in 1 .. k /\ long[i] = <<n, a + (i - L) - 1>>
      BY <1>5, <1>6, <2>2
    <3>2. i \in Int /\ L \in Int /\ k \in Nat \ {0}
      BY <1>1
    <3>3. i - L <= k /\ k \in 0 .. k /\ k + 1 - (i - L) = (L + k) + 1 - i
      BY ONLY <3>1, <3>2
    <3>4. Follows(z, <<n, a + (i - L) - 1>>, out, k + 1 - (i - L))
      BY <1>9, <3>1, <3>3
    <3>5. QED
      BY <3>1, <3>3, <3>4
  <2>3. QED
    BY <2>1, <2>2
<1>12. InOrder(z, Append(long, out))
  BY <1>2, <1>10, <1>11, OrderedAppend
<1>13. QED
  BY <1>7, <1>12 DEF long

\* There is no room for a later message but the next one, right behind this one.
LEMMA NoGap ==
  ASSUME NEW l \in Nat, NEW n \in Nat, NEW m \in Nat, NEW b \in Nat \ {0}, NEW c \in Nat,
         m > n, c >= l + b + (m - n - 1), c <= l + 1
  PROVE  m = n + 1 /\ b = 1 /\ c = l + 1
OBVIOUS

\* A stream that begins at byte <<n, a>>, with no byte behind the end of message n.
Due(z, ahead, n, a) ==
  /\ InOrder(z, ahead) /\ z[n] \in Nat
  /\ ahead # << >> /\ ahead[1] = <<n, a>>
  /\ \A i \in 1 .. Len(ahead) : ahead[i][1] = n => ahead[i][2] <= Header + z[n]

\* The next k bytes of a stream that begins at byte <<n, a>> are those of message n,
\* if it has as many, and what comes behind them is the next byte of it or, when it
\* has no more, the first of the next message.
LEMMA DueBytes ==
  ASSUME NEW z, NEW ahead \in Seq(Byte), NEW n \in Nat, NEW a \in Nat \ {0},
         Due(z, ahead, n, a), NEW k \in Nat \ {0}, k <= Len(ahead), a + k <= Header + z[n] + 1
  PROVE  /\ \A i \in 1 .. k : ahead[i] = <<n, a + i - 1>>
         /\ k < Len(ahead) =>
              ahead[k + 1] = IF a + k = Header + z[n] + 1 THEN <<n + 1, 1>> ELSE <<n, a + k>>
<1>1. /\ Header \in Nat \ {0} /\ Len(ahead) \in Nat /\ z[n] \in Nat
      /\ InOrder(z, ahead) /\ ahead # << >> /\ ahead[1] = <<n, a>>
      /\ \A i \in 1 .. Len(ahead) : ahead[i][1] = n => ahead[i][2] <= Header + z[n]
  BY SizesAssumption DEF Due
<1>2. ASSUME NEW i \in 1 .. Len(ahead), i # 1
      PROVE  /\ ahead[i] = <<ahead[i][1], ahead[i][2]>>
             /\ ahead[i][1] \in Nat \ {0} /\ ahead[i][2] \in Nat \ {0}
             /\ \/ ahead[i][1] = n /\ ahead[i][2] = a + (i - 1)
                \/ ahead[i][1] > n /\ a + (i - 1) >=
                     Header + z[n] + ahead[i][2] + (ahead[i][1] - n - 1)
  <2>1. ahead[i] \in Byte
    OBVIOUS
  <2>2. 1 \in 1 .. Len(ahead) /\ 1 < i
    BY <1>1, <1>2
  <2>3. Follows(z, <<n, a>>, ahead[i], i - 1)
    BY <1>1, <2>2 DEF InOrder
  <2>4. QED
    BY <2>1, <2>3, Bytes DEF Follows
<1>3. ASSUME NEW i \in 1 .. k PROVE ahead[i] = <<n, a + i - 1>>
  <2>1. CASE i = 1
    BY <1>1, <2>1
  <2>2. CASE i # 1
    <3>1. i \in 1 .. Len(ahead) /\ i \in Nat /\ a + (i - 1) < Header + z[n] + 1
      BY <1>1
    <3>2. ASSUME ahead[i][1] > n,
                 a + (i - 1) >= Header + z[n] + ahead[i][2] + (ahead[i][1] - n - 1)
          PROVE  FALSE
      <4>1. PICK m \in Nat, b \in Nat \ {0} : ahead[i][1] = m /\ ahead[i][2] = b
        BY <1>2, <2>2, <3>1
      <4>2. PICK c \in Nat : c = a + (i - 1) /\ c < Header + z[n] + 1
        BY <1>1, <3>1
      <4>3. PICK l \in Nat : l = Header + z[n]
        BY <1>1
      <4>4. m > n /\ c >= l + b + (m - n - 1) /\ c < l + 1
        BY ONLY <3>2, <4>1, <4>2, <4>3
      <4>5. QED
        BY ONLY <4>4, n \in Nat, m \in Nat, b \in Nat \ {0}, c \in Nat, l \in Nat, NoGap
    <3>3. ahead[i][1] = n /\ ahead[i][2] = a + (i - 1)
      BY <1>2, <2>2, <3>1, <3>2
    <3>4. a + (i - 1) = a + i - 1
      BY <3>1
    <3>5. QED
      BY <1>2, <2>2, <3>1, <3>3, <3>4
  <2>3. QED
    BY <2>1, <2>2
<1>4. ASSUME k < Len(ahead)
      PROVE  ahead[k + 1] = IF a + k = Header + z[n] + 1 THEN <<n + 1, 1>> ELSE <<n, a + k>>
  <2>1. PICK i \in 1 .. Len(ahead) : i = k + 1 /\ i # 1 /\ i - 1 = k
    BY <1>1, <1>4
  <2>2. CASE ahead[i][1] = n /\ ahead[i][2] = a + (i - 1)
    <3>1. ahead[i] = <<n, a + k>> /\ a + k <= Header + z[n]
      BY <1>1, <1>2, <2>1, <2>2
    <3>2. a + k # Header + z[n] + 1
      BY <1>1, <3>1
    <3>3. QED
      BY <2>1, <3>1, <3>2
  <2>3. CASE ahead[i][1] > n /\ a + (i - 1) >= Header + z[n] + ahead[i][2] + (ahead[i][1] - n - 1)
    <3>1. PICK m \in Nat, b \in Nat \ {0} : ahead[i] = <<m, b>> /\ ahead[i][1] = m /\ ahead[i][2] = b
      BY <1>2, <2>1
    <3>2. m > n /\ a + k >= Header + z[n] + b + (m - n - 1)
      BY <2>1, <2>3, <3>1
    <3>3. m = n + 1 /\ b = 1 /\ a + k = Header + z[n] + 1
      <4>1. Header + z[n] \in Nat /\ a + k \in Nat /\ a + k <= Header + z[n] + 1
        BY <1>1
      <4>2. QED
        BY ONLY <3>2, <4>1, n \in Nat, m \in Nat, b \in Nat \ {0}, NoGap
    <3>4. QED
      BY <2>1, <3>1, <3>3
  <2>4. QED
    BY <1>2, <2>1, <2>2, <2>3
<1>5. QED
  BY <1>3, <1>4

------------------------------------------------------------------------------
(***************************************************************************)
(* The types, the senders and the buffers.                                 *)
(***************************************************************************)

\* The size of the last message.
LEMMA LastSize ==
  ASSUME sizes \in Seq(0 .. MaxSize)
  PROVE  /\ Len(sizes) \in Nat /\ sizes \in Seq(Nat)
         /\ \A n \in 1 .. Len(sizes) : sizes[n] \in 0 .. MaxSize /\ sizes[n] \in Nat
         /\ sizes # << >> => /\ Len(sizes) \in 1 .. Len(sizes) /\ Len(sizes) \in Nat \ {0}
                             /\ sizes[Len(sizes)] \in 0 .. MaxSize /\ sizes[Len(sizes)] \in Nat
         /\ \A size \in 0 .. MaxSize :
              /\ Append(sizes, size) # << >> /\ Append(sizes, size) \in Seq(0 .. MaxSize)
              /\ Len(Append(sizes, size)) = Len(sizes) + 1
              /\ \A n \in 1 .. Len(sizes) : Append(sizes, size)[n] = sizes[n]
<1>1. /\ Len(sizes) \in Nat
      /\ \A n \in 1 .. Len(sizes) : sizes[n] \in 0 .. MaxSize /\ sizes[n] \in Nat
  BY SizesAssumption
<1>2. sizes # << >> => Len(sizes) \in 1 .. Len(sizes) /\ Len(sizes) \in Nat \ {0}
  OBVIOUS
<1>3. ASSUME NEW size \in 0 .. MaxSize
      PROVE  /\ Append(sizes, size) \in Seq(0 .. MaxSize)
             /\ Len(Append(sizes, size)) = Len(sizes) + 1
             /\ \A n \in 1 .. Len(sizes) : Append(sizes, size)[n] = sizes[n]
             /\ Append(sizes, size) # << >>
  <2>1. /\ Append(sizes, size) \in Seq(0 .. MaxSize)
        /\ Len(Append(sizes, size)) = Len(sizes) + 1
        /\ \A n \in 1 .. Len(sizes) : Append(sizes, size)[n] = sizes[n]
    BY AppendProperties
  <2>2. Len(Append(sizes, size)) # 0
    BY <1>1, <2>1
  <2>3. QED
    BY <2>1, <2>2, EmptySeq
<1>4. sizes \in Seq(Nat)
  <2>1. sizes \in [1 .. Len(sizes) -> Nat]
    BY <1>1
  <2>2. QED
    BY <1>1, <2>1, SeqDef
<1>5. QED
  BY <1>1, <1>2, <1>3, <1>4

\* One sender at a time, whatever it does with its message.
LEMMA SenderStep == TypeOK /\ SenderInv /\ [Next]_vars => SenderInv'
<1> SUFFICES ASSUME TypeOK, SenderInv, [Next]_vars PROVE SenderInv'
  OBVIOUS
<1>1. ASSUME NEW s \in Sender, Lock(s) PROVE SenderInv'
  <2>1. PICK size \in 0 .. MaxSize : sizes' = Append(sizes, size)
    BY <1>1 DEF Lock
  <2>2. sizes' # << >>
    BY <2>1, LastSize DEF TypeOK
  <2>3. QED
    BY <1>1, <2>2 DEF Lock, SendingMutexFree, TypeOK, SenderInv
<1>2. ASSUME NEW s \in Sender, SendHeader(s) PROVE SenderInv'
  <2>1. sizes # << >> /\ sizes[Len(sizes)] \in Nat /\ sent_so_far = 0
    BY <1>2, LastSize DEF SendHeader, SenderInv, TypeOK
  <2>2. \A u \in Sender : u # s => sender[u] = "idle"
    BY <1>2 DEF SendHeader, SenderInv
  <2>3. QED
    BY <1>2, <2>1, <2>2 DEF SendHeader, AfterSending, TypeOK, SenderInv
<1>3. ASSUME NEW s \in Sender, SendSome(s) PROVE SenderInv'
  <2>1. sizes # << >> /\ sizes[Len(sizes)] \in Nat
    BY <1>3, LastSize DEF SendSome, SenderInv, TypeOK
  <2>2. \A u \in Sender : u # s => sender[u] = "idle"
    BY <1>3 DEF SendSome, SenderInv
  <2>3. PICK k \in 1 .. sizes[Len(sizes)] - sent_so_far :
          /\ sent_so_far' = sent_so_far + k
          /\ sender' = [sender EXCEPT ![s] = AfterSending(sent_so_far + k)]
    BY <1>3 DEF SendSome
  <2>4. sent_so_far' <= sizes[Len(sizes)] /\ sent_so_far' \in Nat
    BY <2>1, <2>3 DEF TypeOK
  <2>5. sizes' = sizes /\ sender \in [Sender -> {"idle", "header", "payload"}]
    BY <1>3 DEF SendSome, TypeOK
  <2>6. CASE sent_so_far + k = sizes[Len(sizes)]
    <3>1. sender' = [sender EXCEPT ![s] = "idle"]
      BY <2>3, <2>6 DEF AfterSending
    <3>2. \A u \in Sender : sender'[u] = "idle"
      BY ONLY <2>2, <2>5, <3>1
    <3>3. QED
      BY ONLY <3>2 DEF SenderInv
  <2>7. CASE sent_so_far + k # sizes[Len(sizes)]
    <3>1. sender' = [sender EXCEPT ![s] = "payload"]
      BY <2>3, <2>7 DEF AfterSending
    <3>2. sender'[s] = "payload" /\ \A u \in Sender : u # s => sender'[u] = "idle"
      BY ONLY <2>2, <2>5, <3>1, s \in Sender
    <3>3. sent_so_far' < sizes'[Len(sizes')]
      BY <2>1, <2>3, <2>4, <2>5, <2>7
    <3>4. QED
      BY ONLY <2>1, <2>5, <3>2, <3>3 DEF SenderInv
  <2>8. QED
    BY <2>6, <2>7
<1>4. ASSUME NEW s \in Sender, SendFails(s) PROVE SenderInv'
  BY <1>4 DEF SendFails, TypeOK, SenderInv
<1>5. ASSUME UNCHANGED senderVars PROVE SenderInv'
  BY <1>5 DEF senderVars, SenderInv
<1>6. CASE \E s \in Sender : Lock(s) \/ SendMessage(s)
  BY <1>1, <1>2, <1>3, <1>4, <1>6 DEF SendMessage
<1>7. CASE \/ Arrive \/ Close \/ Reset \/ StopAsyncRecv \/ UNCHANGED vars
           \/ \E r \in Receiver : CallPoll(r) \/ StartAsyncRecv(r) \/ PollMessage(r)
  BY <1>5, <1>7 DEF Arrive, Close, Reset, StopAsyncRecv, vars, CallPoll, StartAsyncRecv,
     PollMessage, Select, SelectNothing, Pick, RecvHeader, RecvBadLength, RecvShortHeader,
     RecvPayload, RecvEnd, Deliver
<1>8. QED
  BY <1>6, <1>7, PollerAssumption DEF Next

\* Senders and TCP leave the types, and what receivers do, as they are.
LEMMA SendingTypes ==
  ASSUME TypeOK, SenderInv, BufInv,
         (\E s \in Sender : Lock(s) \/ SendMessage(s)) \/ Arrive \/ Close \/ Reset
  PROVE  TypeOK' /\ BufInv'
<1> DEFINE Rest == <<sock_list, async_recv_thread_started, readVars, resultVars, overlap, process>>
<1>1. UNCHANGED Rest
  BY DEF Lock, SendMessage, SendHeader, SendSome, SendFails, Arrive, Close, Reset
<1>2. BufInv'
  BY <1>1 DEF BufInv, Reading, readVars
<1>3. ASSUME sizes' \in Seq(0 .. MaxSize), sender' \in [Sender -> {"idle", "header", "payload"}],
             sent_so_far' \in 0 .. MaxSize, outgoing' \in Seq(Byte), incoming' \in Seq(Byte),
             peer' \in {"open", "closed"}
      PROVE  TypeOK'
  <2>1. header_cut' \in BOOLEAN
    BY DEF Lock, SendMessage, SendHeader, SendSome, SendFails, Arrive, Close, Reset, netVars, TypeOK
  <2>2. QED
    BY <1>1, <1>3, <2>1 DEF TypeOK, readVars, resultVars
<1>4. ASSUME NEW s \in Sender, Lock(s) PROVE TypeOK'
  <2>1. sizes' \in Seq(0 .. MaxSize)
    BY <1>4, LastSize DEF Lock, TypeOK
  <2>2. 0 \in 0 .. MaxSize
    BY SizesAssumption
  <2>3. QED
    BY <1>3, <1>4, <2>1, <2>2 DEF Lock, TypeOK, netVars
<1>5. ASSUME NEW s \in Sender, SendHeader(s) PROVE TypeOK'
  <2>1. sizes # << >>
    BY <1>5 DEF SendHeader, SenderInv
  <2>2. HeaderOf(Len(sizes)) \in Seq(Byte)
    BY <2>1, LastSize, Messages DEF TypeOK
  <2>3. outgoing' \in Seq(Byte)
    BY <1>5, <2>2, ConcatProperties DEF SendHeader, TypeOK
  <2>4. QED
    BY <1>3, <1>5, <2>3 DEF SendHeader, AfterSending, TypeOK
<1>6. ASSUME NEW s \in Sender, SendSome(s) PROVE TypeOK'
  <2>1. PICK k \in 1 .. sizes[Len(sizes)] - sent_so_far :
          /\ outgoing' = outgoing \o SubSeq(Payload(Len(sizes)), sent_so_far + 1, sent_so_far + k)
          /\ sent_so_far' = sent_so_far + k
          /\ sender' = [sender EXCEPT ![s] = AfterSending(sent_so_far + k)]
    BY <1>6 DEF SendSome
  <2>2. /\ Len(sizes) \in 1 .. Len(sizes) /\ sizes[Len(sizes)] \in 0 .. MaxSize
        /\ sizes[Len(sizes)] \in Nat /\ sent_so_far \in Nat
    BY <1>6, LastSize DEF SendSome, SenderInv, TypeOK
  <2>3. sent_so_far + k \in 0 .. MaxSize
    BY <2>2, SizesAssumption
  <2>4. outgoing' \in Seq(Byte)
    <3>1. /\ Payload(Len(sizes)) \in Seq(Byte)
          /\ Len(Payload(Len(sizes))) = sizes[Len(sizes)]
      BY <2>2, Messages DEF TypeOK
    <3>2. \A i \in sent_so_far + 1 .. sent_so_far + k : i \in 1 .. sizes[Len(sizes)]
      BY <2>2
    <3>3. \A i \in sent_so_far + 1 .. sent_so_far + k : Payload(Len(sizes))[i] \in Byte
      BY <3>1, <3>2
    <3>4. SubSeq(Payload(Len(sizes)), sent_so_far + 1, sent_so_far + k) \in Seq(Byte)
      BY <2>2, <3>3, SubSeqProperties
    <3>5. QED
      BY <2>1, <3>4, ConcatProperties DEF TypeOK
  <2>5. QED
    BY <1>3, <1>6, <2>1, <2>3, <2>4 DEF SendSome, AfterSending, TypeOK
<1>7. ASSUME NEW s \in Sender, SendFails(s) PROVE TypeOK'
  BY <1>3, <1>7 DEF SendFails, TypeOK, netVars
<1>8. CASE Arrive
  <2>1. PICK k \in 1 .. Len(outgoing) :
          /\ incoming' = incoming \o SubSeq(outgoing, 1, k)
          /\ outgoing' = SubSeq(outgoing, k + 1, Len(outgoing))
    BY <1>8 DEF Arrive
  <2>2. k \in 0 .. Len(outgoing)
    OBVIOUS
  <2>3. outgoing' \in Seq(Byte) /\ incoming' \in Seq(Byte)
    BY <2>1, <2>2, CutPlaces, ConcatProperties DEF TypeOK
  <2>4. sizes' = sizes /\ sender' = sender /\ sent_so_far' = sent_so_far /\ peer' = peer
    BY <1>8 DEF Arrive, senderVars
  <2>5. /\ sizes' \in Seq(0 .. MaxSize) /\ sender' \in [Sender -> {"idle", "header", "payload"}]
        /\ sent_so_far' \in 0 .. MaxSize /\ peer' \in {"open", "closed"}
    BY <2>4 DEF TypeOK
  <2>6. QED
    BY <1>2, <1>3, <2>3, <2>5
<1>9. CASE Close \/ Reset
  <2>1. sizes' = sizes /\ sender' = sender /\ sent_so_far' = sent_so_far /\ peer' = "closed"
    BY <1>9 DEF Close, Reset, senderVars
  <2>2. /\ outgoing' = outgoing \/ outgoing' = << >>
        /\ incoming' = incoming \/ incoming' = << >>
    BY <1>9 DEF Close, Reset
  <2>3. << >> \in Seq(Byte)
    OBVIOUS
  <2>4. /\ sizes' \in Seq(0 .. MaxSize) /\ sender' \in [Sender -> {"idle", "header", "payload"}]
        /\ sent_so_far' \in 0 .. MaxSize /\ peer' \in {"open", "closed"}
    BY <2>1 DEF TypeOK
  <2>5. outgoing' \in Seq(Byte) /\ incoming' \in Seq(Byte)
    BY <2>2, <2>3 DEF TypeOK
  <2>6. QED
    BY <1>2, <1>3, <2>4, <2>5
<1>10. QED
  BY <1>2, <1>4, <1>5, <1>6, <1>7, <1>8, <1>9 DEF SendMessage

\* So do calls, and steps that read nothing.
LEMMA CallingTypes ==
  ASSUME TypeOK, BufInv,
         \/ StopAsyncRecv \/ UNCHANGED vars
         \/ \E r \in Receiver : \/ CallPoll(r) \/ StartAsyncRecv(r) \/ Select(r)
                                \/ SelectNothing(r) \/ Pick(r) \/ RecvBadLength(r)
  PROVE  TypeOK' /\ BufInv'
<1>1. UNCHANGED <<senderVars, netVars, sock_list, msglen, buf, delivered>>
  BY DEF StopAsyncRecv, vars, readVars, resultVars, CallPoll, StartAsyncRecv, Select,
     SelectNothing, Pick, RecvBadLength
<1>2. /\ receiver' \in [Receiver -> ReceiverStep]
      /\ \A r \in Receiver : \/ receiver'[r] = receiver[r]
                             \/ ~Reading(r) /\ receiver'[r] \notin {"payload", "deliver"}
  BY ZenonT(20) DEF StopAsyncRecv, vars, readVars, resultVars, CallPoll, StartAsyncRecv, Select,
     SelectNothing, Pick, AfterPoll, RecvBadLength, TypeOK, ReceiverStep, Reading
<1>3. BufInv'
  BY <1>1, <1>2 DEF BufInv, Reading
<1>4. /\ mode' \in [Receiver -> {"async", "wait", "poll"}]
      /\ async_recv_thread_started' \in BOOLEAN
  BY ZenonT(20) DEF StopAsyncRecv, vars, readVars, CallPoll, StartAsyncRecv, Select,
     SelectNothing, Pick, RecvBadLength, TypeOK
<1>5. overlap' \in BOOLEAN
  BY DEF StopAsyncRecv, vars, readVars, resultVars, CallPoll, StartAsyncRecv, Select,
     SelectNothing, Pick, RecvBadLength, TypeOK, Busy
<1>6. late' \in Nat
  BY DEF StopAsyncRecv, vars, resultVars, CallPoll, StartAsyncRecv, Select,
     SelectNothing, Pick, RecvBadLength, TypeOK
<1>7. process' \in {"running", "crashed"}
  BY DEF StopAsyncRecv, vars, CallPoll, StartAsyncRecv, Select,
     SelectNothing, Pick, RecvBadLength, TypeOK
<1>8. QED
  BY <1>1, <1>2, <1>3, <1>4, <1>5, <1>6, <1>7 DEF TypeOK, senderVars, netVars

\* A header of a message gives its size.
LEMMA HeaderLength ==
  ASSUME sizes \in Seq(0 .. MaxSize), NEW bytes
  PROVE  /\ Lengths(bytes) \subseteq 0 .. MaxSize
         /\ \A n \in 1 .. Len(sizes) : bytes = HeaderOf(n) => Lengths(bytes) = {sizes[n]}
<1>1. ASSUME NEW n \in 1 .. Len(sizes), bytes = HeaderOf(n) PROVE Lengths(bytes) = {sizes[n]}
  <2>1. 1 \in 1 .. Header
    BY SizesAssumption
  <2>2. bytes[1] = <<n, 1>>
    BY <1>1, <2>1, Messages
  <2>3. bytes[1][1] = n
    BY <2>2
  <2>4. QED
    BY <1>1, <2>3 DEF Lengths
<1>2. CASE \E n \in 1 .. Len(sizes) : bytes = HeaderOf(n)
  BY <1>1, <1>2, LastSize
<1>3. CASE ~ \E n \in 1 .. Len(sizes) : bytes = HeaderOf(n)
  BY <1>1, <1>3 DEF Lengths
<1>4. QED
  BY <1>1, <1>2, <1>3

\* What is read, k bytes of what waits, and what is left.
LEMMA Taken ==
  ASSUME TypeOK, NEW k \in 0 .. Len(incoming)
  PROVE  /\ SubSeq(incoming, 1, k) \in Seq(Byte) /\ Len(SubSeq(incoming, 1, k)) = k
         /\ \A i \in 1 .. k : SubSeq(incoming, 1, k)[i] = incoming[i]
         /\ SubSeq(incoming, k + 1, Len(incoming)) \in Seq(Byte)
BY CutPlaces DEF TypeOK

\* How much a turn of the loop over the payload reads.
LEMMA TurnSize ==
  ASSUME TypeOK, NEW r \in Receiver, incoming # << >>, Len(buf[r]) < msglen[r]
  PROVE  /\ Least(Len(incoming), Wanted(r)) \in 1 .. Len(incoming)
         /\ Len(buf[r]) + Least(Len(incoming), Wanted(r)) <= msglen[r]
         /\ Len(buf[r]) \in Nat /\ msglen[r] \in Nat
<1>1. Len(buf[r]) \in Nat /\ msglen[r] \in Nat
  BY SizesAssumption DEF TypeOK
<1>2. Len(incoming) \in Nat \ {0}
  BY DEF TypeOK
<1>3. QED
  BY <1>1, <1>2 DEF Least, Wanted

\* And so do the steps that read.
LEMMA ReadingTypes ==
  ASSUME TypeOK, BufInv, NEW r \in Receiver,
         RecvHeader(r) \/ RecvShortHeader(r) \/ RecvPayload(r) \/ RecvEnd(r) \/ Deliver(r)
  PROVE  TypeOK' /\ BufInv'
<1>1. /\ UNCHANGED <<senderVars, outgoing, header_cut, peer, async_recv_thread_started, mode,
                    overlap, process>>
      /\ sock_list' \in BOOLEAN
  BY DEF RecvHeader, RecvShortHeader, RecvPayload, RecvEnd, Deliver, Cleanup, TypeOK, netVars
<1>2. receiver' \in [Receiver -> ReceiverStep]
  BY DEF RecvHeader, RecvShortHeader, RecvPayload, AfterReading, RecvEnd, Deliver, AfterPoll,
     Cleanup, TypeOK, ReceiverStep
<1>3. delivered' \in Seq(Seq(Byte)) /\ late' \in Nat
  <2>1. \/ delivered' = delivered /\ late' = late
        \/ delivered' = Append(delivered, buf[r]) /\ (late' = late \/ late' = late + 1)
    BY DEF RecvHeader, RecvShortHeader, RecvPayload, RecvEnd, Deliver, resultVars
  <2>2. Append(delivered, buf[r]) \in Seq(Seq(Byte))
    BY AppendProperties DEF TypeOK
  <2>3. delivered \in Seq(Seq(Byte)) /\ late \in Nat /\ late + 1 \in Nat
    BY DEF TypeOK
  <2>4. QED
    BY ONLY <2>1, <2>2, <2>3
<1>4. ASSUME incoming' \in Seq(Byte), msglen' \in [Receiver -> 0 .. MaxSize],
             buf' \in [Receiver -> Seq(Byte)], \A u \in Receiver : Len(buf'[u]) <= msglen'[u]
      PROVE  TypeOK'
  BY <1>1, <1>2, <1>3, <1>4 DEF TypeOK, senderVars
<1>5. CASE RecvHeader(r)
  <2>1. Header \in 0 .. Len(incoming)
    BY <1>5, SizesAssumption DEF RecvHeader
  <2>2. incoming' \in Seq(Byte)
    BY <1>5, <2>1, Taken DEF RecvHeader
  <2>3. PICK length \in 0 .. MaxSize :
          /\ msglen' = [msglen EXCEPT ![r] = length]
          /\ receiver' = [receiver EXCEPT ![r] = IF length = 0 THEN "deliver" ELSE "payload"]
    BY <1>5, HeaderLength DEF RecvHeader, TypeOK
  <2>4. buf' = buf /\ buf[r] = << >>
    BY <1>5 DEF RecvHeader, BufInv, Reading
  <2>5. /\ msglen' \in [Receiver -> 0 .. MaxSize] /\ buf' \in [Receiver -> Seq(Byte)]
        /\ \A u \in Receiver : Len(buf'[u]) <= msglen'[u]
    BY <2>3, <2>4, SizesAssumption DEF TypeOK
  <2>6. BufInv'
    BY <2>3, <2>4 DEF BufInv, Reading, TypeOK
  <2>7. QED
    BY <1>4, <2>2, <2>5, <2>6
<1>6. CASE RecvPayload(r)
  <2> DEFINE k == Least(Len(incoming), Wanted(r))
  <2>1. /\ k \in 1 .. Len(incoming) /\ k \in 0 .. Len(incoming) /\ Len(buf[r]) + k <= msglen[r]
        /\ Len(buf[r]) \in Nat
    BY <1>6, TurnSize DEF RecvPayload, BufInv
  <2>2. /\ buf' = [buf EXCEPT ![r] = buf[r] \o SubSeq(incoming, 1, k)]
        /\ incoming' = SubSeq(incoming, k + 1, Len(incoming)) /\ msglen' = msglen
        /\ receiver' = [receiver EXCEPT ![r] = AfterReading(Len(buf[r]) + k, msglen[r])]
    BY <1>6 DEF RecvPayload
  <2> HIDE DEF k
  <2>3. incoming' \in Seq(Byte)
    BY <2>1, <2>2, Taken
  <2>4. /\ buf[r] \o SubSeq(incoming, 1, k) \in Seq(Byte)
        /\ Len(buf[r] \o SubSeq(incoming, 1, k)) = Len(buf[r]) + k
    BY <2>1, Taken, ConcatProperties DEF TypeOK
  <2>5. /\ msglen' \in [Receiver -> 0 .. MaxSize] /\ buf' \in [Receiver -> Seq(Byte)]
        /\ \A u \in Receiver : Len(buf'[u]) <= msglen'[u]
    BY <2>1, <2>2, <2>4 DEF TypeOK
  <2>6. BufInv'
    <3>1. /\ receiver'[r] = AfterReading(Len(buf[r]) + k, msglen[r])
          /\ Len(buf'[r]) = Len(buf[r]) + k /\ msglen'[r] = msglen[r]
          /\ \A u \in Receiver : u # r => receiver'[u] = receiver[u] /\ buf'[u] = buf[u]
                                          /\ msglen'[u] = msglen[u]
      BY <2>2, <2>4 DEF TypeOK
    <3>2. \A u \in Receiver : u # r =>
            /\ receiver'[u] \notin {"payload", "deliver"} => buf'[u] = << >>
            /\ receiver'[u] = "payload" => Len(buf'[u]) < msglen'[u]
      BY <3>1 DEF BufInv, Reading
    <3>3. /\ receiver'[r] \in {"payload", "deliver"}
          /\ receiver'[r] = "payload" => Len(buf'[r]) < msglen'[r]
      BY <3>1 DEF AfterReading
    <3>4. QED
      BY <3>2, <3>3 DEF BufInv, Reading
  <2>7. QED
    BY <1>4, <2>3, <2>5, <2>6
<1>7. CASE RecvShortHeader(r) \/ RecvEnd(r) \/ Deliver(r)
  <2>1. /\ buf' = [buf EXCEPT ![r] = << >>] /\ msglen' = msglen
        /\ incoming' = incoming \/ incoming' = << >>
    BY <1>7 DEF RecvShortHeader, RecvEnd, Deliver, Cleanup, netVars
  <2>2. << >> \in Seq(Byte) /\ Len(<< >>) = 0
    OBVIOUS
  <2>3. incoming' \in Seq(Byte)
    BY <2>1, <2>2 DEF TypeOK
  <2>4. /\ msglen' \in [Receiver -> 0 .. MaxSize] /\ buf' \in [Receiver -> Seq(Byte)]
        /\ \A u \in Receiver : Len(buf'[u]) <= msglen'[u]
    BY <2>1, <2>2, SizesAssumption DEF TypeOK
  <2>5. /\ \A u \in Receiver : u # r => receiver'[u] = receiver[u]
        /\ ~Reading(r)'
    BY <1>7 DEF RecvShortHeader, RecvEnd, Deliver, Cleanup, AfterPoll, TypeOK, Reading
  <2>6. BufInv'
    BY <2>1, <2>5 DEF BufInv, Reading, TypeOK
  <2>7. QED
    BY <1>4, <2>3, <2>4, <2>6
<1>8. QED
  BY <1>5, <1>6, <1>7

\* The types and the empty buffers are kept by every step.
LEMMA TypesStep == TypeOK /\ SenderInv /\ BufInv /\ [Next]_vars => TypeOK' /\ BufInv'
BY SendingTypes, CallingTypes, ReadingTypes, PollerAssumption DEF Next, PollMessage

------------------------------------------------------------------------------
(***************************************************************************)
(* The stream in every step.                                               *)
(***************************************************************************)

\* Places of the stream, and of the stream with the byte to come.
LEMMA Places ==
  ASSUME TypeOK, SenderInv
  PROVE  /\ Line \in Seq(Byte) /\ Len(Line) = Len(incoming) + Len(outgoing) /\ Len(Line) \in Nat
         /\ \A i \in 1 .. Len(incoming) : Line[i] = incoming[i]
         /\ NextOut \in Byte /\ Ahead \in Seq(Byte) /\ Len(Ahead) \in Nat
         /\ Len(Ahead) = IF peer = "open" THEN Len(Line) + 1 ELSE Len(Line)
         /\ \A i \in 1 .. Len(Line) : Ahead[i] = Line[i]
         /\ peer = "open" => Ahead[Len(Line) + 1] = NextOut
<1>1. incoming \in Seq(Byte) /\ outgoing \in Seq(Byte) /\ NextOut \in Byte
  BY OutByte DEF TypeOK
<1>2. /\ Line \in Seq(Byte) /\ Len(Line) = Len(incoming) + Len(outgoing)
      /\ \A i \in 1 .. Len(incoming) : Line[i] = incoming[i]
  BY ONLY <1>1, ConcatPlaces DEF Line
<1>3. Len(Line) \in Nat
  BY <1>2
<1>4. /\ Append(Line, NextOut) \in Seq(Byte) /\ Len(Append(Line, NextOut)) = Len(Line) + 1
      /\ \A i \in 1 .. Len(Line) : Append(Line, NextOut)[i] = Line[i]
      /\ Append(Line, NextOut)[Len(Line) + 1] = NextOut
  BY ONLY <1>1, <1>2, AppendProperties
<1>5. QED
  BY <1>1, <1>2, <1>3, <1>4, SMTT(20) DEF Ahead

\* A byte of the stream has its place in its message.
LEMMA Bounds ==
  ASSUME TypeOK, SenderInv, StreamInv, NEW i \in 1 .. Len(Ahead)
  PROVE  /\ Ahead[i][1] \in 1 .. Len(sizes) + 1
         /\ \A n \in 1 .. Len(sizes) : Ahead[i][1] = n => Ahead[i][2] <= Header + sizes[n]
<1>1. Len(sizes) \in Nat /\ \A n \in 1 .. Len(sizes) : sizes[n] \in Nat
  BY LastSize DEF TypeOK
<1>2. CASE i \in 1 .. Len(Line)
  <2>1. Ahead[i] = Line[i]
    BY <1>2, Places
  <2>2. Line[i][1] \in 1 .. Len(sizes) /\ Line[i][2] \in 1 .. Header + sizes[Line[i][1]]
    BY <1>2 DEF StreamInv, Valid
  <2>3. Line[i][2] <= Header + sizes[Line[i][1]]
    BY <1>1, <2>2, SizesAssumption
  <2>4. QED
    BY <1>1, <2>1, <2>2, <2>3
<1>3. CASE i \notin 1 .. Len(Line)
  <2>1. Ahead[i] = NextOut
    BY <1>3, Places
  <2>2. CASE \E s \in Sender : sender[s] = "header"
    <3>1. NextOut = <<Len(sizes), 1>> /\ Len(sizes) \in 1 .. Len(sizes)
      BY <2>2, OutByte, LastSize DEF SenderInv, TypeOK
    <3>2. QED
      BY <1>1, <2>1, <3>1, SizesAssumption
  <2>3. CASE \E s \in Sender : sender[s] = "payload"
    <3>1. /\ NextOut = <<Len(sizes), Header + sent_so_far + 1>> /\ Len(sizes) \in 1 .. Len(sizes)
          /\ sent_so_far < sizes[Len(sizes)] /\ sent_so_far \in Nat
      BY <2>3, OutByte, LastSize, SizesAssumption DEF SenderInv, TypeOK
    <3>2. Header + sent_so_far + 1 <= Header + sizes[Len(sizes)]
      BY <1>1, <3>1, SizesAssumption
    <3>3. QED
      BY <1>1, <2>1, <3>1, <3>2
  <2>4. CASE \A s \in Sender : sender[s] = "idle"
    <3>1. NextOut = <<Len(sizes) + 1, 1>>
      BY <2>4, OutByte
    <3>2. QED
      BY <1>1, <2>1, <3>1
  <2>5. QED
    BY <2>2, <2>3, <2>4 DEF TypeOK
<1>4. QED
  BY <1>2, <1>3

\* What is left of the stream when its first k bytes were taken.
LEMMA TakeBytes ==
  ASSUME TypeOK, SenderInv, NEW k \in 0 .. Len(incoming),
         incoming' = SubSeq(incoming, k + 1, Len(incoming)),
         outgoing' = outgoing, peer' = peer, UNCHANGED senderVars
  PROVE  /\ Line' = SubSeq(Line, k + 1, Len(Line))
         /\ Ahead' = SubSeq(Ahead, k + 1, Len(Ahead))
         /\ k \in 0 .. Len(Line) /\ k \in 0 .. Len(Ahead)
<1>1. incoming \in Seq(Byte) /\ outgoing \in Seq(Byte)
  BY DEF TypeOK
<1>2. k \in 0 .. Len(Line) /\ k \in 0 .. Len(Ahead)
  BY <1>1, Places
<1>3. Line' = SubSeq(incoming, k + 1, Len(incoming)) \o outgoing
  BY DEF Line
<1>4. Line' = SubSeq(Line, k + 1, Len(Line))
  BY ONLY <1>1, <1>3, k \in 0 .. Len(incoming), CutConcat DEF Line
<1>5. NextOut' = NextOut
  BY DEF NextOut, senderVars
<1>6. CASE peer # "open"
  BY <1>2, <1>4, <1>6 DEF Ahead
<1>7. CASE peer = "open"
  <2>1. /\ Line \in Seq(Byte) /\ <<NextOut>> \in Seq(Byte) /\ NextOut \in Byte
        /\ SubSeq(Line, k + 1, Len(Line)) \in Seq(Byte)
    BY <1>2, Places, CutPlaces
  <2>2. Ahead = Line \o <<NextOut>>
    BY <1>7, <2>1, AppendIsConcat DEF Ahead
  <2>3. Ahead' = SubSeq(Line, k + 1, Len(Line)) \o <<NextOut>>
    BY <1>4, <1>5, <1>7, <2>1, AppendIsConcat DEF Ahead
  <2>4. SubSeq(Line \o <<NextOut>>, k + 1, Len(Line \o <<NextOut>>))
          = SubSeq(Line, k + 1, Len(Line)) \o <<NextOut>>
    BY ONLY <1>2, <2>1, CutConcat
  <2>5. QED
    BY <1>2, <1>4, <2>2, <2>3, <2>4
<1>8. QED
  BY <1>2, <1>4, <1>6, <1>7

\* The first byte of a stream is the same when more is written behind it.
LEMMA FirstKept ==
  ASSUME NEW line \in Seq(Byte), NEW out \in Byte, NEW w \in Seq(Byte), w # << >>, w[1] = out,
         NEW new \in Byte
  PROVE  Append(line \o w, new)[1] = Append(line, out)[1]
<1>1. /\ line \o w \in Seq(Byte) /\ Len(line \o w) = Len(line) + Len(w)
      /\ \A i \in 1 .. Len(line) : (line \o w)[i] = line[i]
      /\ \A i \in 1 .. Len(w) : (line \o w)[Len(line) + i] = w[i]
  <2>1. line \in Seq(Byte) /\ w \in Seq(Byte)
    OBVIOUS
  <2>2. QED
    BY ONLY <2>1, ConcatPlaces
<1>2. Len(line) \in Nat /\ Len(w) \in Nat \ {0} /\ 1 \in 1 .. Len(w)
  OBVIOUS
<1>3. 1 \in 1 .. Len(line \o w)
  BY <1>1, <1>2
<1>4. Append(line \o w, new)[1] = (line \o w)[1]
  BY <1>1, <1>3, AppendProperties
<1>5. CASE Len(line) = 0
  <2>1. (line \o w)[1] = out
    BY <1>1, <1>2, <1>5
  <2>2. Append(line, out)[1] = out
    BY <1>5, AppendProperties
  <2>3. QED
    BY <1>4, <2>1, <2>2
<1>6. CASE Len(line) # 0
  <2>1. 1 \in 1 .. Len(line)
    BY <1>2, <1>6
  <2>2. QED
    BY <1>1, <1>4, <2>1, AppendProperties
<1>7. QED
  BY <1>5, <1>6

\* A sender writes the next bytes of its message.
LEMMA Written ==
  ASSUME TypeOK, SenderInv, StreamInv, TypeOK', SenderInv', peer = "open", peer' = "open",
         sizes' = sizes, incoming' = incoming,
         NEW n \in 1 .. Len(sizes), n = Len(sizes), NEW a \in Nat \ {0}, NextOut = <<n, a>>,
         NEW k \in Nat \ {0}, a + k <= Header + sizes[n] + 1,
         NEW w \in Seq(Byte), Len(w) = k, \A i \in 1 .. k : w[i] = <<n, a + i - 1>>,
         outgoing' = outgoing \o w,
         NextOut' = IF a + k = Header + sizes[n] + 1 THEN <<n + 1, 1>> ELSE <<n, a + k>>
  PROVE  StreamInv' /\ Ahead # << >> /\ Ahead'[1] = Ahead[1]
<1>1. PICK out \in Byte : out = NextOut'
  <2>1. n \in Nat \ {0} /\ n + 1 \in Nat \ {0} /\ a + k \in Nat \ {0}
    BY SMTT(20) DEF TypeOK
  <2>2. <<n + 1, 1>> \in Byte /\ <<n, a + k>> \in Byte
    BY ONLY <2>1 DEF Byte
  <2>3. QED
    BY <2>2
<1>2. Line' = Line \o w /\ Line \in Seq(Byte)
  <2>1. incoming \in Seq(Byte) /\ outgoing \in Seq(Byte) /\ w \in Seq(Byte)
    BY DEF TypeOK
  <2>2. (incoming \o outgoing) \o w = incoming \o (outgoing \o w)
    BY ONLY <2>1, ConcatAssociative, SMTT(20)
  <2>3. QED
    BY <2>2, Places DEF Line
<1>3. Ahead = Append(Line, <<n, a>>) /\ Ahead' = Append(Line \o w, out) /\ <<n, a>> \in Byte
  BY <1>1, <1>2, Bytes DEF Ahead
<1>4. Valid(sizes, Line \o w) /\ InOrder(sizes, Append(Line \o w, out))
  <2>1. sizes \in Seq(Nat) /\ Valid(sizes, Line) /\ InOrder(sizes, Append(Line, <<n, a>>))
    BY <1>3, LastSize DEF StreamInv, TypeOK
  <2>2. QED
    BY <1>1, <1>2, <2>1, OrderedGrows
<1>5. w # << >> /\ w[1] = <<n, a>>
  <2>1. 1 \in 1 .. k /\ a + 1 - 1 = a
    OBVIOUS
  <2>2. QED
    BY <2>1
<1>6. Append(Line \o w, out)[1] = Append(Line, <<n, a>>)[1]
  <2>1. Line \in Seq(Byte) /\ <<n, a>> \in Byte /\ w \in Seq(Byte) /\ out \in Byte
    BY <1>2, <1>3
  <2>2. QED
    BY ONLY <1>5, <2>1, FirstKept, ZenonT(20)
<1>7. Append(Line, <<n, a>>) # << >>
  <2>1. Line \in Seq(Byte) /\ <<n, a>> \in Byte
    BY <1>2, <1>3
  <2>2. QED
    BY ONLY <2>1, AppendProperties, SMTT(20)
<1>8. StreamInv'
  BY <1>2, <1>3, <1>4 DEF StreamInv
<1>9. QED
  BY <1>3, <1>6, <1>7, <1>8

\* A sender's steps keep the order of the stream, and its first byte.
LEMMA SendingStream ==
  ASSUME TypeOK, SenderInv, StreamInv, TypeOK', SenderInv',
         NEW s \in Sender, Lock(s) \/ SendMessage(s)
  PROVE  StreamInv' /\ (Ahead' # << >> => Ahead # << >> /\ Ahead'[1] = Ahead[1])
<1>1. CASE Lock(s)
  <2>1. PICK size \in 0 .. MaxSize : sizes' = Append(sizes, size)
    BY <1>1 DEF Lock
  <2>2. /\ Line' = Line /\ peer = "open" /\ peer' = "open"
        /\ sender' = [sender EXCEPT ![s] = "header"] /\ \A u \in Sender : sender[u] = "idle"
    BY <1>1 DEF Lock, SendingMutexFree, Line, netVars
  <2>3. /\ Len(sizes') = Len(sizes) + 1 /\ sizes' \in Seq(Nat) /\ sizes \in Seq(Nat)
        /\ \A n \in 1 .. Len(sizes) : sizes'[n] = sizes[n]
        /\ Len(sizes) \in Nat
    <3>1. \A x \in 0 .. MaxSize : x \in Nat
      BY SizesAssumption
    <3>2. /\ sizes' \in Seq(0 .. MaxSize) /\ Len(sizes') = Len(sizes) + 1
          /\ \A n \in 1 .. Len(sizes) : sizes'[n] = sizes[n]
      BY <2>1, LastSize DEF TypeOK
    <3>3. sizes' \in Seq(Nat) /\ sizes \in Seq(Nat) /\ Len(sizes) \in Nat
      BY <3>2, SizesAssumption, SMTT(20) DEF TypeOK
    <3>4. QED
      BY <3>2, <3>3
  <2>4. NextOut = <<Len(sizes) + 1, 1>> /\ NextOut \in Byte
    BY <2>2, OutByte
  <2>5. sender'[s] = "header"
    BY <2>2 DEF TypeOK
  <2>6. NextOut' = NextOut
    BY <2>3, <2>4, <2>5 DEF NextOut
  <2>7. Ahead' = Ahead /\ Ahead = Append(Line, NextOut)
    BY <2>2, <2>6 DEF Ahead
  <2>8. Valid(sizes', Line) /\ InOrder(sizes', Append(Line, NextOut))
    <3>1. Line \in Seq(Byte) /\ Valid(sizes, Line) /\ InOrder(sizes, Append(Line, NextOut))
      BY <2>7, Places DEF StreamInv
    <3>2. PICK y \in Seq(Nat) : y = sizes'
      BY <2>3
    <3>3. Len(sizes) <= Len(y) /\ \A n \in 1 .. Len(sizes) : y[n] = sizes[n]
      BY <2>3, <3>2
    <3>4. Valid(y, Line) /\ InOrder(y, Append(Line, NextOut))
      BY <2>3, <2>4, <3>1, <3>3, OrderedMore, ZenonT(40)
    <3>5. QED
      BY <3>2, <3>4
  <2>9. QED
    BY <2>2, <2>7, <2>8 DEF StreamInv
<1>2. CASE SendHeader(s)
  <2>1. /\ Len(sizes) \in 1 .. Len(sizes) /\ sent_so_far = 0 /\ sizes[Len(sizes)] \in Nat
        /\ NextOut = <<Len(sizes), 1>> /\ \A u \in Sender : u # s => sender[u] = "idle"
    BY <1>2, LastSize, OutByte DEF SendHeader, SenderInv, TypeOK
  <2>2. PICK n \in 1 .. Len(sizes) : n = Len(sizes)
    BY <2>1
  <2>3. /\ peer = "open" /\ peer' = "open" /\ sizes' = sizes /\ incoming' = incoming
        /\ outgoing' = outgoing \o HeaderOf(n) /\ sent_so_far' = 0
        /\ sender' = [sender EXCEPT ![s] = AfterSending(0)]
    BY <1>2, <2>1, <2>2 DEF SendHeader
  <2>4. /\ HeaderOf(n) \in Seq(Byte) /\ Len(HeaderOf(n)) = Header
        /\ \A i \in 1 .. Header : HeaderOf(n)[i] = <<n, 1 + i - 1>>
    <3>1. \A i \in 1 .. Header : 1 + i - 1 = i
      BY SizesAssumption
    <3>2. QED
      BY <3>1, Messages, SMTT(20) DEF TypeOK
  <2>5. NextOut' = IF 1 + Header = Header + sizes[n] + 1 THEN <<n + 1, 1>> ELSE <<n, 1 + Header>>
    <3>1. CASE sizes[n] = 0
      <4>1. \A u \in Sender : sender'[u] = "idle"
        BY <2>1, <2>2, <2>3, <3>1 DEF AfterSending, TypeOK
      <4>2. NextOut' = <<n + 1, 1>>
        BY <2>2, <2>3, <4>1 DEF NextOut
      <4>3. QED
        BY <3>1, <4>2, SizesAssumption
    <3>2. CASE sizes[n] # 0
      <4>1. sender'[s] = "payload" /\ \A u \in Sender : sender'[u] # "header"
        BY <2>1, <2>2, <2>3, <3>2 DEF AfterSending, TypeOK
      <4>2. NextOut' = <<n, Header + 0 + 1>>
        BY <2>2, <2>3, <4>1 DEF NextOut
      <4>3. 1 + Header # Header + sizes[n] + 1 /\ Header + 0 + 1 = 1 + Header
        BY <2>1, <2>2, <3>2, SizesAssumption
      <4>4. QED
        BY <4>2, <4>3
    <3>3. QED
      BY <3>1, <3>2
  <2>6. 1 + Header <= Header + sizes[n] + 1 /\ Header \in Nat \ {0} /\ 1 \in Nat \ {0}
    BY <2>1, <2>2, SizesAssumption
  <2>7. NextOut = <<n, 1>> /\ n = Len(sizes)
    BY <2>1, <2>2
  <2> DEFINE w == HeaderOf(n)
             a == 1
             k == Header
  <2>8. /\ k \in Nat \ {0} /\ a \in Nat \ {0} /\ a + k <= Header + sizes[n] + 1
    BY <2>6
  <2>9. w \in Seq(Byte) /\ Len(w) = k /\ \A i \in 1 .. k : w[i] = <<n, a + i - 1>>
    BY <2>4
  <2>10. NextOut' = IF a + k = Header + sizes[n] + 1 THEN <<n + 1, 1>> ELSE <<n, a + k>>
    BY <2>5
  <2>11. NextOut = <<n, a>> /\ outgoing' = outgoing \o w
    BY <2>3, <2>7
  <2> HIDE DEF w, a, k
  <2>12. QED
    BY <2>3, <2>7, <2>8, <2>9, <2>10, <2>11, Written
<1>3. CASE SendSome(s)
  <2>1. /\ Len(sizes) \in 1 .. Len(sizes) /\ sizes[Len(sizes)] \in Nat
        /\ sent_so_far \in Nat /\ sent_so_far < sizes[Len(sizes)]
        /\ NextOut = <<Len(sizes), Header + sent_so_far + 1>>
        /\ \A u \in Sender : u # s => sender[u] = "idle"
    BY <1>3, LastSize, OutByte, SMTT(20) DEF SendSome, SenderInv, TypeOK
  <2>2. PICK n \in 1 .. Len(sizes) : n = Len(sizes)
    BY <2>1
  <2>3. PICK k \in 1 .. sizes[n] - sent_so_far :
          /\ outgoing' = outgoing \o SubSeq(Payload(n), sent_so_far + 1, sent_so_far + k)
          /\ sent_so_far' = sent_so_far + k
          /\ sender' = [sender EXCEPT ![s] = AfterSending(sent_so_far + k)]
    BY <1>3, <2>2 DEF SendSome
  <2>4. peer = "open" /\ peer' = "open" /\ sizes' = sizes /\ incoming' = incoming
    BY <1>3 DEF SendSome
  <2> DEFINE w == SubSeq(Payload(n), sent_so_far + 1, sent_so_far + k)
             a == Header + sent_so_far + 1
  <2>5. /\ k \in Nat \ {0} /\ a \in Nat \ {0} /\ sent_so_far + k <= sizes[n]
        /\ a + k <= Header + sizes[n] + 1
        /\ a + k = Header + sizes[n] + 1 <=> sent_so_far + k = sizes[n]
        /\ Header + (sent_so_far + k) + 1 = a + k
    BY <2>1, <2>2, SizesAssumption
  <2>6. w \in Seq(Byte) /\ Len(w) = k /\ \A i \in 1 .. k : w[i] = <<n, a + i - 1>>
    <3>1. /\ Payload(n) \in Seq(Byte) /\ Len(Payload(n)) = sizes[n]
          /\ \A i \in 1 .. sizes[n] : Payload(n)[i] = <<n, Header + i>>
      BY Messages DEF TypeOK
    <3>2. \A i \in sent_so_far + 1 .. sent_so_far + k : i \in 1 .. sizes[n]
      BY <2>1, <2>2, <2>5
    <3>3. \A i \in sent_so_far + 1 .. sent_so_far + k : Payload(n)[i] \in Byte
      BY <3>1, <3>2
    <3>4. /\ w \in Seq(Byte)
          /\ Len(w) = IF sent_so_far + 1 <= sent_so_far + k
                      THEN (sent_so_far + k) - (sent_so_far + 1) + 1 ELSE 0
          /\ \A i \in 1 .. (sent_so_far + k) - (sent_so_far + 1) + 1 :
               w[i] = Payload(n)[(sent_so_far + 1) + i - 1]
      BY <2>1, <2>5, <3>3, SubSeqProperties
    <3>5. Len(w) = k /\ \A i \in 1 .. k : w[i] = Payload(n)[sent_so_far + i]
      BY <2>1, <2>5, <3>4
    <3>6. \A i \in 1 .. k : /\ sent_so_far + i \in 1 .. sizes[n]
                            /\ Header + (sent_so_far + i) = a + i - 1
      BY <2>1, <2>2, <2>5, SizesAssumption
    <3>7. QED
      BY <3>1, <3>4, <3>5, <3>6
  <2>7. NextOut' = IF a + k = Header + sizes[n] + 1 THEN <<n + 1, 1>> ELSE <<n, a + k>>
    <3>1. CASE sent_so_far + k = sizes[n]
      <4>1. \A u \in Sender : sender'[u] = "idle"
        BY <2>1, <2>2, <2>3, <3>1 DEF AfterSending, TypeOK
      <4>2. NextOut' = <<n + 1, 1>>
        BY <2>2, <2>4, <4>1 DEF NextOut
      <4>3. QED
        BY <2>5, <3>1, <4>2
    <3>2. CASE sent_so_far + k # sizes[n]
      <4>1. sender'[s] = "payload" /\ \A u \in Sender : sender'[u] # "header"
        BY <2>1, <2>2, <2>3, <3>2 DEF AfterSending, TypeOK
      <4>2. NextOut' = <<n, Header + (sent_so_far + k) + 1>>
        BY <2>2, <2>3, <2>4, <4>1 DEF NextOut
      <4>3. QED
        BY <2>5, <3>2, <4>2
    <3>3. QED
      BY <3>1, <3>2
  <2>8. NextOut = <<n, a>> /\ outgoing' = outgoing \o w
    BY <2>1, <2>2, <2>3
  <2> HIDE DEF w, a
  <2>9. QED
    BY <2>2, <2>4, <2>5, <2>6, <2>7, <2>8, Written, ZenonT(20)
<1>4. CASE SendFails(s)
  <2>1. Line' = Line /\ peer = "closed" /\ peer' = "closed" /\ sizes' = sizes
    BY <1>4 DEF SendFails, Line, netVars
  <2>2. Ahead' = Ahead
    BY <2>1 DEF Ahead
  <2>3. QED
    BY <2>1, <2>2 DEF StreamInv
<1>5. QED
  BY <1>1, <1>2, <1>3, <1>4 DEF SendMessage

\* So does TCP.
LEMMA CarryingStream ==
  ASSUME TypeOK, SenderInv, StreamInv, Arrive \/ Close \/ Reset
  PROVE  StreamInv' /\ (Ahead' # << >> => Ahead # << >> /\ Ahead'[1] = Ahead[1])
<1>1. NextOut' = NextOut /\ sizes' = sizes
  BY DEF Arrive, Close, Reset, senderVars, NextOut
<1>2. CASE Arrive
  <2>1. PICK k \in 1 .. Len(outgoing) :
          /\ incoming' = incoming \o SubSeq(outgoing, 1, k)
          /\ outgoing' = SubSeq(outgoing, k + 1, Len(outgoing))
    BY <1>2 DEF Arrive
  <2>2. incoming \in Seq(Byte) /\ outgoing \in Seq(Byte) /\ k \in 0 .. Len(outgoing)
    BY DEF TypeOK
  <2>3. (incoming \o SubSeq(outgoing, 1, k)) \o SubSeq(outgoing, k + 1, Len(outgoing))
          = incoming \o outgoing
    BY ONLY <2>2, MoveConcat
  <2>4. Line' = Line /\ peer' = peer
    BY <1>2, <2>1, <2>3 DEF Line, Arrive
  <2>5. Ahead' = Ahead
    BY <1>1, <2>4 DEF Ahead
  <2>6. QED
    BY <1>1, <2>4, <2>5 DEF StreamInv
<1>3. CASE Close
  <2>1. Line' = Line /\ Ahead' = Line /\ Ahead = Append(Line, NextOut)
    BY <1>3 DEF Close, Line, Ahead
  <2>2. Line \in Seq(Byte) /\ NextOut \in Byte
    BY Places
  <2>3. InOrder(sizes, Line)
    BY <2>1, <2>2, OrderedAppend DEF StreamInv
  <2>4. Line # << >> => Append(Line, NextOut) # << >> /\ Append(Line, NextOut)[1] = Line[1]
    BY <2>2, AppendProperties
  <2>5. QED
    BY <1>1, <2>1, <2>3, <2>4 DEF StreamInv
<1>4. CASE Reset
  <2>1. Line' = << >> /\ Ahead' = << >>
    BY <1>4, ConcatEmptySeq DEF Reset, Line, Ahead
  <2>2. Len(<< >>) = 0
    OBVIOUS
  <2>3. QED
    BY <2>1, <2>2 DEF StreamInv, Valid, InOrder
<1>5. QED
  BY <1>2, <1>3, <1>4

\* Taking bytes keeps the order.
LEMMA TakingStream ==
  ASSUME TypeOK, SenderInv, StreamInv, NEW k \in 0 .. Len(incoming),
         incoming' = SubSeq(incoming, k + 1, Len(incoming)),
         outgoing' = outgoing, peer' = peer, UNCHANGED senderVars
  PROVE  StreamInv'
<1>1. sizes' = sizes
  BY DEF senderVars
<1>2. Line \in Seq(Byte) /\ Ahead \in Seq(Byte)
  BY Places
<1>3. /\ k \in 0 .. Len(Line) /\ k \in 0 .. Len(Ahead)
      /\ Line' = SubSeq(Line, k + 1, Len(Line)) /\ Ahead' = SubSeq(Ahead, k + 1, Len(Ahead))
  BY TakeBytes
<1>4. /\ Valid(sizes, SubSeq(Line, k + 1, Len(Line)))
      /\ InOrder(sizes, SubSeq(Ahead, k + 1, Len(Ahead)))
  BY <1>2, <1>3, OrderedRest DEF StreamInv
<1>5. QED
  BY <1>1, <1>3, <1>4 DEF StreamInv

------------------------------------------------------------------------------
(***************************************************************************)
(* The receivers in every step.                                            *)
(***************************************************************************)

\* What the receivers know of the messages and of the stream.
ReceivingInv == OneInv /\ ReadInv /\ DueInv /\ FramesIntact /\ LateInv

\* It lasts while the receivers do nothing, the messages grow and the first byte of
\* the stream stays.
LEMMA OthersStep ==
  ASSUME TypeOK, ReceivingInv,
         UNCHANGED <<sock_list, async_recv_thread_started, readVars, resultVars, overlap, process>>,
         Len(sizes) \in Nat, Len(sizes') \in Nat, Len(sizes) <= Len(sizes'),
         \A n \in 1 .. Len(sizes) : sizes'[n] = sizes[n],
         Ahead' # << >> => Ahead # << >> /\ Ahead'[1] = Ahead[1]
  PROVE  ReceivingInv'
<1>1. /\ receiver' = receiver /\ mode' = mode /\ msglen' = msglen /\ buf' = buf
      /\ delivered' = delivered /\ late' = late /\ overlap' = overlap /\ sock_list' = sock_list
      /\ Len(delivered) \in Nat
  BY DEF readVars, resultVars, TypeOK
<1>2. OneInv' /\ LateInv'
  BY <1>1 DEF ReceivingInv, OneInv, LateInv
<1>3. ReadInv'
  <2> SUFFICES ASSUME ~overlap, NEW r \in Receiver, Reading(r)
               PROVE  /\ Len(delivered) + 1 <= Len(sizes')
                      /\ msglen[r] = sizes'[Len(delivered) + 1]
                      /\ \A i \in 1 .. Len(buf[r]) : buf[r][i] = <<Len(delivered) + 1, Header + i>>
                      /\ receiver[r] = "deliver" => Len(buf[r]) = msglen[r]
    BY <1>1 DEF ReadInv, Reading
  <2>1. /\ Len(delivered) + 1 <= Len(sizes)
        /\ msglen[r] = sizes[Len(delivered) + 1]
        /\ \A i \in 1 .. Len(buf[r]) : buf[r][i] = <<Len(delivered) + 1, Header + i>>
        /\ receiver[r] = "deliver" => Len(buf[r]) = msglen[r]
    BY DEF ReceivingInv, ReadInv
  <2>2. Len(delivered) + 1 \in 1 .. Len(sizes) /\ Len(delivered) + 1 <= Len(sizes')
    BY <1>1, <2>1
  <2>3. QED
    BY <2>1, <2>2
<1>4. DueInv'
  BY <1>1 DEF ReceivingInv, DueInv, Reading
<1>5. FramesIntact'
  <2>1. ASSUME ~overlap
        PROVE  /\ Len(delivered) <= Len(sizes')
               /\ \A n \in 1 .. Len(delivered) : n \in 1 .. Len(sizes) /\ delivered[n] = Payload(n)
    BY <1>1, <2>1 DEF ReceivingInv, FramesIntact
  <2>2. \A n \in 1 .. Len(sizes) : Payload(n)' = Payload(n)
    BY DEF Payload
  <2>3. QED
    BY <1>1, <2>1, <2>2 DEF FramesIntact
<1>6. QED
  BY <1>2, <1>3, <1>4, <1>5 DEF ReceivingInv

\* Senders and TCP.
LEMMA SendingStep ==
  ASSUME IInv, TypeOK', SenderInv',
         (\E s \in Sender : Lock(s) \/ SendMessage(s)) \/ Arrive \/ Close \/ Reset
  PROVE  StreamInv' /\ ReceivingInv' /\ WholeInv'
<1>1. TypeOK /\ SenderInv /\ StreamInv /\ ReceivingInv /\ WholeInv
  BY DEF IInv, ReceivingInv
<1>2. StreamInv' /\ (Ahead' # << >> => Ahead # << >> /\ Ahead'[1] = Ahead[1])
  BY <1>1, SendingStream, CarryingStream
<1>3. /\ UNCHANGED <<sock_list, async_recv_thread_started, readVars, resultVars, overlap, process>>
      /\ sock_list' = sock_list /\ overlap' = overlap
  BY DEF Lock, SendMessage, SendHeader, SendSome, SendFails, Arrive, Close, Reset
<1>4. /\ Len(sizes) \in Nat /\ Len(sizes') \in Nat /\ Len(sizes) <= Len(sizes')
      /\ \A n \in 1 .. Len(sizes) : sizes'[n] = sizes[n]
  <2>1. Len(sizes) \in Nat /\ \A size \in 0 .. MaxSize :
          /\ Len(Append(sizes, size)) = Len(sizes) + 1
          /\ \A n \in 1 .. Len(sizes) : Append(sizes, size)[n] = sizes[n]
    BY <1>1, LastSize DEF TypeOK
  <2>2. sizes' = sizes \/ \E size \in 0 .. MaxSize : sizes' = Append(sizes, size)
    BY DEF Lock, SendMessage, SendHeader, SendSome, SendFails, Arrive, Close, Reset, senderVars
  <2>3. QED
    BY <2>1, <2>2
<1>5. ReceivingInv'
  BY <1>1, <1>2, <1>3, <1>4, OthersStep
<1>6. WholeInv'
  <2>1. CASE \E s \in Sender : Lock(s) \/ SendMessage(s)
    <3>1. incoming' = incoming /\ peer' = peer /\ header_cut' = header_cut
      BY <2>1 DEF Lock, SendMessage, SendHeader, SendSome, SendFails, netVars
    <3>2. QED
      BY <1>1, <1>3, <3>1 DEF WholeInv, GivenUpForCause
  <2>2. CASE Arrive
    <3>1. PICK k \in 1 .. Len(outgoing) :
            /\ header_cut' = (header_cut \/ outgoing[k][2] \in 1 .. Header - 1)
            /\ incoming' = incoming \o SubSeq(outgoing, 1, k)
      BY <2>2 DEF Arrive
    <3>2. /\ SubSeq(outgoing, 1, k) \in Seq(Byte) /\ Len(SubSeq(outgoing, 1, k)) = k
          /\ SubSeq(outgoing, 1, k)[k] = outgoing[k] /\ incoming \in Seq(Byte)
      <4>1. k \in 0 .. Len(outgoing) /\ k \in 1 .. k
        OBVIOUS
      <4>2. QED
        BY <1>1, <4>1, CutPlaces DEF TypeOK
    <3>3. /\ Len(incoming') = Len(incoming) + k
          /\ \A i \in 1 .. k : (incoming')[Len(incoming) + i] = SubSeq(outgoing, 1, k)[i]
      BY ONLY <3>1, <3>2, ConcatPlaces
    <3>4. (incoming')[Len(incoming')] = outgoing[k]
      BY <3>2, <3>3
    <3>5. peer' = peer
      BY <2>2 DEF Arrive
    <3>6. ~header_cut' => ~header_cut /\ outgoing[k][2] \notin 1 .. Header - 1
      BY <3>1
    <3>7. GivenUpForCause'
      BY <1>1, <1>3, <3>5, <3>6 DEF WholeInv, GivenUpForCause
    <3>8. QED
      BY <3>4, <3>6, <3>7 DEF WholeInv
  <2>3. CASE Close \/ Reset
    <3>1. /\ peer' = "closed" /\ header_cut' = header_cut
          /\ incoming' = incoming \/ incoming' = << >>
      BY <2>3 DEF Close, Reset
    <3>2. QED
      BY <1>1, <3>1 DEF WholeInv, GivenUpForCause
  <2>4. QED
    BY <2>1, <2>2, <2>3
<1>7. QED
  BY <1>2, <1>5, <1>6

\* Calls, and the steps that read nothing.
LEMMA CallingStep ==
  ASSUME IInv,
         \/ StopAsyncRecv \/ UNCHANGED vars
         \/ \E r \in Receiver : \/ CallPoll(r) \/ StartAsyncRecv(r) \/ Select(r)
                                \/ SelectNothing(r) \/ Pick(r) \/ RecvBadLength(r)
  PROVE  StreamInv' /\ ReceivingInv' /\ WholeInv'
<1>1. TypeOK /\ SenderInv /\ StreamInv /\ ReceivingInv /\ WholeInv
  BY DEF IInv, ReceivingInv
<1>2. /\ sizes' = sizes /\ sender' = sender /\ sent_so_far' = sent_so_far
      /\ incoming' = incoming /\ outgoing' = outgoing /\ peer' = peer /\ header_cut' = header_cut
      /\ sock_list' = sock_list /\ msglen' = msglen /\ buf' = buf /\ delivered' = delivered
  BY DEF StopAsyncRecv, vars, senderVars, netVars, readVars, resultVars, CallPoll,
     StartAsyncRecv, Select, SelectNothing, Pick, RecvBadLength
<1>3. Line' = Line /\ Ahead' = Ahead
  BY <1>2 DEF Line, Ahead, NextOut
<1>4. StreamInv'
  BY <1>1, <1>2, <1>3 DEF StreamInv
<1>5. \A u \in Receiver : \/ receiver'[u] = receiver[u]
                          \/ ~Reading(u) /\ receiver'[u] \notin {"payload", "deliver"}
  <2>1. CASE StopAsyncRecv \/ UNCHANGED vars \/ \E r \in Receiver : RecvBadLength(r)
    <3>1. receiver' = receiver
      BY <2>1 DEF StopAsyncRecv, vars, readVars, RecvBadLength
    <3>2. QED
      BY <3>1
  <2>2. ASSUME NEW r \in Receiver,
               CallPoll(r) \/ StartAsyncRecv(r) \/ Select(r) \/ SelectNothing(r) \/ Pick(r)
        PROVE  /\ \A u \in Receiver : u # r => receiver'[u] = receiver[u]
               /\ ~Reading(r) /\ receiver'[r] \notin {"payload", "deliver"}
    BY <1>1, <2>2 DEF CallPoll, StartAsyncRecv, Select, SelectNothing, Pick, AfterPoll, TypeOK,
       Reading
  <2>3. QED
    BY <2>1, <2>2
<1>6. overlap' = overlap \/ overlap' = (overlap \/ Busy)
  BY DEF StopAsyncRecv, vars, CallPoll, StartAsyncRecv, Select, SelectNothing, Pick, RecvBadLength
<1>7. ~overlap' => ~overlap
  BY <1>6
<1>8. FramesIntact'
  BY <1>1, <1>2, <1>7 DEF ReceivingInv, FramesIntact, Payload
<1>9. ReadInv'
  <2> SUFFICES ASSUME ~overlap, NEW r \in Receiver, Reading(r)
               PROVE  /\ Len(delivered) + 1 <= Len(sizes)
                      /\ msglen[r] = sizes[Len(delivered) + 1]
                      /\ \A i \in 1 .. Len(buf[r]) : buf[r][i] = <<Len(delivered) + 1, Header + i>>
                      /\ receiver'[r] = "deliver" => Len(buf[r]) = msglen[r]
    BY <1>2, <1>5, <1>7 DEF ReadInv, Reading
  <2>1. receiver'[r] = receiver[r]
    BY <1>5
  <2>2. QED
    BY <1>1, <2>1 DEF ReceivingInv, ReadInv
<1>10. DueInv'
  <2> SUFFICES ASSUME ~overlap, sock_list, Ahead # << >>
               PROVE  /\ \A r \in Receiver :
                           /\ receiver[r] = "payload" =>
                                Ahead[1] = <<Len(delivered) + 1, Header + Len(buf[r]) + 1>>
                           /\ receiver[r] = "deliver" => Ahead[1] = <<Len(delivered) + 2, 1>>
                      /\ (\A r \in Receiver : ~Reading(r)) => Ahead[1] = <<Len(delivered) + 1, 1>>
    BY <1>2, <1>3, <1>5, <1>7 DEF DueInv, Reading
  <2>1. QED
    BY <1>1 DEF ReceivingInv, DueInv
<1>11. OneInv' /\ LateInv'
  <2> SUFFICES ASSUME ~overlap'
               PROVE  /\ \A r, u \in Receiver : receiver'[r] # "none" /\ receiver'[u] # "none" => r = u
                      /\ \A r \in Receiver : receiver'[r] \notin {"none", "select"} => sock_list
                      /\ late' <= 1
                      /\ late' = 1 => \A r \in Receiver : receiver'[r] # "none" => mode'[r] # "async"
    BY <1>2 DEF OneInv, LateInv
  <2>1. /\ \A r, u \in Receiver : receiver[r] # "none" /\ receiver[u] # "none" => r = u
        /\ \A r \in Receiver : receiver[r] \notin {"none", "select"} => sock_list
        /\ late <= 1
        /\ late = 1 => \A r \in Receiver : receiver[r] # "none" => mode[r] # "async"
    BY <1>1, <1>7 DEF ReceivingInv, OneInv, LateInv
  <2>2. receiver \in [Receiver -> ReceiverStep] /\ mode \in [Receiver -> {"async", "wait", "poll"}]
    BY <1>1 DEF TypeOK
  <2>3. ASSUME NEW r \in Receiver, CallPoll(r) \/ StartAsyncRecv(r)
        PROVE  /\ \A u \in Receiver : receiver[u] = "none"
               /\ receiver' = [receiver EXCEPT ![r] = "select"]
    BY <2>3 DEF CallPoll, StartAsyncRecv, Busy
  <2>4. ASSUME NEW r \in Receiver, CallPoll(r)
        PROVE  late' = late /\ mode'[r] \in {"wait", "poll"}
    BY <2>2, <2>4 DEF CallPoll, resultVars
  <2>5. ASSUME NEW r \in Receiver, StartAsyncRecv(r) PROVE late' = 0
    BY <2>5 DEF StartAsyncRecv
  <2>6. CASE \E r \in Receiver : CallPoll(r) \/ StartAsyncRecv(r)
    BY <2>1, <2>2, <2>3, <2>4, <2>5, <2>6
  <2>7. CASE \/ StopAsyncRecv \/ UNCHANGED vars \/ \E r \in Receiver : RecvBadLength(r)
    <3>1. receiver' = receiver /\ mode' = mode /\ (late' = 0 \/ late' = late)
      BY <2>7 DEF StopAsyncRecv, vars, RecvBadLength, readVars, resultVars
    <3>2. QED
      BY <2>1, <3>1
  <2>8. CASE \E r \in Receiver : Select(r) \/ SelectNothing(r) \/ Pick(r)
    <3>1. PICK r \in Receiver : /\ receiver[r] # "none" /\ mode' = mode /\ late' = late
                                /\ \A u \in Receiver : u # r => receiver'[u] = receiver[u]
                                /\ receiver'[r] \notin {"none", "select"} => sock_list
      BY <2>2, <2>8 DEF Select, SelectNothing, Pick, AfterPoll, resultVars
    <3>2. \A u \in Receiver : receiver'[u] # "none" => receiver[u] # "none"
      BY <3>1
    <3>3. \A u \in Receiver : receiver'[u] \notin {"none", "select"} => sock_list
      BY <2>1, <3>1
    <3>4. QED
      BY <2>1, <3>1, <3>2, <3>3
  <2>9. QED
    BY <2>6, <2>7, <2>8
<1>12. WholeInv'
  BY <1>1, <1>2, <1>7 DEF WholeInv, GivenUpForCause
<1>13. QED
  BY <1>4, <1>8, <1>9, <1>10, <1>11, <1>12 DEF ReceivingInv

\* The next k bytes that wait are the next of message n, as far as it has as many.
LEMMA DueIncoming ==
  ASSUME TypeOK, SenderInv, StreamInv, incoming # << >>,
         NEW n \in Nat \ {0}, NEW a \in Nat \ {0}, Ahead[1] = <<n, a>>
  PROVE  /\ n \in 1 .. Len(sizes) /\ Ahead # << >>
         /\ \A k \in 1 .. Len(incoming) : a + k <= Header + sizes[n] + 1 =>
              /\ \A i \in 1 .. k : incoming[i] = <<n, a + i - 1>>
              /\ k < Len(Ahead) => Ahead[k + 1] = IF a + k = Header + sizes[n] + 1
                                                  THEN <<n + 1, 1>> ELSE <<n, a + k>>
<1>1. /\ 1 \in 1 .. Len(Line) /\ Ahead # << >> /\ Ahead \in Seq(Byte) /\ Ahead[1] = Line[1]
      /\ \A k \in 1 .. Len(incoming) : k \in Nat \ {0} /\ k <= Len(Ahead)
      /\ \A i \in 1 .. Len(incoming) : Ahead[i] = incoming[i]
  <2>1. Len(incoming) \in Nat \ {0} /\ Len(outgoing) \in Nat
    BY DEF TypeOK
  <2>2. /\ Len(Line) = Len(incoming) + Len(outgoing) /\ Len(Line) <= Len(Ahead)
        /\ Len(Ahead) \in Nat /\ Ahead \in Seq(Byte)
        /\ \A i \in 1 .. Len(incoming) : Line[i] = incoming[i]
        /\ \A i \in 1 .. Len(Line) : Ahead[i] = Line[i]
    BY Places
  <2>3. \A i \in 1 .. Len(incoming) : i \in 1 .. Len(Line) /\ i \in Nat \ {0} /\ i <= Len(Ahead)
    BY <2>1, <2>2
  <2>4. 1 \in 1 .. Len(incoming) /\ Ahead # << >>
    BY <2>1, <2>2
  <2>5. QED
    BY <2>2, <2>3, <2>4
<1>2. n \in 1 .. Len(sizes)
  BY <1>1 DEF StreamInv, Valid
<1>3. sizes[n] \in Nat
  BY <1>2, LastSize DEF TypeOK
<1>4. /\ InOrder(sizes, Ahead)
      /\ \A i \in 1 .. Len(Ahead) : Ahead[i][1] = n => Ahead[i][2] <= Header + sizes[n]
  BY <1>2, Bounds DEF StreamInv
<1>5. ASSUME NEW k \in 1 .. Len(incoming), a + k <= Header + sizes[n] + 1
      PROVE  /\ \A i \in 1 .. k : incoming[i] = <<n, a + i - 1>>
             /\ k < Len(Ahead) => Ahead[k + 1] = IF a + k = Header + sizes[n] + 1
                                                 THEN <<n + 1, 1>> ELSE <<n, a + k>>
  <2>1. /\ \A i \in 1 .. k : Ahead[i] = <<n, a + i - 1>>
        /\ k < Len(Ahead) => Ahead[k + 1] = IF a + k = Header + sizes[n] + 1
                                            THEN <<n + 1, 1>> ELSE <<n, a + k>>
    <3>1. Due(sizes, Ahead, n, a)
      BY <1>1, <1>3, <1>4 DEF Due
    <3>2. /\ n \in Nat /\ a \in Nat \ {0} /\ k \in Nat \ {0} /\ k <= Len(Ahead)
          /\ a + k <= Header + sizes[n] + 1 /\ Ahead \in Seq(Byte)
      BY <1>1, <1>5
    <3>3. QED
      BY ONLY <3>1, <3>2, DueBytes
  <2>2. \A i \in 1 .. k : i \in 1 .. Len(incoming)
    OBVIOUS
  <2>3. QED
    BY <1>1, <2>1, <2>2
<1>6. QED
  BY <1>1, <1>2, <1>5

\* What comes first when the next k bytes were taken.
LEMMA DueAfter ==
  ASSUME TypeOK, SenderInv, NEW k \in 0 .. Len(incoming),
         incoming' = SubSeq(incoming, k + 1, Len(incoming)),
         outgoing' = outgoing, peer' = peer, UNCHANGED senderVars, Ahead' # << >>
  PROVE  k < Len(Ahead) /\ Ahead'[1] = Ahead[k + 1]
<1>1. Ahead' = SubSeq(Ahead, k + 1, Len(Ahead)) /\ k \in 0 .. Len(Ahead) /\ Ahead \in Seq(Byte)
  BY TakeBytes, Places
<1>2. PICK rest \in Seq(Byte) : /\ rest = Ahead' /\ rest # << >> /\ Len(rest) = Len(Ahead) - k
                                /\ \A i \in 1 .. Len(Ahead) - k : rest[i] = Ahead[k + i]
  <2>1. /\ SubSeq(Ahead, k + 1, Len(Ahead)) \in Seq(Byte)
        /\ Len(SubSeq(Ahead, k + 1, Len(Ahead))) = Len(Ahead) - k
        /\ \A i \in 1 .. Len(Ahead) - k : SubSeq(Ahead, k + 1, Len(Ahead))[i] = Ahead[k + i]
    BY ONLY <1>1, CutPlaces
  <2>2. SubSeq(Ahead, k + 1, Len(Ahead)) # << >>
    BY <1>1
  <2>3. QED
    BY <1>1, <2>1, <2>2
<1>3. Len(rest) \in Nat \ {0} /\ Len(Ahead) \in Nat
  BY <1>1, <1>2
<1>4. 1 \in 1 .. Len(Ahead) - k /\ k < Len(Ahead)
  BY <1>1, <1>2, <1>3
<1>5. QED
  BY <1>2, <1>4

\* The last byte that waits is the last one still when some were taken.
LEMMA LastKept ==
  ASSUME TypeOK, WholeInv, NEW k \in 0 .. Len(incoming),
         incoming' = SubSeq(incoming, k + 1, Len(incoming)),
         sock_list' = sock_list, overlap' = overlap, peer' = peer, header_cut' = header_cut
  PROVE  WholeInv'
<1>1. /\ incoming' \in Seq(Byte) /\ Len(incoming') = Len(incoming) - k /\ Len(incoming) \in Nat
      /\ \A i \in 1 .. Len(incoming) - k : (incoming')[i] = incoming[k + i]
  BY CutPlaces DEF TypeOK
<1>2. ASSUME incoming' # << >>
      PROVE  incoming # << >> /\ (incoming')[Len(incoming')] = incoming[Len(incoming)]
  <2>1. Len(incoming') # 0
    BY <1>1, <1>2
  <2>2. Len(incoming) - k \in 1 .. Len(incoming) - k /\ k + (Len(incoming) - k) = Len(incoming)
    BY <1>1, <2>1
  <2>3. incoming # << >>
    BY <1>1, <2>1
  <2>4. QED
    BY <1>1, <2>2, <2>3
<1>3. QED
  BY <1>2 DEF WholeInv, GivenUpForCause

\* The one receiver at work, while receivers do not overlap, and what it goes on to.
LEMMA AloneStep ==
  ASSUME TypeOK, ReceivingInv, NEW r \in Receiver, receiver[r] # "none",
         NEW step \in ReceiverStep, receiver' = [receiver EXCEPT ![r] = step],
         sock_list \/ step \in {"none", "select"},
         overlap' = overlap, mode' = mode, sock_list' = sock_list
  PROVE  /\ OneInv'
         /\ late' = late => LateInv'
         /\ ~overlap => /\ receiver'[r] = step
                        /\ \A u \in Receiver : u # r => receiver[u] = "none" /\ receiver'[u] = "none"
<1>1. receiver'[r] = step /\ \A u \in Receiver : u # r => receiver'[u] = receiver[u]
  BY DEF TypeOK
<1>2. ~overlap => \A u \in Receiver : u # r => receiver[u] = "none" /\ receiver'[u] = "none"
  BY <1>1 DEF ReceivingInv, OneInv
<1>3. OneInv'
  BY <1>1, <1>2 DEF OneInv
<1>4. ASSUME late' = late PROVE LateInv'
  BY <1>1, <1>2, <1>4 DEF ReceivingInv, LateInv
<1>5. QED
  BY <1>1, <1>2, <1>3, <1>4

\* A header gives the size of the message that is due.
LEMMA HeaderStep ==
  ASSUME IInv, NEW r \in Receiver, RecvHeader(r)
  PROVE  StreamInv' /\ ReceivingInv' /\ WholeInv'
<1>1. TypeOK /\ SenderInv /\ StreamInv /\ BufInv /\ ReceivingInv /\ WholeInv
  BY DEF IInv, ReceivingInv
<1>2. /\ Header \in 0 .. Len(incoming) /\ Header \in 1 .. Len(incoming) /\ Header \in Nat \ {0}
      /\ incoming' = SubSeq(incoming, Header + 1, Len(incoming))
      /\ outgoing' = outgoing /\ peer' = peer /\ header_cut' = header_cut /\ UNCHANGED senderVars
      /\ sizes' = sizes /\ sock_list' = sock_list /\ overlap' = overlap /\ mode' = mode
      /\ buf' = buf /\ delivered' = delivered /\ late' = late /\ receiver[r] = "header"
      /\ incoming # << >> /\ Len(delivered) \in Nat
  BY <1>1, SizesAssumption DEF RecvHeader, senderVars, resultVars, TypeOK
<1>3. StreamInv' /\ WholeInv'
  BY <1>1, <1>2, TakingStream, LastKept
<1>4. PICK length \in Lengths(SubSeq(incoming, 1, Header)) :
        /\ msglen' = [msglen EXCEPT ![r] = length]
        /\ receiver' = [receiver EXCEPT ![r] = IF length = 0 THEN "deliver" ELSE "payload"]
  BY DEF RecvHeader
<1>5. CASE overlap
  BY <1>2, <1>3, <1>5 DEF ReceivingInv, OneInv, ReadInv, DueInv, FramesIntact, LateInv
<1>6. CASE ~overlap
  <2>1. sock_list /\ \A u \in Receiver : u # r => receiver[u] = "none"
    BY <1>1, <1>2, <1>6 DEF ReceivingInv, OneInv
  <2>2. PICK n \in Nat \ {0} : n = Len(delivered) + 1 /\ n + 1 = Len(delivered) + 2
    BY <1>2
  <2>3. Ahead # << >> /\ Ahead[1] = <<n, 1>>
    <3>1. Ahead # << >>
      BY <1>1, <1>2, Places DEF TypeOK
    <3>2. \A u \in Receiver : ~Reading(u)
      BY <1>2, <2>1 DEF Reading
    <3>3. QED
      BY <1>1, <1>6, <2>1, <2>2, <3>1, <3>2 DEF ReceivingInv, DueInv
  <2>4. /\ n \in 1 .. Len(sizes)
        /\ 1 + Header <= Header + sizes[n] + 1 =>
             /\ \A i \in 1 .. Header : incoming[i] = <<n, 1 + i - 1>>
             /\ Header < Len(Ahead) => Ahead[Header + 1] = IF 1 + Header = Header + sizes[n] + 1
                                                           THEN <<n + 1, 1>> ELSE <<n, 1 + Header>>
    BY <1>1, <1>2, <2>3, DueIncoming
  <2>5. sizes[n] \in Nat /\ Len(sizes) \in Nat
    BY <1>1, <2>4, LastSize DEF TypeOK
  <2>6. /\ \A i \in 1 .. Header : incoming[i] = <<n, i>>
        /\ Header < Len(Ahead) =>
             Ahead[Header + 1] = IF sizes[n] = 0 THEN <<n + 1, 1>> ELSE <<n, Header + 1>>
    <3>1. /\ 1 + Header <= Header + sizes[n] + 1 /\ 1 + Header = Header + 1
          /\ 1 + Header = Header + sizes[n] + 1 <=> sizes[n] = 0
          /\ \A i \in 1 .. Header : 1 + i - 1 = i
      BY <1>2, <2>5
    <3>2. \A i \in 1 .. Header : incoming[i] = <<n, i>>
      BY <2>4, <3>1
    <3>3. ASSUME Header < Len(Ahead)
          PROVE  Ahead[Header + 1] = IF sizes[n] = 0 THEN <<n + 1, 1>> ELSE <<n, Header + 1>>
      BY <2>4, <3>1, <3>3
    <3>4. QED
      BY <3>2, <3>3
  <2>7. SubSeq(incoming, 1, Header) = HeaderOf(n)
    <3>1. /\ SubSeq(incoming, 1, Header) \in Seq(Byte) /\ HeaderOf(n) \in Seq(Byte)
          /\ Len(SubSeq(incoming, 1, Header)) = Header /\ Len(HeaderOf(n)) = Header
          /\ \A i \in 1 .. Header : SubSeq(incoming, 1, Header)[i] = HeaderOf(n)[i]
      BY <1>1, <1>2, <2>4, <2>6, Messages, Taken, ZenonT(40) DEF TypeOK
    <3>2. QED
      BY <3>1, SeqEqual
  <2>8. length = sizes[n]
    BY <1>1, <1>4, <2>4, <2>7, HeaderLength DEF TypeOK
  <2>9. PICK step \in {"payload", "deliver"} :
          /\ receiver' = [receiver EXCEPT ![r] = step]
          /\ step = "deliver" <=> sizes[n] = 0
    BY <1>4, <2>8
  <2>10. /\ OneInv' /\ LateInv' /\ receiver'[r] = step
         /\ \A u \in Receiver : u # r => receiver[u] = "none" /\ receiver'[u] = "none"
    BY <1>1, <1>2, <1>6, <2>1, <2>9, AloneStep DEF ReceiverStep
  <2>11. msglen'[r] = sizes[n] /\ buf[r] = << >> /\ Len(buf[r]) = 0
    <3>1. msglen'[r] = sizes[n]
      BY <1>1, <1>4, <2>8 DEF TypeOK
    <3>2. buf[r] = << >>
      BY <1>1, <1>2 DEF BufInv, Reading
    <3>3. QED
      BY <3>1, <3>2
  <2>12. ReadInv'
    <3>1. \A u \in Receiver : receiver'[u] \in {"payload", "deliver"} => u = r
      BY <2>10
    <3>2. /\ n <= Len(sizes) /\ msglen'[r] = sizes[n] /\ Len(buf[r]) = 0
          /\ step = "deliver" => sizes[n] = 0
      BY <2>4, <2>5, <2>9, <2>11
    <3>3. QED
      BY <1>2, <2>2, <2>10, <3>1, <3>2 DEF ReadInv, Reading
  <2>13. DueInv'
    <3>1. ASSUME Ahead' # << >>
          PROVE  Ahead'[1] = IF sizes[n] = 0 THEN <<n + 1, 1>> ELSE <<n, Header + 1>>
      BY <1>1, <1>2, <2>6, <3>1, DueAfter
    <3>2. step = "payload" => Header + Len(buf[r]) + 1 = Header + 1
      BY <2>11, <1>2
    <3>3. QED
      BY <1>2, <2>2, <2>9, <2>10, <3>1, <3>2 DEF DueInv, Reading
  <2>14. FramesIntact'
    BY <1>1, <1>2 DEF ReceivingInv, FramesIntact, Payload
  <2>15. QED
    BY <1>3, <2>10, <2>12, <2>13, <2>14 DEF ReceivingInv
<1>7. QED
  BY <1>5, <1>6

\* A turn of the loop over the payload reads the next bytes of the message.
LEMMA PayloadStep ==
  ASSUME IInv, NEW r \in Receiver, RecvPayload(r)
  PROVE  StreamInv' /\ ReceivingInv' /\ WholeInv'
<1> DEFINE k == Least(Len(incoming), Wanted(r))
           more == SubSeq(incoming, 1, k)
<1>1. TypeOK /\ SenderInv /\ StreamInv /\ BufInv /\ ReceivingInv /\ WholeInv
  BY DEF IInv, ReceivingInv
<1>2. /\ incoming' = SubSeq(incoming, k + 1, Len(incoming))
      /\ outgoing' = outgoing /\ peer' = peer /\ header_cut' = header_cut /\ UNCHANGED senderVars
      /\ sizes' = sizes /\ sock_list' = sock_list /\ overlap' = overlap /\ mode' = mode
      /\ msglen' = msglen /\ delivered' = delivered /\ late' = late /\ receiver[r] = "payload"
      /\ incoming # << >> /\ Len(delivered) \in Nat
      /\ buf' = [buf EXCEPT ![r] = buf[r] \o more]
      /\ receiver' = [receiver EXCEPT ![r] = AfterReading(Len(buf[r]) + k, msglen[r])]
  BY <1>1 DEF RecvPayload, senderVars, resultVars, TypeOK
<1>3. Least(Len(incoming), Wanted(r)) \in 0 .. Len(incoming)
  <2>1. Len(incoming) \in Nat /\ Len(buf[r]) \in Nat /\ msglen[r] \in Nat /\ Len(buf[r]) <= msglen[r]
    BY <1>1, SizesAssumption DEF TypeOK
  <2>2. QED
    BY <2>1 DEF Least, Wanted
<1> HIDE DEF k
<1>4. k \in 0 .. Len(incoming)
  BY <1>3 DEF k
<1>5. StreamInv' /\ WholeInv'
  BY <1>1, <1>2, <1>4, TakingStream, LastKept
<1>6. CASE overlap
  BY <1>2, <1>5, <1>6 DEF ReceivingInv, OneInv, ReadInv, DueInv, FramesIntact, LateInv
<1>7. CASE ~overlap
  <2>1. sock_list /\ \A u \in Receiver : u # r => receiver[u] = "none"
    BY <1>1, <1>2, <1>7 DEF ReceivingInv, OneInv
  <2>2. PICK n \in Nat \ {0} : n = Len(delivered) + 1 /\ n + 1 = Len(delivered) + 2
    BY <1>2, SMTT(20)
  <2>3. /\ n <= Len(sizes) /\ msglen[r] = sizes[n] /\ Len(buf[r]) < msglen[r]
        /\ \A i \in 1 .. Len(buf[r]) : buf[r][i] = <<n, Header + i>>
    <3>1. Len(buf[r]) < msglen[r]
      BY <1>1, <1>2 DEF BufInv
    <3>2. QED
      BY <1>1, <1>2, <1>7, <2>2, <3>1 DEF ReceivingInv, ReadInv, Reading
  <2>4. /\ k \in 1 .. Len(incoming) /\ Len(buf[r]) + k <= msglen[r]
        /\ Len(buf[r]) \in Nat /\ msglen[r] \in Nat /\ Len(incoming) \in Nat
    BY <1>1, <1>2, <2>3, TurnSize DEF k, TypeOK
  <2>5. PICK a \in Nat \ {0} : a = Header + Len(buf[r]) + 1
    BY <2>4, SizesAssumption
  <2>6. Ahead # << >> /\ Ahead[1] = <<n, a>>
    <3>1. Ahead # << >>
      BY <1>1, <1>2, Places DEF TypeOK
    <3>2. QED
      BY <1>1, <1>2, <1>7, <2>1, <2>2, <2>5, <3>1 DEF ReceivingInv, DueInv
  <2>7. /\ a + k <= Header + sizes[n] + 1 /\ Header \in Nat
        /\ a + k = Header + sizes[n] + 1 <=> Len(buf[r]) + k = msglen[r]
        /\ Header + (Len(buf[r]) + k) + 1 = a + k
        /\ \A i \in 1 .. k : a + i - 1 = Header + (Len(buf[r]) + i)
    <3>1. PICK l \in Nat, m \in Nat, j \in Nat \ {0} :
            l = Len(buf[r]) /\ m = msglen[r] /\ j = k /\ l + j <= m
      BY <2>4
    <3>2. Header \in Nat /\ a = Header + l + 1 /\ m = sizes[n]
      BY <2>3, <2>5, <3>1, SizesAssumption
    <3>3. a + j <= Header + m + 1 /\ Header + (l + j) + 1 = a + j
      BY ONLY <3>1, <3>2, l \in Nat, m \in Nat, j \in Nat \ {0}
    <3>4. a + j = Header + m + 1 <=> l + j = m
      <4>1. Header \in Nat /\ a = Header + l + 1 /\ l \in Nat /\ m \in Nat /\ j \in Nat
        BY <3>2
      <4>2. l + j = m => a + j = Header + m + 1
        BY ONLY <4>1
      <4>3. a + j = Header + m + 1 => l + j = m
        BY ONLY <4>1
      <4>4. QED
        BY <4>2, <4>3
    <3>5. \A i \in 1 .. j : a + i - 1 = Header + (l + i)
      BY ONLY <3>1, <3>2, l \in Nat, m \in Nat, j \in Nat \ {0}
    <3>6. QED
      BY <3>1, <3>2, <3>3, <3>4, <3>5
  <2>8. /\ \A i \in 1 .. k : incoming[i] = <<n, Header + (Len(buf[r]) + i)>>
        /\ k < Len(Ahead) => Ahead[k + 1] = IF Len(buf[r]) + k = msglen[r]
                                            THEN <<n + 1, 1>> ELSE <<n, a + k>>
    <3>1. /\ \A i \in 1 .. k : incoming[i] = <<n, a + i - 1>>
          /\ k < Len(Ahead) => Ahead[k + 1] = IF a + k = Header + sizes[n] + 1
                                              THEN <<n + 1, 1>> ELSE <<n, a + k>>
      BY <1>1, <1>2, <2>4, <2>6, <2>7, DueIncoming, ZenonT(20)
    <3>2. QED
      BY <2>7, <3>1
  <2>9. /\ more \in Seq(Byte) /\ Len(more) = k /\ \A i \in 1 .. k : more[i] = incoming[i]
        /\ buf[r] \in Seq(Byte)
    BY <1>1, <1>4, Taken DEF TypeOK
  <2> HIDE DEF more
  <2>10. PICK read \in Seq(Byte) :
           /\ read = buf[r] \o more /\ Len(read) = Len(buf[r]) + k
           /\ \A i \in 1 .. Len(buf[r]) : read[i] = buf[r][i]
           /\ \A i \in 1 .. k : read[Len(buf[r]) + i] = more[i]
    <3>1. buf[r] \in Seq(Byte) /\ more \in Seq(Byte)
      BY <2>9
    <3>2. /\ buf[r] \o more \in Seq(Byte) /\ Len(buf[r] \o more) = Len(buf[r]) + Len(more)
          /\ \A i \in 1 .. Len(buf[r]) : (buf[r] \o more)[i] = buf[r][i]
          /\ \A i \in 1 .. Len(more) : (buf[r] \o more)[Len(buf[r]) + i] = more[i]
      BY ONLY <3>1, ConcatPlaces
    <3>3. QED
      BY <2>9, <3>2
  <2>11. \A i \in 1 .. Len(read) : read[i] = <<n, Header + i>>
    <3>1. ASSUME NEW i \in 1 .. Len(read) PROVE read[i] = <<n, Header + i>>
      <4>1. CASE i \in 1 .. Len(buf[r])
        BY <2>3, <2>10, <4>1
      <4>2. CASE i \notin 1 .. Len(buf[r])
        <5>1. PICK j \in 1 .. k : Len(buf[r]) + j = i
          <6>1. i - Len(buf[r]) \in 1 .. k /\ Len(buf[r]) + (i - Len(buf[r])) = i
            BY <2>4, <2>10, <4>2, SMTT(20)
          <6>2. QED
            BY <6>1
        <5>2. QED
          BY <2>8, <2>9, <2>10, <5>1
      <4>3. QED
        BY <4>1, <4>2
    <3>2. QED
      BY <3>1
  <2>12. PICK step \in {"payload", "deliver"} :
           /\ receiver' = [receiver EXCEPT ![r] = step]
           /\ step = "deliver" <=> Len(buf[r]) + k = msglen[r]
           /\ step = "payload" => Len(buf[r]) + k < msglen[r]
    <3>1. CASE Len(buf[r]) + k < msglen[r]
      <4>1. AfterReading(Len(buf[r]) + k, msglen[r]) = "payload" /\ Len(buf[r]) + k # msglen[r]
        BY <2>4, <3>1 DEF AfterReading
      <4>2. QED
        BY <1>2, <3>1, <4>1
    <3>2. CASE ~(Len(buf[r]) + k < msglen[r])
      <4>1. AfterReading(Len(buf[r]) + k, msglen[r]) = "deliver" /\ Len(buf[r]) + k = msglen[r]
        BY <2>4, <3>2 DEF AfterReading
      <4>2. QED
        BY <1>2, <4>1
    <3>3. QED
      BY <3>1, <3>2
  <2>13. /\ OneInv' /\ LateInv' /\ receiver'[r] = step
         /\ \A u \in Receiver : u # r => receiver[u] = "none" /\ receiver'[u] = "none"
    BY <1>1, <1>2, <1>7, <2>1, <2>12, AloneStep DEF ReceiverStep
  <2>14. buf'[r] = read
    BY <1>1, <1>2, <2>10 DEF TypeOK
  <2>15. ReadInv'
    <3>1. \A u \in Receiver : receiver'[u] \in {"payload", "deliver"} => u = r
      BY <2>13
    <3>2. /\ \A i \in 1 .. Len(read) : read[i] = <<Len(delivered) + 1, Header + i>>
          /\ step = "deliver" => Len(read) = msglen[r]
      BY <2>2, <2>10, <2>11, <2>12
    <3>3. Len(delivered) + 1 <= Len(sizes) /\ msglen[r] = sizes[Len(delivered) + 1]
      BY <2>2, <2>3
    <3>4. QED
      BY <1>2, <2>13, <2>14, <3>1, <3>2, <3>3 DEF ReadInv, Reading
  <2>16. DueInv'
    <3>1. ASSUME Ahead' # << >>
          PROVE  Ahead'[1] = IF Len(buf[r]) + k = msglen[r] THEN <<n + 1, 1>> ELSE <<n, a + k>>
      BY <1>1, <1>2, <1>4, <2>8, <3>1, DueAfter
    <3>2. a + k = Header + Len(read) + 1
      BY <2>7, <2>10
    <3>3. QED
      BY <1>2, <2>2, <2>12, <2>13, <2>14, <3>1, <3>2 DEF DueInv, Reading
  <2>17. FramesIntact'
    BY <1>1, <1>2 DEF ReceivingInv, FramesIntact, Payload
  <2>18. QED
    BY <1>5, <2>13, <2>15, <2>16, <2>17 DEF ReceivingInv
<1>8. QED
  BY <1>6, <1>7

\* When a socket is given up nothing more is read from it.
LEMMA GivingUpStep ==
  ASSUME IInv, NEW r \in Receiver, RecvShortHeader(r) \/ RecvEnd(r)
  PROVE  StreamInv' /\ ReceivingInv' /\ WholeInv'
<1>1. TypeOK /\ SenderInv /\ StreamInv /\ BufInv /\ ReceivingInv /\ WholeInv
  BY DEF IInv, ReceivingInv
<1>2. /\ outgoing' = outgoing /\ peer' = peer /\ header_cut' = header_cut /\ UNCHANGED senderVars
      /\ sizes' = sizes /\ sock_list' = FALSE /\ overlap' = overlap /\ mode' = mode
      /\ msglen' = msglen /\ delivered' = delivered /\ late' = late
      /\ receiver[r] \in {"header", "payload"} /\ receiver' = [receiver EXCEPT ![r] = "select"]
  BY DEF RecvShortHeader, RecvEnd, Cleanup, senderVars, netVars, resultVars
<1>3. Len(incoming) \in Nat /\ Len(incoming) \in 0 .. Len(incoming) /\ incoming \in Seq(Byte)
  BY <1>1 DEF TypeOK
<1>4. incoming' = SubSeq(incoming, Len(incoming) + 1, Len(incoming)) /\ incoming' = << >>
  <2>1. SubSeq(incoming, Len(incoming) + 1, Len(incoming)) = << >>
    <3>1. Len(SubSeq(incoming, Len(incoming) + 1, Len(incoming))) = Len(incoming) - Len(incoming)
      BY ONLY <1>3, CutPlaces
    <3>2. SubSeq(incoming, Len(incoming) + 1, Len(incoming)) \in Seq(Byte)
      BY ONLY <1>3, CutPlaces
    <3>3. QED
      BY <1>3, <3>1, <3>2
  <2>2. incoming' = << >>
    BY DEF RecvShortHeader, RecvEnd, AtEnd, netVars
  <2>3. QED
    BY <2>1, <2>2
<1>5. StreamInv'
  BY <1>1, <1>2, <1>3, <1>4, TakingStream
<1>6. CASE overlap
  BY <1>2, <1>4, <1>5, <1>6 DEF ReceivingInv, OneInv, ReadInv, DueInv, FramesIntact, LateInv,
     WholeInv, GivenUpForCause
<1>7. CASE ~overlap
  <2>1. /\ sock_list /\ \A u \in Receiver : u # r => receiver[u] = "none"
        /\ receiver'[r] = "select" /\ \A u \in Receiver : u # r => receiver'[u] = "none"
    BY <1>1, <1>2, <1>7 DEF ReceivingInv, OneInv, TypeOK
  <2>2. OneInv' /\ ReadInv' /\ DueInv' /\ LateInv'
    BY <1>1, <1>2, <1>7, <2>1 DEF ReceivingInv, OneInv, ReadInv, DueInv, LateInv, Reading
  <2>3. FramesIntact'
    BY <1>1, <1>2 DEF ReceivingInv, FramesIntact, Payload
  <2>4. ASSUME ~header_cut, peer # "closed" PROVE FALSE
    <3>1. /\ RecvShortHeader(r) /\ receiver[r] = "header" /\ incoming # << >>
          /\ Len(incoming) < Header
      BY <2>4 DEF RecvShortHeader, RecvEnd, Readable, AtEnd
    <3>2. PICK n \in Nat \ {0} : n = Len(delivered) + 1
      BY <1>1 DEF TypeOK
    <3>3. Ahead # << >> /\ Ahead[1] = <<n, 1>>
      <4>1. Ahead # << >>
        BY <1>1, <3>1, Places DEF TypeOK
      <4>2. \A u \in Receiver : ~Reading(u)
        BY <2>1, <3>1 DEF Reading
      <4>3. QED
        BY <1>1, <1>7, <2>1, <3>2, <4>1, <4>2 DEF ReceivingInv, DueInv
    <3>4. PICK k \in 1 .. Len(incoming) : k = Len(incoming) /\ k \in 1 .. k /\ k \in Nat \ {0}
      BY <1>3, <3>1
    <3>5. /\ n \in 1 .. Len(sizes)
          /\ 1 + k <= Header + sizes[n] + 1 => \A i \in 1 .. k : incoming[i] = <<n, 1 + i - 1>>
      <4>1. /\ n \in 1 .. Len(sizes)
            /\ 1 + k <= Header + sizes[n] + 1 =>
                 /\ \A i \in 1 .. k : incoming[i] = <<n, 1 + i - 1>>
                 /\ k < Len(Ahead) => Ahead[k + 1] = IF 1 + k = Header + sizes[n] + 1
                                                     THEN <<n + 1, 1>> ELSE <<n, 1 + k>>
        BY <1>1, <3>1, <3>3, DueIncoming
      <4>2. QED
        BY <4>1
    <3>6. sizes[n] \in Nat
      BY <1>1, <3>5, LastSize DEF TypeOK
    <3>7. incoming[k] = <<n, k>>
      <4>1. 1 + k <= Header + sizes[n] + 1 /\ 1 + k - 1 = k
        BY <3>1, <3>4, <3>6, SizesAssumption
      <4>2. QED
        BY <3>4, <3>5, <4>1
    <3>8. k \in 1 .. Header - 1
      BY <3>1, <3>4, SizesAssumption
    <3>9. incoming[k][2] = k
      BY <3>7
    <3>10. QED
      BY <1>1, <2>4, <3>1, <3>4, <3>8, <3>9 DEF WholeInv
  <2>5. WholeInv'
    BY <1>2, <1>4, <2>4 DEF WholeInv, GivenUpForCause
  <2>6. QED
    BY <1>5, <2>2, <2>3, <2>5 DEF ReceivingInv
<1>8. QED
  BY <1>6, <1>7

\* What is delivered is the message that was due.
LEMMA DeliverStep ==
  ASSUME IInv, NEW r \in Receiver, Deliver(r)
  PROVE  StreamInv' /\ ReceivingInv' /\ WholeInv'
<1>1. TypeOK /\ SenderInv /\ StreamInv /\ BufInv /\ ReceivingInv /\ WholeInv
  BY DEF IInv, ReceivingInv
<1>2. /\ sizes' = sizes /\ sender' = sender /\ sent_so_far' = sent_so_far
      /\ incoming' = incoming /\ outgoing' = outgoing /\ peer' = peer /\ header_cut' = header_cut
      /\ sock_list' = sock_list /\ overlap' = overlap /\ mode' = mode /\ msglen' = msglen
      /\ delivered' = Append(delivered, buf[r]) /\ receiver[r] = "deliver"
      /\ buf' = [buf EXCEPT ![r] = << >>] /\ receiver' = [receiver EXCEPT ![r] = AfterPoll(r)]
  BY DEF Deliver, senderVars, netVars
<1>3. Line' = Line /\ Ahead' = Ahead
  BY <1>2 DEF Line, Ahead, NextOut
<1>4. StreamInv' /\ WholeInv'
  BY <1>1, <1>2, <1>3 DEF StreamInv, WholeInv, GivenUpForCause
<1>5. CASE overlap
  BY <1>2, <1>4, <1>5 DEF ReceivingInv, OneInv, ReadInv, DueInv, FramesIntact, LateInv
<1>6. CASE ~overlap
  <2>1. PICK step \in {"select", "none"} :
          /\ receiver' = [receiver EXCEPT ![r] = step]
          /\ step = "select" => async_recv_thread_started
    BY <1>2 DEF AfterPoll
  <2>2. /\ OneInv' /\ receiver'[r] = step
        /\ \A u \in Receiver : u # r => receiver[u] = "none" /\ receiver'[u] = "none"
    BY <1>1, <1>2, <1>6, <2>1, AloneStep DEF ReceiverStep
  <2>3. \A u \in Receiver : receiver'[u] \notin {"payload", "deliver"}
    BY <2>2
  <2>4. /\ Len(delivered) \in Nat /\ buf[r] \in Seq(Byte) /\ Len(delivered') = Len(delivered) + 1
        /\ \A n \in 1 .. Len(delivered) : delivered'[n] = delivered[n]
        /\ delivered'[Len(delivered) + 1] = buf[r]
    BY <1>1, <1>2, AppendProperties DEF TypeOK
  <2>5. ReadInv'
    BY <2>3 DEF ReadInv, Reading
  <2>6. DueInv'
    <3>1. sock_list /\ Ahead # << >> => Ahead[1] = <<Len(delivered) + 2, 1>>
      BY <1>1, <1>2, <1>6 DEF ReceivingInv, DueInv
    <3>2. Len(delivered') + 1 = Len(delivered) + 2
      BY <2>4
    <3>3. QED
      BY <1>2, <1>3, <2>3, <3>1, <3>2 DEF DueInv
  <2>7. FramesIntact'
    <3>1. PICK n \in Nat \ {0} : n = Len(delivered) + 1
      BY <2>4
    <3>2. /\ n <= Len(sizes) /\ msglen[r] = sizes[n] /\ Len(buf[r]) = msglen[r]
          /\ \A i \in 1 .. Len(buf[r]) : buf[r][i] = <<n, Header + i>>
      BY <1>1, <1>2, <1>6, <3>1 DEF ReceivingInv, ReadInv, Reading
    <3>3. n \in 1 .. Len(sizes)
      BY <1>1, <3>2, LastSize DEF TypeOK
    <3>4. /\ Payload(n) \in Seq(Byte) /\ Len(Payload(n)) = sizes[n]
          /\ \A i \in 1 .. sizes[n] : Payload(n)[i] = <<n, Header + i>>
      BY <1>1, <3>3, Messages DEF TypeOK
    <3>5. buf[r] = Payload(n)
      <4>1. /\ buf[r] \in Seq(Byte) /\ Payload(n) \in Seq(Byte) /\ Len(buf[r]) = Len(Payload(n))
            /\ \A i \in 1 .. Len(buf[r]) : buf[r][i] = Payload(n)[i]
        BY <2>4, <3>2, <3>4
      <4>2. QED
        BY ONLY <4>1, SeqEqual
    <3>6. \A m \in 1 .. Len(delivered) : delivered[m] = Payload(m)
      BY <1>1, <1>6 DEF ReceivingInv, FramesIntact
    <3>7. \A m \in 1 .. Len(delivered') : delivered'[m] = Payload(m)
      <4>1. \A m \in 1 .. Len(delivered') : m \in 1 .. Len(delivered) \/ m = n
        BY <2>4, <3>1
      <4>2. QED
        BY <2>4, <3>1, <3>5, <3>6, <4>1
    <3>8. \A m : Payload(m)' = Payload(m)
      BY <1>2 DEF Payload
    <3>9. Len(delivered') <= Len(sizes)
      BY <2>4, <3>1, <3>2
    <3>10. QED
      BY <1>2, <3>7, <3>8, <3>9 DEF FramesIntact
  <2>8. LateInv'
    <3>1. /\ late <= 1 /\ late \in Nat
          /\ late = 1 => mode[r] # "async"
      BY <1>1, <1>2, <1>6 DEF ReceivingInv, LateInv, TypeOK
    <3>2. CASE mode[r] = "async" /\ ~async_recv_thread_started
      <4>1. late' = 1 /\ step = "none"
        BY <2>1, <3>1, <3>2 DEF Deliver
      <4>2. QED
        BY <2>2, <4>1 DEF LateInv
    <3>3. CASE ~(mode[r] = "async" /\ ~async_recv_thread_started)
      <4>1. late' = late
        BY <3>3 DEF Deliver
      <4>2. QED
        BY <1>2, <2>2, <3>1, <4>1 DEF LateInv
    <3>4. QED
      BY <3>2, <3>3
  <2>9. QED
    BY <1>4, <2>2, <2>5, <2>6, <2>7, <2>8 DEF ReceivingInv
<1>7. QED
  BY <1>5, <1>6

\* A step takes the inductive invariant to itself.
LEMMA InvStep == IInv /\ [Next]_vars => IInv'
<1> SUFFICES ASSUME IInv, [Next]_vars PROVE IInv'
  OBVIOUS
<1>1. TypeOK /\ SenderInv /\ BufInv
  BY DEF IInv
<1>2. TypeOK' /\ BufInv'
  BY <1>1, TypesStep
<1>3. SenderInv'
  BY <1>1, SenderStep
<1>4. StreamInv' /\ ReceivingInv' /\ WholeInv'
  BY <1>2, <1>3, SendingStep, CallingStep, HeaderStep, PayloadStep, GivingUpStep, DeliverStep,
     PollerAssumption DEF Next, PollMessage
<1>5. QED
  BY <1>2, <1>3, <1>4 DEF IInv, ReceivingInv

LEMMA InvInit == Init => IInv
<1> SUFFICES ASSUME Init PROVE IInv
  OBVIOUS
<1>1. /\ << >> \in Seq(0 .. MaxSize) /\ << >> \in Seq(Byte) /\ << >> \in Seq(Seq(Byte))
      /\ Len(<< >>) = 0 /\ 0 \in 0 .. MaxSize /\ 0 \in Nat
  BY SizesAssumption
<1>2. TypeOK
  <2>1. \A r \in Receiver : Len(buf[r]) <= msglen[r]
    BY <1>1 DEF Init
  <2>2. /\ msglen \in [Receiver -> 0 .. MaxSize] /\ buf \in [Receiver -> Seq(Byte)]
        /\ sent_so_far \in 0 .. MaxSize
    BY <1>1 DEF Init
  <2>3. QED
    BY <1>1, <2>1, <2>2 DEF Init, TypeOK, ReceiverStep
<1>3. SenderInv /\ BufInv
  BY DEF Init, SenderInv, BufInv, Reading
<1>4. Line = << >> /\ NextOut = <<1, 1>> /\ Ahead = << <<1, 1>> >>
  <2>1. Line = << >>
    BY ConcatEmptySeq DEF Init, Line
  <2>2. NextOut = <<1, 1>>
    BY <1>1 DEF Init, NextOut
  <2>3. QED
    BY <2>1, <2>2 DEF Init, Ahead
<1>5. StreamInv
  <2>1. \A i, j \in 1 .. 1 : ~(i < j)
    OBVIOUS
  <2>2. QED
    BY <1>1, <1>4, <2>1 DEF StreamInv, Valid, InOrder
<1>6. OneInv /\ ReadInv /\ FramesIntact /\ LateInv /\ WholeInv
  BY <1>1 DEF Init, OneInv, ReadInv, FramesIntact, LateInv, WholeInv, GivenUpForCause, Reading
<1>7. DueInv
  BY <1>1, <1>4 DEF Init, DueInv
<1>8. QED
  BY <1>2, <1>3, <1>5, <1>6, <1>7 DEF IInv

LEMMA InvAlways == Spec => []IInv
<1>1. Init => IInv
  BY InvInit
<1>2. IInv /\ [Next]_vars => IInv'
  BY InvStep
<1>3. QED
  BY <1>1, <1>2, PTL DEF Spec

------------------------------------------------------------------------------
\* Every variable has its type, and no buffer ever holds more bytes than the length
\* that was read announced (rpc.cpp:216-219).
THEOREM TypeCorrect == Spec => []TypeOK
<1>1. IInv => TypeOK
  BY DEF IInv
<1>2. QED
  BY <1>1, InvAlways, PTL

\* As long as two receivers never were at work at a time, what is delivered is what
\* was sent: whole messages in order, none twice and none skipped, wherever sends
\* and receives were cut and however the connection ends (rpc.cpp:143-163, 205-230).
THEOREM FramesIntactAlways == Spec => []FramesIntact
<1>1. IInv => FramesIntact
  BY DEF IInv
<1>2. QED
  BY <1>1, InvAlways, PTL

\* As long as two receivers never were at work at a time, the callback is called at
\* most once after StopAsyncRecv returned (rpc.cpp:233-239).
THEOREM FewLateAlways == Spec => []FewLate
<1>1. IInv => FewLate
  BY DEF IInv, LateInv, FewLate
<1>2. QED
  BY <1>1, InvAlways, PTL

\* As long as TCP cut no header and receivers did not overlap, a socket is only given
\* up when its connection has ended (rpc.cpp:207-225).
THEOREM GivenUpForCauseAlways == Spec => []GivenUpForCause
<1>1. IInv => GivenUpForCause
  BY DEF IInv, WholeInv
<1>2. QED
  BY <1>1, InvAlways, PTL
=============================================================================
