--------------------------- MODULE OrderedDelivery ---------------------------
(***************************************************************************)
(* What the asynchronous half of RPC::SendMessage promises its caller      *)
(* (simpleprotorpc/rpc.h:53-57 and 67-81), with no threads, locks or       *)
(* deque: one line of submitted messages, transmitted from the front.      *)
(* Under SEND_LAST the line may skip messages nobody insisted on, but      *)
(* never the newest one and never past an ensured one.                     *)
(***************************************************************************)
EXTENDS Naturals, Sequences

VARIABLES
  submitted,  \* how many messages were submitted: they are numbered 1, 2, ...
  pending,    \* submitted, neither transmitted nor skipped, oldest first
  sent,       \* transmitted, oldest first
  policy      \* "SEND_ALL" or "SEND_LAST"

odVars == <<submitted, pending, sent, policy>>

Init ==
  /\ submitted = 0
  /\ pending = << >>
  /\ sent = << >>
  /\ policy = "SEND_ALL"

Submit ==
  /\ submitted' = submitted + 1
  /\ \E e \in BOOLEAN :
       pending' = Append(pending, [id |-> submitted', ensured |-> e])
  /\ UNCHANGED <<sent, policy>>

Transmit ==
  /\ pending # << >>
  /\ sent' = Append(sent, Head(pending))
  /\ pending' = Tail(pending)
  /\ UNCHANGED <<submitted, policy>>

\* Skip the k oldest pending messages.
Skip(k) ==
  /\ policy = "SEND_LAST"
  /\ \A i \in 1 .. k : ~ pending[i].ensured
  /\ pending' = SubSeq(pending, k + 1, Len(pending))
  /\ UNCHANGED <<submitted, sent, policy>>

SetPolicy ==
  /\ policy' \in {"SEND_ALL", "SEND_LAST"}
  /\ UNCHANGED <<submitted, pending, sent>>

Next ==
  \/ Submit
  \/ Transmit
  \/ \E k \in 1 .. Len(pending) - 1 : Skip(k)
  \/ SetPolicy

Spec == Init /\ [][Next]_odVars
==============================================================================
