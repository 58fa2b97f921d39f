----------------------------- MODULE BuildOrder -----------------------------
(***************************************************************************)
(* What a build promises, with no stack of candidates, reference counts or *)
(* threads: a node is worked on only when everything it needs is settled,  *)
(* once at most, and how it ended is final.                                *)
(***************************************************************************)
CONSTANT Nodes   \* what can be built, and what it is built from

VARIABLES
  lenient,  \* is a node that was given up good enough for the ones that need it?
  needs,    \* what each node is built from
  fate      \* what became of each node so far

vars == <<lenient, needs, fate>>

Fates == {"untouched", "worked_on", "settled", "given_up"}

Init ==
  /\ lenient \in BOOLEAN
  /\ needs \in [Nodes -> SUBSET Nodes]
  /\ fate = [n \in Nodes |-> "untouched"]

\* Some nodes go from one fate to another; the rest keep theirs.
Move(ns, from, to) ==
  /\ \A n \in ns : fate[n] \in from
  /\ fate' = [n \in Nodes |-> IF n \in ns THEN to ELSE fate[n]]

Good == {"settled"} \cup (IF lenient THEN {"given_up"} ELSE {})
NeedsSettled(ns) == \A n \in ns : \A d \in needs[n] : fate[d] \in Good

\* The nodes built by one action start together, and end together or one by one.
Start(ns) == NeedsSettled(ns) /\ Move(ns, {"untouched"}, "worked_on")
Finish(ns) == Move(ns, {"worked_on"}, "settled")

\* Nodes are found up to date.
Keep(ns) == NeedsSettled(ns) /\ Move(ns, {"untouched"}, "settled")

\* Nodes failed, or something they need did.
GiveUp(ns) == Move(ns, Fates \ {"settled"}, "given_up")

Changed == {n \in Nodes : fate'[n] # fate[n]}

Next ==
  /\ UNCHANGED <<lenient, needs>>
  /\ fate' \in [Nodes -> Fates]
  /\ Start(Changed) \/ Finish(Changed) \/ Keep(Changed) \/ GiveUp(Changed)

Spec == Init /\ [][Next]_vars
=============================================================================
