------------------------------- MODULE Canvas -------------------------------
(***************************************************************************)
(* What DrawFrame promises of the server's window (graphics.h:42-48), with *)
(* no threads or locks: transactions are accepted one by one, numbered in  *)
(* the order they are received; a painting shows every persistent one      *)
(* accepted so far, in that order, and over them one frame, which is never *)
(* older than the frame of the painting before.                            *)
(***************************************************************************)
EXTENDS Naturals, Sequences

VARIABLES
  accepted,  \* how many transactions were accepted: they are 1, 2, ...
  base,      \* the persistent ones, in order
  newest,    \* the last one accepted that is not persistent, or 0
  front,     \* the frame that paintings show, or 0
  painting   \* what the window shows

canvasVars == <<accepted, base, newest, front, painting>>

Init ==
  /\ accepted = 0
  /\ base = << >>
  /\ newest = 0
  /\ front = 0
  /\ painting = << >>

AcceptPersistent ==
  /\ accepted' = accepted + 1
  /\ base' = Append(base, accepted')
  /\ UNCHANGED <<newest, front, painting>>

AcceptFrame ==
  /\ accepted' = accepted + 1
  /\ newest' = accepted'
  /\ UNCHANGED <<base, front, painting>>

Advance ==
  /\ front' = newest
  /\ UNCHANGED <<accepted, base, newest, painting>>

Paint ==
  /\ painting' = base \o (IF front = 0 THEN << >> ELSE <<front>>)
  /\ UNCHANGED <<accepted, base, newest, front>>

Next == AcceptPersistent \/ AcceptFrame \/ Advance \/ Paint

Spec == Init /\ [][Next]_canvasVars
=============================================================================
