------------------------------- MODULE Sketch -------------------------------
(***************************************************************************)
(* What the drawing calls promise (graphics.h:22-48), with no threads:     *)
(* drawings are collected on a page, and DrawFrame turns the page over to  *)
(* the server; nothing drawn is lost or shown twice, and a map is shown    *)
(* with the data it was given.  The connection may break at any time, and  *)
(* is never made again: the server keeps the frames it was given, and all  *)
(* that is drawn from then on is lost.                                     *)
(***************************************************************************)
EXTENDS Sequences

CONSTANT Drawing

VARIABLES
  open,        \* is there a connection that frames can go over?
  page,        \* the drawings of the current frame, in order
  persistent,  \* was it asked to be persistent?
  book         \* the frames the server has been given

sketchVars == <<open, page, persistent, book>>

Init == open \in BOOLEAN /\ page = << >> /\ persistent = FALSE /\ book = << >>

Draw(d) == open /\ page' = Append(page, d) /\ UNCHANGED <<open, persistent, book>>

AskPersistent == open /\ persistent' = TRUE /\ UNCHANGED <<open, page, book>>

NewPage == page' = << >> /\ persistent' = FALSE

\* The connection may break behind the frame.
TurnOver ==
  /\ open
  /\ open' \in BOOLEAN
  /\ book' = Append(book, [drawings |-> page, persistent |-> persistent])
  /\ NewPage

Break == open /\ open' = FALSE /\ NewPage /\ UNCHANGED book

Next == (\E d \in Drawing : Draw(d)) \/ AskPersistent \/ TurnOver \/ Break

Spec == Init /\ [][Next]_sketchVars
=============================================================================
