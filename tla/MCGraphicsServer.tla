-------------------------- MODULE MCGraphicsServer --------------------------
(* Instances of GraphicsServer for TLC: what transactions may carry. *)
EXTENDS GraphicsServer

\* Frames and persistent transactions, each without a scale and with one.
SomeContent ==
  {[persistent |-> p, scale |-> s, map |-> "none"] :
     <<p, s>> \in {<<TRUE, 0>>, <<FALSE, 0>>, <<TRUE, 2>>, <<FALSE, 1>>}}

\* Maps, in frames and in persistent transactions.
MapContent == [persistent : BOOLEAN, scale : {0}, map : {"none", "data", "same"}]
=============================================================================
