----------------------------- MODULE MCAnswering ------------------------------
(***************************************************************************)
(* An instance of Answering for TLC: one contributor who is invited once,  *)
(* with two requests at the same time, so that the page, the buttons of    *)
(* the message and the clicks on either compete for one link.              *)
(***************************************************************************)
EXTENDS Answering, TLC

CONSTANTS a, l1, r1, r2

OneForA == [l \in {l1} |-> a]
=============================================================================
