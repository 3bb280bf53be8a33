------------------------------ MODULE MCSongPage ------------------------------
(***************************************************************************)
(* Instances of SongPage for TLC.                                          *)
(***************************************************************************)
EXTENDS SongPage, TLC

CONSTANTS h1, h2

(* A click on anything, and one on what waits for a lock, a dialog or bytes.       *)
AnyAndLong == [h \in {h1, h2} |-> IF h = h1 THEN Operations ELSE {"save", "bump", "upload"}]
=============================================================================
