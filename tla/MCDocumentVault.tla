---------------------------- MODULE MCDocumentVault ----------------------------
(***************************************************************************)
(* Instances of DocumentVault for TLC.                                     *)
(***************************************************************************)
EXTENDS DocumentVault, TLC

CONSTANTS r1, r2, r3, d1, c1, c2

SplitSheet == [x \in Documents |-> "split_agreement"]

VaultSymmetry == Permutations(Requests) \union Permutations(Contents)
=============================================================================
