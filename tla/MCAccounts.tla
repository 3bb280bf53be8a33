------------------------------ MODULE MCAccounts ------------------------------
(***************************************************************************)
(* Instances of Accounts for TLC: a user with two addresses.               *)
(***************************************************************************)
EXTENDS Accounts, TLC

CONSTANTS r1, r2, home, work

\* Once requests of two kinds have overlapped, no others do, and neither
\* sessions nor links expire any more.
Small ==
    \/ raced = {}
    \/ /\ Cardinality(raced) = 1 /\ cutShort = {}
       /\ \A s \in SessionId : session[s].status # "expired"
       /\ \A t \in TokenId : token[t].status # "expired"

RequestSymmetry == Permutations(Requests) \union Permutations(Addresses)
=============================================================================
