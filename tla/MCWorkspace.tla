------------------------------ MODULE MCWorkspace ------------------------------
(***************************************************************************)
(* Instances of Workspace for TLC: an owner and two people who may join.   *)
(***************************************************************************)
EXTENDS Workspace, TLC

CONSTANTS r1, r2, owner, x, y

\* Once requests of two kinds have overlapped, no others do; invitations do not
\* expire any more then, and songs are created only in a race for them.
Small ==
    \/ raced = {}
    \/ /\ Cardinality(raced) = 1
       /\ \A i \in InvitationId : ~invite[i].expired
       /\ songs = 0 \/ {"createSong"} \in raced

WorkspaceSymmetry == Permutations(Requests) \union Permutations(Users \ {Owner})
=============================================================================
