------------------------------ MODULE ReviewLinks ------------------------------
(***************************************************************************)
(* What the review links of a song promise, without transactions and       *)
(* without the rest of the rights record: a link is issued once, about one *)
(* version; it is answered at most once, and that answer is final; and the *)
(* answer on file for a contributor and a version is the one given last    *)
(* through a link of that contributor about that version.                  *)
(*                                                                         *)
(* A withdrawn link can still be answered here, because the code lets an   *)
(* answer that began before the withdrawal go on (processInvitationResponse*)
(* tests revoked_at before its transaction only).                          *)
(***************************************************************************)
CONSTANTS
    Links,          \* the links that may be issued
    Contributors,
    Versions,
    Owner           \* the contributor that each link is for

Answers == {"confirmed", "change_requested"}

VARIABLES
    state,          \* of each link
    about,          \* the version that each link is about, once issued
    standing        \* the answer on file for each version and contributor

vars == <<state, about, standing>>

Init ==
    /\ state = [l \in Links |-> "none"]
    /\ about = [l \in Links |-> 0]
    /\ standing = [v \in Versions |-> [c \in Contributors |-> "none"]]

\* One request issues links about a version and withdraws others.
Reissue(issued, withdrawn, v) ==
    /\ \A l \in issued : state[l] = "none"
    /\ \A l \in withdrawn : state[l] = "open"
    /\ state' = [l \in Links |-> IF l \in issued THEN "open"
                                 ELSE IF l \in withdrawn THEN "withdrawn"
                                 ELSE state[l]]
    /\ about' = [l \in Links |-> IF l \in issued THEN v ELSE about[l]]
    /\ UNCHANGED standing

Answer(l, a) ==
    /\ state[l] \in {"open", "withdrawn"}
    /\ state' = [state EXCEPT ![l] = a]
    /\ standing' = [standing EXCEPT ![about[l]][Owner[l]] = a]
    /\ UNCHANGED about

Next == \/ \E issued, withdrawn \in SUBSET Links, v \in Versions :
              Reissue(issued, withdrawn, v)
        \/ \E l \in Links, a \in Answers : Answer(l, a)

Spec == Init /\ [][Next]_vars
=============================================================================
