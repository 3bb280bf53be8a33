--------------------------------- MODULE Vault ---------------------------------
(***************************************************************************)
(* What the vault of a song promises: a document is shown at most once,    *)
(* until it is taken away for good.                                        *)
(***************************************************************************)
EXTENDS Evidence

VARIABLES
    shown,      \* the documents in the vault
    spent       \* the documents that were taken away, shown or not

Init == shown = {} /\ spent = {}

Show(d) ==
    /\ d \notin spent
    /\ shown' = shown \union {d}
    /\ UNCHANGED spent

TakeAway(docs) ==
    /\ shown' = shown \ docs
    /\ spent' = spent \union docs

Next == \/ \E d \in Documents : Show(d)
        \/ \E docs \in SUBSET Documents : TakeAway(docs)

Spec == Init /\ [][Next]_<<shown, spent>>
=============================================================================
