---------------------------- MODULE MCRightsRecord ----------------------------
(***************************************************************************)
(* Instances of RightsRecord for TLC: two contributors, of whom one or     *)
(* both hold the song, with 100% written as 2 units.                       *)
(***************************************************************************)
EXTENDS RightsRecord, TLC

CONSTANTS a, b      \* the contributors

\* Both contributors with half of each right.
Even == [p \in {a, b} \X RightTypes |-> 1]

\* Everything to a.
Solo == [p \in {a, b} \X RightTypes |-> IF p[1] = a THEN 2 ELSE 0]

\* A partial body: everything to a, and not a word about b.
AllToA == [p \in {a} \X RightTypes |-> 2]

MCSaves == {Even, AllToA}
MCEven == {Even}
MCSolo == {Solo}

\* Contributor a can be invited once more than b, and a's first link can expire.
OneEach == [c \in {a, b} |-> 1]
TwoForA == [c \in {a, b} |-> IF c = a THEN 2 ELSE 1]
OneForA == [c \in {a, b} |-> IF c = a THEN 1 ELSE 0]
FirstOfA == {<<a, 1>>}

\* Nothing was saved, and nothing is being saved, but Even.
OnlyEven ==
    /\ \A r \in Requests : req[r].save \in {Even, <<>>}
    /\ \A v \in VersionNo : shares[v] = Even \/ Holders(shares[v]) = {}

\* A link expires, or a body is partial, but not both.  Once requests of two kinds
\* have overlapped, no others do, and the bounds are those of the smaller instance.
Small ==
    \/ raced = {} /\ (expired = {} \/ OnlyEven)
    \/ /\ Cardinality(raced) = 1
       /\ link[<<a, 2>>].status = "none" /\ expired = {}
       /\ OnlyEven

RequestSymmetry == Permutations(Requests)

\* For properties that do not mention what has overlapped, which no step tests:
\* states that differ in it only are one state.
WithoutHistory == <<song, version, shares, answer, link, expired, agreements, req, locks>>
=============================================================================
