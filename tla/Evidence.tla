-------------------------------- MODULE Evidence --------------------------------
(***************************************************************************)
(* How well a song is documented (server/evidence.ts): a score from the    *)
(* number of documents in its vault and the groups they belong to.         *)
(***************************************************************************)
EXTENDS Integers, FiniteSets

CONSTANTS
    Documents,      \* the documents that may be put in the vault of the song
    Category        \* the category each is filed under

EvidenceGroups ==
    {{"split_agreement", "contract", "licensing_agreement", "producer_agreement"},
     {"session_notes", "stems_project_files", "lyrics_sheet", "master_recording"},
     {"invoice", "isrc_documentation", "copyright_registration"},
     {"correspondence", "supporting_document", "other"}}

ASSUME DocumentsAssumption ==
    /\ IsFiniteSet(Documents)
    /\ Category \in [Documents -> UNION EvidenceGroups]

AtMost(m, n) == IF m < n THEN m ELSE n

GroupsPresent(docs) == {g \in EvidenceGroups : \E d \in docs : Category[d] \in g}

\* computeEvidenceStrength
Score(docs) ==
    AtMost(100, AtMost(Cardinality(docs), 4) * 10 + Cardinality(GroupsPresent(docs)) * 15)

Label(score) == CASE score >= 85 -> "complete"
                  [] score >= 55 /\ score < 85 -> "strong"
                  [] score >= 25 /\ score < 55 -> "moderate"
                  [] OTHER -> "weak"
=============================================================================
