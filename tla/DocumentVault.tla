----------------------------- MODULE DocumentVault -----------------------------
(***************************************************************************)
(* The documents of a song: rows in PostgreSQL and objects in a store that *)
(* is written by the browser through signed links (server/routes.ts,       *)
(* section 10, server/storage.ts and server/localStorage.ts), and what the *)
(* deletion of the owner's account does to both (section 1).               *)
(*                                                                         *)
(* The store takes part in no transaction.  Each call of it, and each      *)
(* statement, is a step of its own, and uploads come in between.           *)
(***************************************************************************)
EXTENDS Evidence

CONSTANTS
    Requests,       \* request handlers that may be running at the same time
    Contents,       \* what a file may contain; also stands for its digest
    MayFail         \* the requests that may fail between two steps

ASSUME VaultAssumption ==
    /\ "none" \notin Documents
    /\ {"none", "torn"} \intersect Contents = {}
    /\ MayFail \subseteq Requests

Digests == Contents \union {"none"}

VARIABLES
    mode,           \* the store the server was configured with
    exists,         \* whether the workspace of the song exists
    row,            \* the rows of documents, with their checksum
    object,         \* what the store has under the key of each document
    link,           \* the upload link: its status, the digest it was signed
                    \* for, and what is being written through it
    halfDeleted,    \* history: a deletion failed between its two steps
    req             \* what each request is doing, with what it has read

vars == <<mode, exists, row, object, link, halfDeleted, req>>

-------------------------------------------------------------------------------
(* Requests *)

Idle == [at |-> "idle", doc |-> "none", checksum |-> "none", keys |-> {}]

Begin(r, q)   == req[r].at = "idle" /\ req' = [req EXCEPT ![r] = q]
Goto(r, step) == req' = [req EXCEPT ![r].at = step]
Finish(r)     == req' = [req EXCEPT ![r] = Idle]

OnFile(d) == row[d].status \in {"pending", "stored"}

-------------------------------------------------------------------------------
(* POST /songs/:id/documents/upload-url *)

\* getSong, a fresh id, and the digest the browser computed, if it sends one.
ReserveRead(r) ==
    /\ exists
    /\ \E d \in Documents, digest \in Digests :
         /\ row[d].status = "none"
         /\ \A q \in Requests : req[q].doc # d
         /\ Begin(r, [Idle EXCEPT !.at = "reserveInsert", !.doc = d, !.checksum = digest])
    /\ UNCHANGED <<mode, exists, row, object, link, halfDeleted>>

\* createPendingDocument: a row that listDocuments does not show.
Reserved(d) == row' = [row EXCEPT ![d].status = "pending"]

\* createPendingDocument and createUploadUrl.
ReserveInsert(r) ==
    LET d == req[r].doc IN
    /\ req[r].at = "reserveInsert"
    /\ exists
    /\ Reserved(d)
    /\ link' = [link EXCEPT ![d].status = "live", ![d].digest = req[r].checksum]
    /\ Finish(r)
    /\ UNCHANGED <<mode, exists, object, halfDeleted>>

\* The foreign key to the song fails: the workspace was deleted meanwhile.
ReserveRefused(r) ==
    /\ req[r].at = "reserveInsert"
    /\ ~exists
    /\ Finish(r)
    /\ UNCHANGED <<mode, exists, row, object, link, halfDeleted>>

-------------------------------------------------------------------------------
(* The upload, which no handler of the API takes part in *)

\* PUT to S3: all or nothing, and only bytes with the digest in the link.
Put(d, c) ==
    /\ mode = "S3"
    /\ link[d].status = "live"
    /\ link[d].digest \in {"none", c}
    /\ object' = [object EXCEPT ![d] = c]
    /\ UNCHANGED <<mode, exists, row, link, halfDeleted, req>>

\* PUT /objects on local disk: writeFile opens and truncates the file ...
WriteOpen(d, c) ==
    /\ mode = "local-disk"
    /\ link[d].status = "live" /\ link[d].writing = "none"
    /\ link' = [link EXCEPT ![d].writing = c]
    /\ object' = [object EXCEPT ![d] = "torn"]
    /\ UNCHANGED <<mode, exists, row, halfDeleted, req>>

\* ... and writes the bytes, which are lost if the file was unlinked meanwhile.
WriteBytes(d) ==
    /\ link[d].writing # "none"
    /\ link' = [link EXCEPT ![d].writing = "none"]
    /\ object' = [object EXCEPT ![d] = IF @ = "torn" THEN link[d].writing ELSE @]
    /\ UNCHANGED <<mode, exists, row, halfDeleted, req>>

WriteFails(d) ==
    /\ link[d].writing # "none"
    /\ link' = [link EXCEPT ![d].writing = "none"]
    /\ UNCHANGED <<mode, exists, row, object, halfDeleted, req>>

ExpireLink(d) ==
    /\ link[d].status = "live"
    /\ link' = [link EXCEPT ![d].status = "expired"]
    /\ UNCHANGED <<mode, exists, row, object, halfDeleted, req>>

-------------------------------------------------------------------------------
(* POST /songs/:id/documents/:documentId/complete *)

\* getSong and getDocument; the body may carry a digest of the caller's.
CompleteRead(r) ==
    /\ exists
    /\ \E d \in Documents, claim \in Digests :
         /\ OnFile(d)
         /\ Begin(r, [Idle EXCEPT !.at = "completeHead", !.doc = d, !.checksum = claim])
    /\ UNCHANGED <<mode, exists, row, object, link, halfDeleted>>

RecordedClaimFirst(d, claim) ==             \* mutant: the operands of || are swapped
    IF claim # "none" THEN claim
    ELSE IF mode = "S3" /\ link[d].digest # "none" THEN object[d] ELSE "none"

\* base64ToHex(head.checksumSha256Base64) || req.body?.checksumSha256Hex: S3
\* keeps the digest of an object whose upload had to match one.
Recorded(d, claim) ==
    IF mode = "S3" /\ link[d].digest # "none" THEN object[d] ELSE claim

LandedUnchecked(d) == TRUE                  \* mutant: if (!head) is dropped

\* headObject: an object is there, whole or not.
Landed(d) == object[d] # "none"

CompleteHead(r) ==
    LET d == req[r].doc IN
    /\ req[r].at = "completeHead"
    /\ IF Landed(d)
       THEN req' = [req EXCEPT ![r].at = "completeMark", ![r].checksum = Recorded(d, @)]
       ELSE Goto(r, "completeDrop")
    /\ UNCHANGED <<mode, exists, row, object, link, halfDeleted>>

\* 409: the upload did not complete.
CompleteDrop(r) ==
    /\ req[r].at = "completeDrop"
    /\ row' = [row EXCEPT ![req[r].doc].status = "gone"]
    /\ Finish(r)
    /\ UNCHANGED <<mode, exists, object, link, halfDeleted>>

MarkAnyway(d, checksum) ==                  \* mutant: INSERT ... ON CONFLICT DO UPDATE
    row' = [row EXCEPT ![d] = [status |-> "stored", checksum |-> checksum]]

\* UPDATE documents ... WHERE id = $1, which finds nothing once the row is gone.
Mark(d, checksum) ==
    row' = IF OnFile(d) THEN [row EXCEPT ![d] = [status |-> "stored", checksum |-> checksum]]
                        ELSE row

CompleteMark(r) ==
    /\ req[r].at = "completeMark"
    /\ Mark(req[r].doc, req[r].checksum)
    /\ Finish(r)
    /\ UNCHANGED <<mode, exists, object, link, halfDeleted>>

-------------------------------------------------------------------------------
(* DELETE /songs/:id/documents/:documentId *)

DeleteRead(r) ==
    /\ exists
    /\ \E d \in Documents :
         /\ OnFile(d)
         /\ Begin(r, [Idle EXCEPT !.at = "deleteObject", !.doc = d])
    /\ UNCHANGED <<mode, exists, row, object, link, halfDeleted>>

\* deleteObject(...).catch(() => undefined): it may do nothing.
Removed(d) == object' = [object EXCEPT ![d] = "none"] \/ UNCHANGED object

DeleteObject(r) ==
    /\ req[r].at = "deleteObject"
    /\ Removed(req[r].doc)
    /\ Goto(r, "deleteRow")
    /\ UNCHANGED <<mode, exists, row, link, halfDeleted>>

DeleteRow(r) ==
    /\ req[r].at = "deleteRow"
    /\ row' = [row EXCEPT ![req[r].doc].status = "gone"]
    /\ Finish(r)
    /\ UNCHANGED <<mode, exists, object, link, halfDeleted>>

-------------------------------------------------------------------------------
(* DELETE /account, for the owner of the workspace *)

\* listDocumentStorageKeysForOrganisations.
EraseRead(r) ==
    /\ exists
    /\ Begin(r, [Idle EXCEPT !.at = "eraseCommit", !.keys = {d \in Documents : OnFile(d)}])
    /\ UNCHANGED <<mode, exists, row, object, link, halfDeleted>>

EraseRows(S) ==
    row' = [d \in Documents |-> IF d \in S /\ OnFile(d)
                                THEN [row[d] EXCEPT !.status = "gone"] ELSE row[d]]

EraseCommitListed(r) ==                     \* mutant: only the documents listed before
    /\ req[r].at = "eraseCommit"
    /\ exists' = FALSE
    /\ EraseRows(req[r].keys)
    /\ Goto(r, "eraseObjects")
    /\ UNCHANGED <<mode, object, link, halfDeleted>>

\* The transaction: DELETE FROM organisations, and the cascade.
EraseCommit(r) ==
    /\ req[r].at = "eraseCommit"
    /\ exists' = FALSE
    /\ EraseRows(Documents)
    /\ Goto(r, "eraseObjects")
    /\ UNCHANGED <<mode, object, link, halfDeleted>>

EraseObject(r) ==
    /\ req[r].at = "eraseObjects"
    /\ \E d \in req[r].keys :
         /\ Removed(d)
         /\ req' = [req EXCEPT ![r].keys = @ \ {d}]
    /\ UNCHANGED <<mode, exists, row, link, halfDeleted>>

EraseDone(r) ==
    /\ req[r].at = "eraseObjects"
    /\ req[r].keys = {}
    /\ Finish(r)
    /\ UNCHANGED <<mode, exists, row, object, link, halfDeleted>>

-------------------------------------------------------------------------------
(* The specification *)

\* A call or a statement fails, or the server stops.
Fail(r) ==
    /\ r \in MayFail
    /\ req[r].at # "idle"
    /\ halfDeleted' = IF req[r].at = "deleteRow" THEN halfDeleted \union {req[r].doc}
                                                 ELSE halfDeleted
    /\ Finish(r)
    /\ UNCHANGED <<mode, exists, row, object, link>>

Init ==
    /\ mode \in {"S3", "local-disk"}
    /\ exists = TRUE
    /\ row = [d \in Documents |-> [status |-> "none", checksum |-> "none"]]
    /\ object = [d \in Documents |-> "none"]
    /\ link = [d \in Documents |-> [status |-> "none", digest |-> "none", writing |-> "none"]]
    /\ halfDeleted = {}
    /\ req = [r \in Requests |-> Idle]

Start(r) == ReserveRead(r) \/ CompleteRead(r) \/ DeleteRead(r) \/ EraseRead(r)

Step(r) == \/ ReserveInsert(r) \/ ReserveRefused(r)
           \/ CompleteHead(r) \/ CompleteDrop(r) \/ CompleteMark(r)
           \/ DeleteObject(r) \/ DeleteRow(r)
           \/ EraseCommit(r) \/ EraseObject(r) \/ EraseDone(r)

Upload(d) == \/ \E c \in Contents : Put(d, c) \/ WriteOpen(d, c)
             \/ WriteBytes(d) \/ WriteFails(d) \/ ExpireLink(d)

Next == \/ \E r \in Requests : Start(r) \/ Step(r) \/ Fail(r)
        \/ \E d \in Documents : Upload(d)

Spec == Init /\ [][Next]_vars

-------------------------------------------------------------------------------
(* Properties *)

Places == {"idle", "reserveInsert", "completeHead", "completeDrop", "completeMark",
           "deleteObject", "deleteRow", "eraseCommit", "eraseObjects"}

\* A request but an idle one or an erasure is about one document.
Request ==
    {q \in [at : Places, doc : Documents \union {"none"}, checksum : Digests,
            keys : SUBSET Documents] :
       q.at \notin {"idle", "eraseCommit", "eraseObjects"} => q.doc \in Documents}

\* Rows, objects, links and requests are of the form that the code gives them.
TypeOK ==
    /\ mode \in {"S3", "local-disk"}
    /\ exists \in BOOLEAN
    /\ row \in [Documents -> [status : {"none", "pending", "stored", "gone"},
                              checksum : Digests]]
    /\ object \in [Documents -> Contents \union {"none", "torn"}]
    /\ link \in [Documents -> [status : {"none", "live", "expired"}, digest : Digests,
                               writing : Digests]]
    /\ halfDeleted \in SUBSET Documents
    /\ req \in [Requests -> Request]

\* A deletion is between the object and the row, or failed there.
BeingDeleted(d) ==
    d \in halfDeleted \/ \E r \in Requests : req[r].at = "deleteRow" /\ req[r].doc = d

\* A document that the vault shows has its object, whatever requests and uploads
\* overlap, but for a deletion half-way (routes.ts: a failure may orphan an
\* object, and leaves no dangling record).
NoDanglingRow ==
    \A d \in Documents :
        row[d].status = "stored" /\ object[d] = "none" => BeingDeleted(d)

\* routes.ts: the checksum recorded is the digest of the bytes stored: where S3
\* took the upload for a digest, whatever the caller claims and however often
\* the link is used.
ChecksumIsOfBytes ==
    \A d \in Documents :
        mode = "S3" /\ link[d].digest # "none" /\ row[d].status = "stored"
            /\ object[d] # "none"
        => row[d].checksum = object[d]

\* routes.ts: the workspace of a deleted account is deleted in full: no row of
\* a document is left, or is added afterwards.
ErasedInFull == ~exists => \A d \in Documents : ~OnFile(d)

\* repo.ts, listDocuments: what the vault shows and the evidence is scored on.
ListDocuments == {d \in Documents : row[d].status = "stored"}

\* The evidence score of the song is no higher than that of the documents whose
\* bytes are there, but for a deletion half-way.
EvidenceIsBacked ==
    Score(ListDocuments)
        <= Score({d \in Documents : object[d] # "none" \/ BeingDeleted(d)})

\* What a user sees of the vault: a document that was deleted does not come
\* back, through whatever request was under way.
VaultPromise == INSTANCE Vault WITH
    shown <- ListDocuments,
    spent <- {d \in Documents : row[d].status = "gone"}

KeepsVaultPromise == VaultPromise!Spec

-------------------------------------------------------------------------------
(* The inductive invariant behind these properties *)

\* A request that has seen the object will mark a row that has one, or is gone
\* or going.
MarksLanded ==
    \A r \in Requests : req[r].at = "completeMark" =>
        LET d == req[r].doc IN object[d] = "none" => ~OnFile(d) \/ BeingDeleted(d)

\* Where S3 checks uploads against a digest, that digest is all there is.
PledgeKept ==
    mode = "S3" =>
        /\ \A d \in Documents : link[d].digest # "none" =>
              /\ object[d] \in {"none", link[d].digest}
              /\ row[d].status = "stored" => row[d].checksum = link[d].digest
        /\ \A r \in Requests : req[r].at = "completeMark" /\ link[req[r].doc].digest # "none" =>
              req[r].checksum = link[req[r].doc].digest

\* An id that has no row yet is known to the one request that made it up.
FreshIds ==
    /\ \A d \in Documents : row[d].status = "none" =>
          /\ object[d] = "none"
          /\ link[d].status = "none" /\ link[d].writing = "none"
          /\ \A r \in Requests : req[r].doc = d => req[r].at = "reserveInsert"
    /\ \A r \in Requests : req[r].at = "reserveInsert" => row[req[r].doc].status = "none"
    /\ \A r, q \in Requests :
          req[r].at = "reserveInsert" /\ req[q].at = "reserveInsert" /\ r # q
             => req[r].doc # req[q].doc

\* Objects are removed once the workspace is gone.
CommitBeforeObjects == \A r \in Requests : req[r].at = "eraseObjects" => ~exists

IInv == /\ TypeOK
        /\ FreshIds
        /\ NoDanglingRow
        /\ MarksLanded
        /\ PledgeKept
        /\ ErasedInFull
        /\ CommitBeforeObjects
=============================================================================
