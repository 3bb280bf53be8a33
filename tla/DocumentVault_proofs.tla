-------------------------- MODULE DocumentVault_proofs --------------------------
(***************************************************************************)
(* Proofs about DocumentVault for any requests, contents and finite set of *)
(* documents: the inductive invariant, the checksums, the erasure, the     *)
(* evidence score, and that it implements Vault.                           *)
(***************************************************************************)
EXTENDS DocumentVault, FiniteSetTheorems, TLAPS

USE DocumentsAssumption, VaultAssumption

-------------------------------------------------------------------------------
(* Requests *)

LEMMA IdleType == Idle \in Request
  BY DEF Idle, Request, Places, Digests

\* The state of the requests after one of them moved to q.
LEMMA MoveType ==
    ASSUME TypeOK, NEW r \in Requests, NEW q \in Request, req' = [req EXCEPT ![r] = q]
    PROVE  /\ req' \in [Requests -> Request]
           /\ req'[r] = q
           /\ \A s \in Requests \ {r} : req'[s] = req[s]
  BY DEF TypeOK

LEMMA GotoType ==
    ASSUME TypeOK, NEW r \in Requests, NEW step \in Places,
           req[r].at \notin {"idle", "eraseCommit", "eraseObjects"}, Goto(r, step)
    PROVE  /\ req' \in [Requests -> Request]
           /\ req'[r] = [req[r] EXCEPT !.at = step]
           /\ \A s \in Requests \ {r} : req'[s] = req[s]
<1>1. [req[r] EXCEPT !.at = step] \in Request
  BY DEF TypeOK, Request
<1>2. QED
  BY <1>1, MoveType DEF Goto

LEMMA FinishType ==
    ASSUME TypeOK, NEW r \in Requests, Finish(r)
    PROVE  /\ req' \in [Requests -> Request]
           /\ req'[r] = Idle
           /\ \A s \in Requests \ {r} : req'[s] = req[s]
  BY IdleType, MoveType DEF Finish

-------------------------------------------------------------------------------
(* Steps that touch neither a row nor an object *)

LEMMA QuietStep ==
    ASSUME IInv, NEW r \in Requests, NEW q \in Request,
           UNCHANGED <<mode, exists, row, object, link, halfDeleted>>,
           req' = [req EXCEPT ![r] = q],
           req[r].at # "deleteRow",
           q.at \notin {"completeMark", "reserveInsert", "eraseObjects"},
           q.doc \in Documents => row[q.doc].status # "none"
    PROVE  IInv'
<1>1. TypeOK'
  BY MoveType DEF IInv, TypeOK
<1>2. req'[r] = q /\ \A s \in Requests \ {r} : req'[s] = req[s]
  BY MoveType DEF IInv
<1>3. \A d \in Documents : BeingDeleted(d) => BeingDeleted(d)'
  BY <1>2 DEF BeingDeleted
<1>4. FreshIds'
  BY <1>2 DEF IInv, FreshIds
<1>5. NoDanglingRow'
  BY <1>3 DEF IInv, NoDanglingRow
<1>6. MarksLanded'
  BY <1>2, <1>3 DEF IInv, TypeOK, Request, MarksLanded, OnFile
<1>7. PledgeKept'
  BY <1>2 DEF IInv, PledgeKept
<1>8. ErasedInFull' /\ CommitBeforeObjects'
  BY <1>2 DEF IInv, ErasedInFull, CommitBeforeObjects, OnFile
<1>9. QED
  BY <1>1, <1>4, <1>5, <1>6, <1>7, <1>8 DEF IInv

LEMMA StartStep ==
    ASSUME IInv, NEW r \in Requests, Start(r)
    PROVE  IInv'
<1> USE DEF IInv
<1>1. CASE ReserveRead(r)
  <2>1. PICK d \in Documents, digest \in Digests :
          /\ row[d].status = "none"
          /\ \A q \in Requests : req[q].doc # d
          /\ Begin(r, [Idle EXCEPT !.at = "reserveInsert", !.doc = d, !.checksum = digest])
    BY <1>1 DEF ReserveRead
  <2> DEFINE q == [Idle EXCEPT !.at = "reserveInsert", !.doc = d, !.checksum = digest]
  <2>2. q \in Request /\ q.at = "reserveInsert" /\ q.doc = d
    BY DEF Idle, Request, Places
  <2> HIDE DEF q
  <2>3. req[r].at = "idle" /\ req' = [req EXCEPT ![r] = q]
    BY <2>1 DEF Begin, q
  <2>4. /\ req' \in [Requests -> Request] /\ req'[r] = q
        /\ \A s \in Requests \ {r} : req'[s] = req[s]
    BY <2>2, <2>3, MoveType
  <2>5. UNCHANGED <<mode, exists, row, object, link, halfDeleted>>
    BY <1>1 DEF ReserveRead
  <2>6. TypeOK'
    BY <2>4, <2>5 DEF TypeOK
  <2>7. \A e \in Documents : BeingDeleted(e) => BeingDeleted(e)'
    BY <2>3, <2>4, <2>5 DEF BeingDeleted
  <2>8. FreshIds'
    BY <2>1, <2>2, <2>4, <2>5 DEF FreshIds
  <2>9. NoDanglingRow' /\ ErasedInFull'
    BY <2>5, <2>7 DEF NoDanglingRow, ErasedInFull, OnFile
  <2>10. MarksLanded'
    BY <2>2, <2>4, <2>5, <2>7 DEF TypeOK, Request, MarksLanded, OnFile
  <2>11. PledgeKept' /\ CommitBeforeObjects'
    BY <2>2, <2>4, <2>5 DEF PledgeKept, CommitBeforeObjects
  <2>12. QED
    BY <2>6, <2>8, <2>9, <2>10, <2>11
<1>2. CASE CompleteRead(r)
  <2>1. PICK d \in Documents, claim \in Digests :
          /\ OnFile(d)
          /\ Begin(r, [Idle EXCEPT !.at = "completeHead", !.doc = d, !.checksum = claim])
    BY <1>2 DEF CompleteRead
  <2> DEFINE q == [Idle EXCEPT !.at = "completeHead", !.doc = d, !.checksum = claim]
  <2>2. q \in Request /\ q.at = "completeHead" /\ q.doc = d
    BY DEF Idle, Request, Places
  <2>3. row[d].status # "none" /\ req[r].at = "idle" /\ req' = [req EXCEPT ![r] = q]
    BY <2>1 DEF OnFile, Begin
  <2> HIDE DEF q
  <2>4. QED
    BY <1>2, <2>2, <2>3, QuietStep DEF CompleteRead
<1>3. CASE DeleteRead(r)
  <2>1. PICK d \in Documents :
          /\ OnFile(d)
          /\ Begin(r, [Idle EXCEPT !.at = "deleteObject", !.doc = d])
    BY <1>3 DEF DeleteRead
  <2> DEFINE q == [Idle EXCEPT !.at = "deleteObject", !.doc = d]
  <2>2. q \in Request /\ q.at = "deleteObject" /\ q.doc = d
    BY DEF Idle, Request, Places, Digests
  <2>3. row[d].status # "none" /\ req[r].at = "idle" /\ req' = [req EXCEPT ![r] = q]
    BY <2>1 DEF OnFile, Begin
  <2> HIDE DEF q
  <2>4. QED
    BY <1>3, <2>2, <2>3, QuietStep DEF DeleteRead
<1>4. CASE EraseRead(r)
  <2> DEFINE q == [Idle EXCEPT !.at = "eraseCommit", !.keys = {d \in Documents : OnFile(d)}]
  <2>1. q \in Request /\ q.at = "eraseCommit" /\ q.doc = "none"
    BY DEF Idle, Request, Places, Digests
  <2>2. req[r].at = "idle" /\ req' = [req EXCEPT ![r] = q]
    BY <1>4 DEF EraseRead, Begin
  <2> HIDE DEF q
  <2>3. QED
    BY <1>4, <2>1, <2>2, QuietStep DEF EraseRead
<1>5. QED
  BY <1>1, <1>2, <1>3, <1>4 DEF Start

-------------------------------------------------------------------------------
(* Steps of a request that change a row or an object *)

\* No row is lost when a deletion goes on or another request moves.
LEMMA StillDeleted ==
    ASSUME NEW r \in Requests, req[r].at # "deleteRow", halfDeleted' = halfDeleted,
           \A s \in Requests \ {r} : req'[s] = req[s]
    PROVE  \A d \in Documents : BeingDeleted(d) => BeingDeleted(d)'
  BY DEF BeingDeleted

LEMMA InsertStep ==
    ASSUME IInv, NEW r \in Requests, ReserveInsert(r)
    PROVE  IInv'
<1> USE DEF IInv
<1> DEFINE d == req[r].doc
<1>1. /\ req[r].at = "reserveInsert" /\ exists /\ Finish(r)
      /\ row' = [row EXCEPT ![d].status = "pending"]
      /\ link' = [link EXCEPT ![d].status = "live", ![d].digest = req[r].checksum]
      /\ UNCHANGED <<mode, exists, object, halfDeleted>>
  BY DEF ReserveInsert, Reserved
<1>2. d \in Documents /\ req[r].checksum \in Digests
  BY <1>1 DEF TypeOK, Request
<1>3. /\ req' \in [Requests -> Request] /\ req'[r] = Idle
      /\ \A s \in Requests \ {r} : req'[s] = req[s]
  BY <1>1, FinishType
<1>4. /\ row[d].status = "none" /\ object[d] = "none"
      /\ \A s \in Requests \ {r} : req[s].doc # d
  BY <1>1, <1>2 DEF FreshIds
<1>5. /\ row'[d].status = "pending" /\ row'[d].checksum = row[d].checksum
      /\ link'[d].digest = req[r].checksum
      /\ \A e \in Documents \ {d} : row'[e] = row[e] /\ link'[e] = link[e]
  BY <1>1, <1>2 DEF TypeOK
<1>6. \A e \in Documents : BeingDeleted(e) => BeingDeleted(e)'
  BY <1>1, <1>3, StillDeleted
<1> HIDE DEF d
<1>7. TypeOK'
  BY <1>1, <1>2, <1>3 DEF TypeOK
<1>8. FreshIds'
  <2>1. \A s \in Requests : req'[s].at = "reserveInsert" => s # r /\ req'[s] = req[s]
    BY <1>3 DEF Idle
  <2>2. \A s \in Requests : req'[s].doc = d => FALSE
    BY <1>2, <1>3, <1>4 DEF Idle
  <2>3. \A s \in Requests : req'[s].doc \in Documents => req'[s] = req[s]
    BY <1>3 DEF Idle
  <2>4. ASSUME NEW e \in Documents, row'[e].status = "none"
        PROVE  /\ object'[e] = "none"
               /\ link'[e].status = "none" /\ link'[e].writing = "none"
               /\ \A s \in Requests : req'[s].doc = e => req'[s].at = "reserveInsert"
    <3>1. e # d /\ row[e].status = "none"
      BY <1>5, <2>4
    <3>2. object[e] = "none" /\ link[e].status = "none" /\ link[e].writing = "none"
      BY <3>1 DEF FreshIds
    <3>3. object'[e] = "none" /\ link'[e].status = "none" /\ link'[e].writing = "none"
      BY <1>1, <1>5, <3>1, <3>2
    <3>4. ASSUME NEW s \in Requests, req'[s].doc = e PROVE req'[s].at = "reserveInsert"
      BY <2>3, <3>1, <3>4 DEF FreshIds
    <3>5. QED
      BY <3>3, <3>4
  <2>5. ASSUME NEW s \in Requests, req'[s].at = "reserveInsert"
        PROVE  row'[req'[s].doc].status = "none"
    <3>1. s # r /\ req'[s] = req[s] /\ req[s].doc \in Documents \ {d}
      BY <1>4, <2>1, <2>5 DEF TypeOK, Request
    <3>2. QED
      BY <1>5, <2>5, <3>1 DEF FreshIds
  <2>6. QED
    BY <2>1, <2>4, <2>5 DEF FreshIds
<1>9. NoDanglingRow'
  BY <1>1, <1>5, <1>6 DEF NoDanglingRow
<1>10. \A s \in Requests : req'[s].at = "completeMark" =>
         req'[s] = req[s] /\ req[s].doc \in Documents \ {d}
  BY <1>3, <1>4 DEF Idle, TypeOK, Request
<1>11. MarksLanded'
  BY <1>1, <1>5, <1>6, <1>10 DEF MarksLanded, OnFile
<1>12. PledgeKept'
  <2> SUFFICES ASSUME mode = "S3" PROVE PledgeKept'
    BY <1>1 DEF PledgeKept
  <2>1. ASSUME NEW e \in Documents, link'[e].digest # "none"
        PROVE  /\ object'[e] \in {"none", link'[e].digest}
               /\ row'[e].status = "stored" => row'[e].checksum = link'[e].digest
    <3>1. CASE e = d
      BY <1>1, <1>4, <1>5, <3>1
    <3>2. CASE e # d
      <4>1. row'[e] = row[e] /\ link'[e] = link[e] /\ object'[e] = object[e]
        BY <1>1, <1>5, <3>2
      <4>2. QED
        BY <2>1, <4>1 DEF PledgeKept
    <3>3. QED
      BY <3>1, <3>2
  <2>2. ASSUME NEW s \in Requests, req'[s].at = "completeMark",
               link'[req'[s].doc].digest # "none"
        PROVE  req'[s].checksum = link'[req'[s].doc].digest
    <3>1. req'[s] = req[s] /\ link'[req[s].doc] = link[req[s].doc]
      BY <1>5, <1>10, <2>2
    <3>2. QED
      BY <2>2, <3>1 DEF PledgeKept
  <2>3. QED
    BY <2>1, <2>2 DEF PledgeKept
<1>13. ErasedInFull' /\ CommitBeforeObjects'
  BY <1>1, <1>3 DEF ErasedInFull, CommitBeforeObjects, Idle
<1>14. QED
  BY <1>7, <1>8, <1>9, <1>11, <1>12, <1>13

\* DELETE FROM documents, at the end of a deletion or of a failed upload.
LEMMA RowGoneStep ==
    ASSUME IInv, NEW r \in Requests, req[r].at \in {"completeDrop", "deleteRow"},
           row' = [row EXCEPT ![req[r].doc].status = "gone"],
           Finish(r),
           UNCHANGED <<mode, exists, object, link, halfDeleted>>
    PROVE  IInv'
<1> USE DEF IInv
<1> DEFINE d == req[r].doc
<1>1. d \in Documents /\ row[d].status # "none"
  BY DEF TypeOK, Request, FreshIds
<1>2. /\ req' \in [Requests -> Request] /\ req'[r] = Idle
      /\ \A s \in Requests \ {r} : req'[s] = req[s]
  BY FinishType
<1>3. row'[d].status = "gone" /\ \A e \in Documents \ {d} : row'[e] = row[e]
  BY <1>1 DEF TypeOK
<1>4. TypeOK'
  BY <1>1, <1>2 DEF TypeOK
<1> HIDE DEF d
<1>5. \A e \in Documents \ {d} : BeingDeleted(e) => BeingDeleted(e)'
  BY <1>2 DEF BeingDeleted, d
<1>6. \A s \in Requests : req'[s].at # "idle" => req'[s] = req[s]
  BY <1>2 DEF Idle
<1>7. FreshIds'
  <2>1. \A e \in Documents : row'[e].status = "none" => e # d /\ row[e].status = "none"
    BY <1>3
  <2>2. \A s \in Requests : req'[s].doc \in Documents => req'[s] = req[s]
    BY <1>2 DEF Idle
  <2>3. ASSUME NEW s \in Requests, req'[s].at = "reserveInsert"
        PROVE  row'[req'[s].doc].status = "none"
    <3>1. req'[s] = req[s] /\ req[s].doc \in Documents /\ row[req[s].doc].status = "none"
      BY <1>6, <2>3 DEF TypeOK, Request, FreshIds
    <3>2. QED
      BY <1>1, <1>3, <3>1
  <2>4. QED
    BY <1>6, <2>1, <2>2, <2>3 DEF FreshIds
<1>8. NoDanglingRow'
  BY <1>3, <1>5 DEF NoDanglingRow
<1>9. MarksLanded'
  <2>1. \A s \in Requests : req'[s].at = "completeMark" =>
          req'[s] = req[s] /\ req[s].doc \in Documents
    BY <1>6 DEF TypeOK, Request
  <2>2. \A e \in Documents :
          /\ object'[e] = object[e]
          /\ ~OnFile(e) \/ BeingDeleted(e) => ~OnFile(e)' \/ BeingDeleted(e)'
    BY <1>3, <1>5 DEF OnFile
  <2>3. QED
    BY <2>1, <2>2 DEF MarksLanded
<1>10. PledgeKept'
  BY <1>3, <1>6 DEF PledgeKept
<1>11. ErasedInFull' /\ CommitBeforeObjects'
  BY <1>3, <1>6 DEF ErasedInFull, CommitBeforeObjects, OnFile
<1>12. QED
  BY <1>4, <1>7, <1>8, <1>9, <1>10, <1>11

LEMMA HeadStep ==
    ASSUME IInv, NEW r \in Requests, CompleteHead(r)
    PROVE  IInv'
<1> USE DEF IInv
<1> DEFINE d == req[r].doc
<1>1. /\ req[r].at = "completeHead"
      /\ UNCHANGED <<mode, exists, row, object, link, halfDeleted>>
  BY DEF CompleteHead, Landed
<1>2. req[r] \in Request /\ d \in Documents /\ row[d].status # "none"
  BY <1>1 DEF TypeOK, Request, FreshIds
<1>3. CASE object[d] = "none"
  <2> DEFINE q == [req[r] EXCEPT !.at = "completeDrop"]
  <2>1. q \in Request /\ q.at = "completeDrop" /\ q.doc = d
    BY <1>2 DEF Request, Places
  <2>2. req' = [req EXCEPT ![r] = q]
    BY <1>3 DEF CompleteHead, Landed, Goto, TypeOK
  <2> HIDE DEF q
  <2>3. QED
    BY <1>1, <1>2, <2>1, <2>2, QuietStep
<1>4. CASE object[d] # "none"
  <2> DEFINE c == Recorded(d, req[r].checksum)
             q == [req[r] EXCEPT !.at = "completeMark", !.checksum = c]
  <2>1. c \in Digests
    <3>1. CASE mode = "S3" /\ link[d].digest # "none"
      BY <1>2, <1>4, <3>1 DEF Recorded, PledgeKept, TypeOK
    <3>2. CASE ~(mode = "S3" /\ link[d].digest # "none")
      BY <1>2, <3>2 DEF Recorded, Request
    <3>3. QED
      BY <3>1, <3>2
  <2>2. mode = "S3" /\ link[d].digest # "none" => c = link[d].digest
    BY <1>2, <1>4 DEF Recorded, PledgeKept
  <2>3. req' = [req EXCEPT ![r] = q]
    BY <1>4 DEF CompleteHead, Landed, TypeOK
  <2> HIDE DEF c
  <2>4. q \in Request /\ q.at = "completeMark" /\ q.doc = d /\ q.checksum = c
    BY <1>2, <2>1 DEF Request, Places
  <2> HIDE DEF q, d
  <2>5. /\ req' \in [Requests -> Request] /\ req'[r] = q
        /\ \A s \in Requests \ {r} : req'[s] = req[s]
    BY <2>3, <2>4, MoveType
  <2>6. TypeOK'
    BY <1>1, <2>5 DEF TypeOK
  <2>7. \A e \in Documents : BeingDeleted(e) => BeingDeleted(e)'
    BY <1>1, <2>5, StillDeleted
  <2>8. FreshIds'
    BY <1>1, <1>2, <2>4, <2>5 DEF FreshIds
  <2>9. NoDanglingRow' /\ ErasedInFull'
    BY <1>1, <2>7 DEF NoDanglingRow, ErasedInFull, OnFile
  <2>10. MarksLanded'
    BY <1>1, <1>4, <2>4, <2>5, <2>7 DEF TypeOK, Request, MarksLanded, OnFile
  <2>11. PledgeKept' /\ CommitBeforeObjects'
    BY <1>1, <2>2, <2>4, <2>5 DEF PledgeKept, CommitBeforeObjects
  <2>12. QED
    BY <2>6, <2>8, <2>9, <2>10, <2>11
<1>5. QED
  BY <1>3, <1>4

LEMMA MarkStep ==
    ASSUME IInv, NEW r \in Requests, CompleteMark(r)
    PROVE  IInv'
<1> USE DEF IInv
<1> DEFINE d == req[r].doc
           c == req[r].checksum
<1>1. /\ req[r].at = "completeMark" /\ Mark(d, c) /\ Finish(r)
      /\ UNCHANGED <<mode, exists, object, link, halfDeleted>>
  BY DEF CompleteMark
<1>2. d \in Documents /\ c \in Digests /\ row[d].status # "none"
  BY <1>1 DEF TypeOK, Request, FreshIds
<1>3. /\ req' \in [Requests -> Request] /\ req'[r] = Idle
      /\ \A s \in Requests \ {r} : req'[s] = req[s]
  BY <1>1, FinishType
<1>4. /\ \A e \in Documents \ {d} : row'[e] = row[e]
      /\ row'[d] = IF OnFile(d) THEN [status |-> "stored", checksum |-> c] ELSE row[d]
      /\ \A e \in Documents : OnFile(e)' <=> OnFile(e)
  BY <1>1, <1>2 DEF Mark, TypeOK, OnFile
<1>5. TypeOK'
  BY <1>1, <1>2, <1>3 DEF Mark, TypeOK
<1>6. object[d] = "none" => ~OnFile(d) \/ BeingDeleted(d)
  BY <1>1 DEF MarksLanded
<1>7. mode = "S3" /\ link[d].digest # "none" => c = link[d].digest
  BY <1>1 DEF PledgeKept
<1>8. \A e \in Documents : BeingDeleted(e) => BeingDeleted(e)'
  BY <1>1, <1>3, StillDeleted
<1> HIDE DEF d, c
<1>9. \A s \in Requests : req'[s].at # "idle" => req'[s] = req[s]
  BY <1>3 DEF Idle
<1>10. FreshIds'
  <2>1. \A e \in Documents : row'[e].status = "none" <=> row[e].status = "none"
    BY <1>2, <1>4
  <2>2. \A s \in Requests : req'[s].doc \in Documents => req'[s] = req[s]
    BY <1>3 DEF Idle
  <2>3. \A s \in Requests : req'[s].at = "reserveInsert" => req'[s].doc \in Documents
    BY <1>3 DEF Request
  <2>4. QED
    BY <1>1, <1>9, <2>1, <2>2, <2>3 DEF FreshIds
<1>11. NoDanglingRow'
  BY <1>1, <1>4, <1>6, <1>8 DEF NoDanglingRow, OnFile
<1>12. MarksLanded'
  <2>1. \A s \in Requests : req'[s].at = "completeMark" =>
          req'[s] = req[s] /\ req[s].doc \in Documents
    BY <1>9 DEF TypeOK, Request
  <2>2. QED
    BY <1>1, <1>4, <1>8, <2>1 DEF MarksLanded
<1>13. PledgeKept'
  BY <1>1, <1>4, <1>7, <1>9 DEF PledgeKept
<1>14. ErasedInFull' /\ CommitBeforeObjects'
  BY <1>1, <1>4, <1>9 DEF ErasedInFull, CommitBeforeObjects
<1>15. QED
  BY <1>5, <1>10, <1>11, <1>12, <1>13, <1>14

LEMMA DeleteObjectStep ==
    ASSUME IInv, NEW r \in Requests, DeleteObject(r)
    PROVE  IInv'
<1> USE DEF IInv
<1>0. PICK d \in Documents : d = req[r].doc
  BY DEF DeleteObject, TypeOK, Request
<1> DEFINE q == [req[r] EXCEPT !.at = "deleteRow"]
<1>1. /\ req[r].at = "deleteObject" /\ Removed(d) /\ Goto(r, "deleteRow")
      /\ UNCHANGED <<mode, exists, row, link, halfDeleted>>
  BY <1>0 DEF DeleteObject
<1>2. row[d].status # "none"
  BY <1>0, <1>1 DEF FreshIds
<1>3. /\ req' \in [Requests -> Request] /\ req'[r] = q
      /\ \A s \in Requests \ {r} : req'[s] = req[s]
  BY <1>1, GotoType DEF Places
<1>4. q.at = "deleteRow" /\ q.doc = d
  BY <1>0 DEF TypeOK, Request
<1> HIDE DEF q
<1>5. /\ object' \in [Documents -> Contents \union {"none", "torn"}]
      /\ object'[d] \in {object[d], "none"}
      /\ \A e \in Documents \ {d} : object'[e] = object[e]
  BY <1>1, <1>2 DEF Removed, TypeOK
<1>6. TypeOK'
  BY <1>1, <1>3, <1>5 DEF TypeOK
<1>7. /\ BeingDeleted(d)'
      /\ \A e \in Documents : BeingDeleted(e) => BeingDeleted(e)'
  <2>1. BeingDeleted(d)'
    BY <1>3, <1>4 DEF BeingDeleted
  <2>2. QED
    BY <1>1, <1>3, <2>1, StillDeleted
<1>8. FreshIds'
  BY <1>1, <1>2, <1>3, <1>4, <1>5 DEF FreshIds
<1>9. NoDanglingRow'
  BY <1>1, <1>5, <1>7 DEF NoDanglingRow
<1>10. MarksLanded'
  <2>1. \A s \in Requests : req'[s].at = "completeMark" =>
          req'[s] = req[s] /\ req[s].doc \in Documents
    BY <1>3, <1>4 DEF TypeOK, Request
  <2>2. QED
    BY <1>1, <1>5, <1>7, <2>1 DEF MarksLanded, OnFile
<1>11. PledgeKept'
  BY <1>1, <1>3, <1>4, <1>5 DEF PledgeKept
<1>12. ErasedInFull' /\ CommitBeforeObjects'
  BY <1>1, <1>3, <1>4 DEF ErasedInFull, CommitBeforeObjects, OnFile
<1>13. QED
  BY <1>6, <1>8, <1>9, <1>10, <1>11, <1>12

LEMMA EraseCommitStep ==
    ASSUME IInv, NEW r \in Requests, EraseCommit(r)
    PROVE  IInv'
<1> USE DEF IInv
<1> DEFINE q == [req[r] EXCEPT !.at = "eraseObjects"]
<1>1. /\ req[r].at = "eraseCommit" /\ exists' = FALSE /\ EraseRows(Documents)
      /\ Goto(r, "eraseObjects")
      /\ UNCHANGED <<mode, object, link, halfDeleted>>
  BY DEF EraseCommit
<1>2. q \in Request /\ q.at = "eraseObjects" /\ q.doc = req[r].doc
  BY <1>1 DEF TypeOK, Request, Places
<1>3. req' = [req EXCEPT ![r] = q]
  BY <1>1 DEF Goto, TypeOK
<1> HIDE DEF q
<1>4. /\ req' \in [Requests -> Request] /\ req'[r] = q
      /\ \A s \in Requests \ {r} : req'[s] = req[s]
  BY <1>2, <1>3, MoveType
<1>5. TypeOK'
  BY <1>1, <1>4 DEF TypeOK, EraseRows
<1>6. \A e \in Documents : /\ row'[e].status \notin {"pending", "stored"}
                           /\ row'[e].status = "none" <=> row[e].status = "none"
  BY <1>1 DEF TypeOK, EraseRows, OnFile
<1>7. FreshIds'
  <2>1. \A s \in Requests : req'[s].at = "reserveInsert" =>
          req'[s] = req[s] /\ req[s].doc \in Documents
    BY <1>2, <1>4 DEF TypeOK, Request
  <2>2. \A s \in Requests : /\ req'[s].doc = req[s].doc
                            /\ req[s].at = "reserveInsert" => req'[s].at = "reserveInsert"
    BY <1>1, <1>2, <1>4
  <2>3. QED
    BY <1>1, <1>6, <2>1, <2>2 DEF FreshIds
<1>8. NoDanglingRow' /\ ErasedInFull'
  BY <1>6 DEF NoDanglingRow, ErasedInFull, OnFile
<1>9. MarksLanded'
  <2>1. \A s \in Requests : req'[s].at = "completeMark" => req'[s].doc \in Documents
    BY <1>4 DEF Request
  <2>2. QED
    BY <1>6, <2>1 DEF MarksLanded, OnFile
<1>10. PledgeKept'
  BY <1>1, <1>2, <1>4, <1>6 DEF PledgeKept
<1>11. CommitBeforeObjects'
  BY <1>1 DEF CommitBeforeObjects
<1>12. QED
  BY <1>5, <1>7, <1>8, <1>9, <1>10, <1>11

LEMMA EraseObjectStep ==
    ASSUME IInv, NEW r \in Requests, EraseObject(r)
    PROVE  IInv'
<1> USE DEF IInv
<1>1. /\ req[r].at = "eraseObjects"
      /\ UNCHANGED <<mode, exists, row, link, halfDeleted>>
  BY DEF EraseObject
<1>2. PICK d \in req[r].keys :
        /\ Removed(d)
        /\ req' = [req EXCEPT ![r].keys = @ \ {d}]
  BY DEF EraseObject
<1> DEFINE q == [req[r] EXCEPT !.keys = @ \ {d}]
<1>3. q \in Request /\ q.at = "eraseObjects" /\ q.doc = req[r].doc
  BY <1>1 DEF TypeOK, Request, Places
<1>4. req' = [req EXCEPT ![r] = q]
  BY <1>2 DEF TypeOK
<1> HIDE DEF q
<1>5. /\ req' \in [Requests -> Request] /\ req'[r] = q
      /\ \A s \in Requests \ {r} : req'[s] = req[s]
  BY <1>3, <1>4, MoveType
<1>6. d \in Documents
  BY DEF TypeOK, Request
<1>7. /\ object' \in [Documents -> Contents \union {"none", "torn"}]
      /\ \A e \in Documents : object'[e] \in {object[e], "none"}
  BY <1>2, <1>6 DEF Removed, TypeOK
<1>8. TypeOK'
  BY <1>1, <1>5, <1>7 DEF TypeOK
<1>9. \A s \in Requests : req'[s].at = req[s].at /\ req'[s].doc = req[s].doc
  BY <1>1, <1>3, <1>5
<1>10. FreshIds'
  BY <1>1, <1>7, <1>9 DEF FreshIds
<1>11. \A e \in Documents : ~OnFile(e)'
  BY <1>1 DEF CommitBeforeObjects, ErasedInFull, OnFile
<1>12. NoDanglingRow' /\ ErasedInFull'
  BY <1>11 DEF NoDanglingRow, ErasedInFull, OnFile
<1>13. MarksLanded'
  <2>1. \A s \in Requests : req'[s].at = "completeMark" => req'[s].doc \in Documents
    BY <1>5 DEF Request
  <2>2. QED
    BY <1>11, <2>1 DEF MarksLanded
<1>14. PledgeKept'
  BY <1>1, <1>3, <1>5, <1>7 DEF PledgeKept
<1>15. CommitBeforeObjects'
  BY <1>1, <1>9 DEF CommitBeforeObjects
<1>16. QED
  BY <1>8, <1>10, <1>12, <1>13, <1>14, <1>15

LEMMA FailStep ==
    ASSUME IInv, NEW r \in Requests, Fail(r)
    PROVE  IInv'
<1> USE DEF IInv
<1>1. /\ Finish(r)
      /\ halfDeleted' = IF req[r].at = "deleteRow" THEN halfDeleted \union {req[r].doc}
                                                   ELSE halfDeleted
      /\ UNCHANGED <<mode, exists, row, object, link>>
  BY DEF Fail
<1>2. /\ req' \in [Requests -> Request] /\ req'[r] = Idle
      /\ \A s \in Requests \ {r} : req'[s] = req[s]
  BY <1>1, FinishType
<1>3. req[r].at = "deleteRow" => req[r].doc \in Documents
  BY DEF TypeOK, Request
<1>4. TypeOK'
  BY <1>1, <1>2, <1>3 DEF TypeOK
<1>5. \A e \in Documents : BeingDeleted(e) => BeingDeleted(e)'
  BY <1>1, <1>2 DEF BeingDeleted
<1>6. \A s \in Requests : req'[s].at # "idle" => req'[s] = req[s]
  BY <1>2 DEF Idle
<1>7. FreshIds'
  <2>1. \A s \in Requests : req'[s].doc \in Documents => req'[s] = req[s]
    BY <1>2 DEF Idle
  <2>2. QED
    BY <1>1, <1>6, <2>1 DEF FreshIds
<1>8. NoDanglingRow' /\ ErasedInFull'
  BY <1>1, <1>5 DEF NoDanglingRow, ErasedInFull, OnFile
<1>9. MarksLanded'
  <2>1. \A s \in Requests : req'[s].at = "completeMark" =>
          req'[s] = req[s] /\ req[s].doc \in Documents
    BY <1>6 DEF TypeOK, Request
  <2>2. QED
    BY <1>1, <1>5, <2>1 DEF MarksLanded, OnFile
<1>10. PledgeKept' /\ CommitBeforeObjects'
  BY <1>1, <1>6 DEF PledgeKept, CommitBeforeObjects
<1>11. QED
  BY <1>4, <1>7, <1>8, <1>9, <1>10

-------------------------------------------------------------------------------
(* Uploads *)

\* What a step of an upload may change.
LEMMA UploadEffect ==
    ASSUME IInv, NEW d \in Documents, Upload(d)
    PROVE  /\ UNCHANGED <<mode, exists, row, halfDeleted, req>>
           /\ row[d].status # "none"
           /\ TypeOK'
           /\ \A e \in Documents \ {d} : object'[e] = object[e] /\ link'[e] = link[e]
           /\ link'[d].digest = link[d].digest
           /\ object'[d] = "none" => object[d] = "none"
           /\ mode = "S3" /\ link[d].digest # "none"
                => object'[d] \in {object[d], link[d].digest}
<1> USE DEF IInv
<1>1. CASE \E c \in Contents : Put(d, c)
  BY <1>1 DEF Put, TypeOK, FreshIds
<1>2. CASE \E c \in Contents : WriteOpen(d, c)
  BY <1>2 DEF WriteOpen, TypeOK, FreshIds, Digests
<1>3. CASE WriteBytes(d)
  <2>1. mode = "S3" /\ link[d].digest # "none" => object[d] # "torn"
    BY DEF PledgeKept, TypeOK, Digests
  <2>2. QED
    BY <1>3, <2>1 DEF WriteBytes, TypeOK, FreshIds, Digests
<1>4. CASE WriteFails(d)
  <2>1. row[d].status # "none"
    BY <1>4 DEF WriteFails, FreshIds
  <2>2. /\ link' \in [Documents -> [status : {"none", "live", "expired"}, digest : Digests,
                                   writing : Digests]]
        /\ link'[d].digest = link[d].digest
        /\ \A e \in Documents \ {d} : link'[e] = link[e]
    BY <1>4 DEF WriteFails, TypeOK, Digests
  <2>3. QED
    BY <1>4, <2>1, <2>2 DEF WriteFails, TypeOK
<1>5. CASE ExpireLink(d)
  BY <1>5 DEF ExpireLink, TypeOK, FreshIds
<1>6. QED
  BY <1>1, <1>2, <1>3, <1>4, <1>5 DEF Upload

LEMMA UploadStep ==
    ASSUME IInv, NEW d \in Documents, Upload(d)
    PROVE  IInv'
<1> USE DEF IInv
<1>1. /\ UNCHANGED <<mode, exists, row, halfDeleted, req>>
      /\ row[d].status # "none"
      /\ TypeOK'
      /\ \A e \in Documents \ {d} : object'[e] = object[e] /\ link'[e] = link[e]
      /\ link'[d].digest = link[d].digest
      /\ object'[d] = "none" => object[d] = "none"
      /\ mode = "S3" /\ link[d].digest # "none" => object'[d] \in {object[d], link[d].digest}
  BY UploadEffect
<1>2. \A e \in Documents : /\ object'[e] = "none" => object[e] = "none"
                           /\ link'[e].digest = link[e].digest
  BY <1>1
<1>3. FreshIds'
  BY <1>1 DEF FreshIds
<1>4. \A e \in Documents : BeingDeleted(e)' <=> BeingDeleted(e)
  BY <1>1 DEF BeingDeleted
<1>5. NoDanglingRow' /\ ErasedInFull' /\ CommitBeforeObjects'
  BY <1>1, <1>2, <1>4 DEF NoDanglingRow, ErasedInFull, CommitBeforeObjects, OnFile
<1>6. \A s \in Requests : req[s].at = "completeMark" => req[s].doc \in Documents
  BY DEF TypeOK, Request
<1>7. MarksLanded'
  BY <1>1, <1>2, <1>4, <1>6 DEF MarksLanded, OnFile
<1>8. PledgeKept'
  <2>1. mode = "S3" => \A e \in Documents : link[e].digest # "none" =>
          object'[e] \in {"none", link[e].digest}
    BY <1>1 DEF PledgeKept
  <2>2. QED
    BY <1>1, <1>2, <1>6, <2>1 DEF PledgeKept
<1>9. QED
  BY <1>1, <1>3, <1>5, <1>7, <1>8

-------------------------------------------------------------------------------
(* The theorems *)

LEMMA RequestStep ==
    ASSUME IInv, NEW r \in Requests, Step(r)
    PROVE  IInv'
<1> USE DEF IInv
<1>1. CASE ReserveInsert(r)
  BY <1>1, InsertStep
<1>2. CASE ReserveRefused(r)
  <2>1. Idle.at = "idle" /\ Idle.doc \notin Documents
    BY DEF Idle
  <2>2. QED
    BY <1>2, <2>1, IdleType, QuietStep DEF ReserveRefused, Finish
<1>3. CASE CompleteHead(r)
  BY <1>3, HeadStep
<1>4. CASE CompleteDrop(r)
  BY <1>4, RowGoneStep DEF CompleteDrop
<1>5. CASE CompleteMark(r)
  BY <1>5, MarkStep
<1>6. CASE DeleteObject(r)
  BY <1>6, DeleteObjectStep
<1>7. CASE DeleteRow(r)
  BY <1>7, RowGoneStep DEF DeleteRow
<1>8. CASE EraseCommit(r)
  BY <1>8, EraseCommitStep
<1>9. CASE EraseObject(r)
  BY <1>9, EraseObjectStep
<1>10. CASE EraseDone(r)
  <2>1. Idle.at = "idle" /\ Idle.doc \notin Documents
    BY DEF Idle
  <2>2. QED
    BY <1>10, <2>1, IdleType, QuietStep DEF EraseDone, Finish
<1>11. QED
  BY <1>1, <1>2, <1>3, <1>4, <1>5, <1>6, <1>7, <1>8, <1>9, <1>10 DEF Step

\* The invariant holds of a vault that was just set up ...
LEMMA InitHolds == Init => IInv
<1> SUFFICES ASSUME Init PROVE IInv
  OBVIOUS
<1>1. TypeOK
  BY IdleType DEF Init, TypeOK, Digests
<1>2. \A r \in Requests : req[r].at = "idle" /\ req[r].doc \notin Documents
  BY DEF Init, Idle
<1>3. FreshIds
  BY <1>2 DEF Init, FreshIds
<1>4. MarksLanded /\ CommitBeforeObjects
  BY <1>2 DEF MarksLanded, CommitBeforeObjects
<1>5. NoDanglingRow /\ PledgeKept /\ ErasedInFull
  BY <1>2 DEF Init, NoDanglingRow, PledgeKept, ErasedInFull
<1>6. QED
  BY <1>1, <1>3, <1>4, <1>5 DEF IInv

\* ... and every step of a request or an upload keeps it.
LEMMA StepKeeps == IInv /\ [Next]_vars => IInv'
<1> SUFFICES ASSUME IInv, [Next]_vars PROVE IInv'
  OBVIOUS
<1>1. CASE UNCHANGED vars
  BY <1>1 DEF vars, IInv, TypeOK, FreshIds, NoDanglingRow, MarksLanded, PledgeKept,
              ErasedInFull, CommitBeforeObjects, BeingDeleted, OnFile
<1>2. ASSUME NEW r \in Requests, Start(r) \/ Step(r) \/ Fail(r) PROVE IInv'
  BY <1>2, StartStep, RequestStep, FailStep
<1>3. ASSUME NEW d \in Documents, Upload(d) PROVE IInv'
  BY <1>3, UploadStep
<1>4. QED
  BY <1>1, <1>2, <1>3 DEF Next

\* However requests, uploads and failures overlap, the rows, the objects and
\* what each request has read agree as the routes count on.
THEOREM InvariantHolds == Spec => []IInv
  BY InitHolds, StepKeeps, PTL DEF Spec

\* No document is shown without its object, but for a deletion half-way.
THEOREM NoDangling == Spec => []NoDanglingRow
<1>1. IInv => NoDanglingRow
  BY DEF IInv
<1>2. QED
  BY <1>1, InvariantHolds, PTL

\* The checksum recorded is that of the bytes, where S3 checked the upload.
THEOREM ChecksumCorrect == Spec => []ChecksumIsOfBytes
<1>1. IInv => ChecksumIsOfBytes
  BY DEF IInv, PledgeKept, ChecksumIsOfBytes
<1>2. QED
  BY <1>1, InvariantHolds, PTL

\* No row of a document outlives its workspace.
THEOREM ErasureComplete == Spec => []ErasedInFull
<1>1. IInv => ErasedInFull
  BY DEF IInv
<1>2. QED
  BY <1>1, InvariantHolds, PTL

LEMMA GroupsFinite == IsFiniteSet(EvidenceGroups)
<1>1. ASSUME NEW g, NEW h, NEW i, NEW j PROVE IsFiniteSet({g, h, i, j})
  <2>1. IsFiniteSet(((({} \union {g}) \union {h}) \union {i}) \union {j})
    BY FS_EmptySet, FS_AddElement
  <2>2. ((({} \union {g}) \union {h}) \union {i}) \union {j} = {g, h, i, j}
    OBVIOUS
  <2>3. QED
    BY <2>1, <2>2
<1>2. QED
  BY <1>1, Zenon DEF EvidenceGroups

\* A document more never lowers the score.
THEOREM ScoreMonotone ==
    ASSUME NEW B \in SUBSET Documents, NEW A \in SUBSET B
    PROVE  Score(A) <= Score(B)
<1>1. IsFiniteSet(B) /\ IsFiniteSet(A) /\ Cardinality(A) <= Cardinality(B)
  BY FS_Subset DEF DocumentsAssumption
<1>2. GroupsPresent(A) \subseteq GroupsPresent(B) /\ GroupsPresent(B) \subseteq EvidenceGroups
  BY DEF GroupsPresent
<1>3. /\ IsFiniteSet(GroupsPresent(A)) /\ IsFiniteSet(GroupsPresent(B))
      /\ Cardinality(GroupsPresent(A)) <= Cardinality(GroupsPresent(B))
  BY <1>2, GroupsFinite, FS_Subset
<1>4. /\ Cardinality(A) \in Nat /\ Cardinality(B) \in Nat
      /\ Cardinality(GroupsPresent(A)) \in Nat /\ Cardinality(GroupsPresent(B)) \in Nat
  BY <1>1, <1>3, FS_CardinalityType
<1>5. QED
  BY <1>1, <1>3, <1>4 DEF Score, AtMost

LEMMA ScoreNumbers ==
    ASSUME NEW docs \in SUBSET Documents
    PROVE  Cardinality(docs) \in Nat /\ Cardinality(GroupsPresent(docs)) \in Nat
<1>1. IsFiniteSet(docs)
  BY FS_Subset DEF DocumentsAssumption
<1>2. GroupsPresent(docs) \subseteq EvidenceGroups
  BY DEF GroupsPresent
<1>3. IsFiniteSet(GroupsPresent(docs))
  BY <1>2, GroupsFinite, FS_Subset
<1>4. QED
  BY <1>1, <1>3, FS_CardinalityType

\* Four documents of one group already make the evidence "strong": the score
\* does not ask for a document of another group.
THEOREM CopiesAreStrong ==
    ASSUME NEW docs \in SUBSET Documents,
           Cardinality(docs) >= 4, Cardinality(GroupsPresent(docs)) = 1
    PROVE  Label(Score(docs)) = "strong"
<1>1. AtMost(Cardinality(docs), 4) = 4
  BY ScoreNumbers DEF AtMost
<1>2. Score(docs) = 55
  BY <1>1 DEF Score, AtMost
<1>3. QED
  BY <1>2 DEF Label

\* "complete" is only said of a vault with documents of three groups or more,
\* however many documents there are.
THEOREM CompleteIsVaried ==
    ASSUME NEW docs \in SUBSET Documents, Label(Score(docs)) = "complete"
    PROVE  Cardinality(GroupsPresent(docs)) >= 3
<1>1. Cardinality(docs) \in Nat /\ Cardinality(GroupsPresent(docs)) \in Nat
  BY ScoreNumbers
<1>2. AtMost(Cardinality(docs), 4) \in 0 .. 4
  BY <1>1 DEF AtMost
<1>3. Score(docs) \in Nat
  BY <1>1, <1>2 DEF Score, AtMost
<1>4. Score(docs) >= 85
  BY <1>3 DEF Label
<1>5. QED
  BY <1>1, <1>2, <1>4 DEF Score, AtMost

\* The evidence score counts no document whose object is missing, but for a
\* deletion half-way.
THEOREM EvidenceBacked == Spec => []EvidenceIsBacked
<1>1. IInv => EvidenceIsBacked
  <2> SUFFICES ASSUME IInv PROVE EvidenceIsBacked
    OBVIOUS
  <2> DEFINE backed == {d \in Documents : object[d] # "none" \/ BeingDeleted(d)}
  <2>1. ListDocuments \in SUBSET backed /\ backed \in SUBSET Documents
    BY DEF IInv, NoDanglingRow, ListDocuments
  <2>2. QED
    BY <2>1, ScoreMonotone DEF EvidenceIsBacked
<1>2. QED
  BY <1>1, InvariantHolds, PTL

-------------------------------------------------------------------------------
(* What a user sees of the vault *)

Gone == {d \in Documents : row[d].status = "gone"}

\* Steps that no user can see.
LEMMA HiddenStep ==
    ASSUME \A d \in Documents : /\ row'[d].status = "stored" <=> row[d].status = "stored"
                                /\ row'[d].status = "gone" <=> row[d].status = "gone"
    PROVE  UNCHANGED <<ListDocuments, Gone>>
  BY DEF ListDocuments, Gone

\* The documents that go leave the vault for good.
LEMMA GoingStep ==
    ASSUME NEW docs \in SUBSET Documents,
           \A d \in docs : row'[d].status = "gone",
           \A d \in Documents \ docs : row'[d] = row[d]
    PROVE  VaultPromise!TakeAway(docs)
  BY DEF VaultPromise!TakeAway, ListDocuments, Gone

LEMMA VisibleStep ==
    ASSUME IInv, [Next]_vars
    PROVE  [VaultPromise!Next]_<<ListDocuments, Gone>>
<1> USE DEF IInv
<1>1. CASE UNCHANGED row
  BY <1>1, HiddenStep
<1>2. ASSUME NEW r \in Requests, ReserveInsert(r) PROVE UNCHANGED <<ListDocuments, Gone>>
  <2>1. row[req[r].doc].status = "none" /\ req[r].doc \in Documents
    BY <1>2 DEF ReserveInsert, Reserved, FreshIds, TypeOK, Request
  <2>2. QED
    BY <1>2, <2>1, HiddenStep DEF ReserveInsert, Reserved, TypeOK
<1>3. ASSUME NEW r \in Requests, CompleteDrop(r) \/ DeleteRow(r) PROVE VaultPromise!Next
  <2>1. PICK d \in Documents : row' = [row EXCEPT ![d].status = "gone"]
    BY <1>3 DEF CompleteDrop, DeleteRow, TypeOK, Request
  <2>2. VaultPromise!TakeAway({d})
    BY <2>1, GoingStep DEF TypeOK
  <2>3. QED
    BY <2>2 DEF VaultPromise!Next
<1>4. ASSUME NEW r \in Requests, CompleteMark(r)
      PROVE  [VaultPromise!Next]_<<ListDocuments, Gone>>
  <2>1. PICK d \in Documents : Mark(d, req[r].checksum)
    BY <1>4 DEF CompleteMark, TypeOK, Request
  <2>2. CASE OnFile(d)
    <3>1. row' = [row EXCEPT ![d] = [status |-> "stored", checksum |-> req[r].checksum]]
      BY <2>1, <2>2 DEF Mark
    <3>2. row'[d].status = "stored" /\ \A e \in Documents \ {d} : row'[e] = row[e]
      BY <3>1 DEF TypeOK
    <3>3. d \notin Gone
      BY <2>2 DEF Gone, OnFile
    <3>4. ListDocuments' = ListDocuments \union {d} /\ UNCHANGED Gone
      BY <2>2, <3>2 DEF ListDocuments, Gone, OnFile
    <3>5. VaultPromise!Show(d)
      BY <3>3, <3>4 DEF VaultPromise!Show, Gone
    <3>6. QED
      BY <3>5 DEF VaultPromise!Next
  <2>3. CASE ~OnFile(d)
    BY <1>1, <2>1, <2>3 DEF Mark
  <2>4. QED
    BY <2>2, <2>3
<1>5. ASSUME NEW r \in Requests, EraseCommit(r) PROVE VaultPromise!Next
  <2> DEFINE docs == {d \in Documents : OnFile(d)}
  <2>1. /\ \A d \in docs : row'[d].status = "gone"
        /\ \A d \in Documents \ docs : row'[d] = row[d]
    BY <1>5 DEF EraseCommit, EraseRows, TypeOK
  <2>2. PICK S \in SUBSET Documents : S = docs
    OBVIOUS
  <2>3. VaultPromise!TakeAway(S)
    BY <2>1, <2>2, GoingStep
  <2>4. QED
    BY <2>3 DEF VaultPromise!Next
<1>6. ASSUME NEW r \in Requests,
             \/ Start(r) \/ Fail(r) \/ ReserveRefused(r) \/ CompleteHead(r)
             \/ DeleteObject(r) \/ EraseObject(r) \/ EraseDone(r)
      PROVE  UNCHANGED row
  BY <1>6 DEF Start, ReserveRead, CompleteRead, DeleteRead, EraseRead, Fail, ReserveRefused,
              CompleteHead, Landed, DeleteObject, EraseObject, EraseDone
<1>7. ASSUME NEW d \in Documents, Upload(d) PROVE UNCHANGED row
  BY <1>7, UploadEffect
<1>8. CASE UNCHANGED vars
  BY <1>1, <1>8 DEF vars
<1>9. QED
  BY <1>1, <1>2, <1>3, <1>4, <1>5, <1>6, <1>7, <1>8 DEF Next, Step

\* The routes, with whatever overlaps and fails, keep the promise of the vault:
\* a document appears at most once, and none that was taken away comes back.
THEOREM VaultPromiseKept == Spec => KeepsVaultPromise
<1>1. Init => VaultPromise!Init
  BY DEF Init, VaultPromise!Init, ListDocuments
<1>2. IInv /\ [Next]_vars => [VaultPromise!Next]_<<ListDocuments, Gone>>
  BY VisibleStep
<1>3. QED
  BY <1>1, <1>2, InvariantHolds, PTL DEF Spec, KeepsVaultPromise, VaultPromise!Spec, Gone
=============================================================================
