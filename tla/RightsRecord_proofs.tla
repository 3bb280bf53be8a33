-------------------------- MODULE RightsRecord_proofs --------------------------
(***************************************************************************)
(* Proofs about RightsRecord for any requests, contributors, splits and    *)
(* bounds: the inductive invariant IInv, the safety properties that follow *)
(* from it, the refinement of ReviewLinks, and the properties that hold    *)
(* but for what the pairs of handlers that have overlapped can break.      *)
(***************************************************************************)
EXTENDS RightsRecord, FiniteSetTheorems, TLAPS

USE WholeAssumption, BoundsAssumption, SavesAssumption

-------------------------------------------------------------------------------
(* Facts about the operators *)

\* A link is a contributor of the workspace with a serial number.
LEMMA LinkIdMember ==
    /\ \A l \in LinkId : /\ l = <<l[1], l[2]>>
                         /\ l[1] \in Contributors
                         /\ l[2] \in 1..MaxLinks[l[1]]
    /\ \A c \in Contributors, n \in Nat :
          n \in 1..MaxLinks[c] => <<c, n>> \in LinkId
  BY DEF LinkId

\* When the versions are 1..n, the latest is n.
LEMMA LatestOfInterval ==
    ASSUME NEW n \in VersionNo, Existing = 1..n
    PROVE  Latest = n
<1>1. /\ n \in 1..n
      /\ \A y \in 1..n : n >= y
  BY DEF VersionNo
<1>2. \A m \in 1..n : (\A y \in 1..n : m >= y) => m = n
  BY DEF VersionNo
<1>3. QED
  BY <1>1, <1>2 DEF Latest, Max

\* Saving a valid body leaves whole numbers of basis points up to 100%.
LEMMA PutType ==
    ASSUME NEW split \in [Parts -> 0..Whole], NEW save \in Saves
    PROVE  Put(split, save) \in [Parts -> 0..Whole]
  BY DEF Put

\* An idle request has the fields of a request.
LEMMA IdleType == Idle \in Request
  BY DEF Idle, Request, VersionStatus, Places

\* A request that moves on keeps its other fields.
LEMMA MoveType ==
    ASSUME NEW q \in Request, NEW step \in Places
    PROVE  /\ [q EXCEPT !.at = step] \in Request
           /\ [q EXCEPT !.at = step].at = step
           /\ [q EXCEPT !.at = step].ver = q.ver
           /\ [q EXCEPT !.at = step].link = q.link
           /\ [q EXCEPT !.at = step].action = q.action
  BY DEF Request

-------------------------------------------------------------------------------
(* Facts about the steps *)

\* Existing versions are version numbers.
LEMMA ExistingType == Existing \subseteq VersionNo
  BY DEF Existing

LEMMA RowMembers ==
    /\ SongRow \in Row
    /\ \A v \in VersionNo : VersionRow(v) \in Row
    /\ \A l \in LinkId : LinkRow(l) \in Row
    /\ \A v \in VersionNo, c \in Contributors : AnswerRow(v, c) \in Row
  BY DEF Row

\* What a request waits for are locks of its own on rows that exist.
LEMMA WantedType ==
    ASSUME IInv, NEW r \in Requests
    PROVE  Wanted(r) \subseteq [by : {r}, row : Row, mode : Modes]
<1> DEFINE q == req[r]
<1>1. q \in Request
  BY DEF IInv, TypeOK, RequestsTypeOK
<1>2. q.targets \subseteq LinkId
  BY <1>1 DEF Request
<1>3. q.at # "idle" => q.ver \in VersionNo
  BY ExistingType DEF IInv, ReadsFit, ReadsFitOf
<1>4. q.at \in RespondSteps => q.link \in LinkId /\ q.link[1] \in Contributors
  BY LinkIdMember DEF IInv, ReadsFit, ReadsFitOf
<1>5. /\ SongRow \in Row
      /\ q.at # "idle" => VersionRow(q.ver) \in Row
      /\ q.at \in RespondSteps =>
            /\ LinkRow(q.link) \in Row
            /\ AnswerRow(q.ver, q.link[1]) \in Row
      /\ \A l \in q.targets : LinkRow(l) \in Row
  <2>1. q.at \in RespondSteps => q.at # "idle"
    BY DEF RespondSteps, AnswerSteps
  <2> HIDE DEF q
  <2>2. QED
    BY <1>2, <1>3, <1>4, <2>1, RowMembers
<1>6. \A row \in Row, m \in Modes : Lock(r, row, m) \in [by : {r}, row : Row, mode : Modes]
  BY DEF Lock
<1>7. "keyShare" \in Modes /\ "update" \in Modes /\ "forUpdate" \in Modes
  BY DEF Modes
<1> HIDE DEF q
<1>8. QED
  BY <1>5, <1>6, <1>7 DEF Wanted, q, RespondSteps, AnswerSteps

\* Taking locks that are granted leaves all locks compatible.
LEMMA TakeLocks ==
    ASSUME IInv, NEW r \in Requests, Take(r)
    PROVE  /\ locks' \subseteq [by : Requests, row : Row, mode : Modes]
           /\ LocksCompatible'
           /\ locks' = locks \union Wanted(r)
<1>1. Wanted(r) \subseteq [by : {r}, row : Row, mode : Modes]
  BY WantedType
<1>2. locks' = locks \union Wanted(r)
  BY DEF Take
<1>3. \A h \in locks, w \in Wanted(r) :
         h.row = w.row /\ Conflicting(h.mode, w.mode) => h.by = r
  BY DEF Take, Granted, Blockers, IInv, TypeOK, RequestsTypeOK
<1>4. \A m, n : Conflicting(m, n) <=> Conflicting(n, m)
  BY DEF Conflicting
<1>5. LocksCompatible'
  BY <1>1, <1>2, <1>3, <1>4 DEF LocksCompatible, IInv
<1>6. QED
  BY <1>1, <1>2, <1>5 DEF IInv, TypeOK, RequestsTypeOK

\* Releasing the locks of a request leaves those of the others.
LEMMA EndLocks ==
    ASSUME IInv, NEW r \in Requests, End(r)
    PROVE  /\ RequestsTypeOK'
           /\ LocksCompatible'
           /\ \A h \in locks : h.by # r => h \in locks'
           /\ \A s \in Requests \ {r} : req'[s] = req[s]
           /\ req'[r].at = "idle"
           /\ ReadsFitOf(r)'
           /\ AnswerIsExclusiveOf(r)'
<1>1. req' = [req EXCEPT ![r] = Idle] /\ locks' = {h \in locks : h.by # r}
  BY DEF End
<1>2. req'[r] = Idle /\ \A s \in Requests \ {r} : req'[s] = req[s]
  BY <1>1 DEF IInv, TypeOK, RequestsTypeOK
<1>3. RequestsTypeOK'
  BY <1>1, IdleType DEF IInv, TypeOK, RequestsTypeOK
<1>4. LocksCompatible'
  BY <1>1 DEF LocksCompatible, IInv
<1>5. req'[r].at = "idle"
  BY <1>2 DEF Idle
<1>6. ReadsFitOf(r)' /\ AnswerIsExclusiveOf(r)'
  BY <1>5 DEF ReadsFitOf, AnswerIsExclusiveOf, BumpSteps, RespondSteps, AnswerSteps
<1>7. QED
  BY <1>1, <1>2, <1>3, <1>4, <1>5, <1>6

\* What the other requests have read still fits after a step of r that keeps
\* rows, and that does not answer a link another request has locked.
LEMMA OthersFit ==
    ASSUME IInv, NEW r \in Requests,
           \A s \in Requests \ {r} : req'[s] = req[s],
           Existing \subseteq Existing',
           \A v \in VersionNo : version[v].confirmedAt => version'[v].confirmedAt,
           \A l \in LinkId : link[l].status # "none" =>
               link'[l].status # "none" /\ link'[l].version = link[l].version,
           \A l \in LinkId, s \in Requests \ {r} :
               Lock(s, LinkRow(l), "forUpdate") \in locks => link'[l].used = link[l].used,
           \A h \in locks : h.by # r => h \in locks',
           ReadsFitOf(r)', AnswerIsExclusiveOf(r)'
    PROVE  ReadsFit' /\ AnswerIsExclusive'
<1>1. ASSUME NEW s \in Requests \ {r}
      PROVE  ReadsFitOf(s)' /\ AnswerIsExclusiveOf(s)'
  <2>1. ReadsFitOf(s) /\ AnswerIsExclusiveOf(s)
    BY DEF IInv, ReadsFit, AnswerIsExclusive
  <2>2. req'[s] = req[s]
    BY <1>1
  <2>3. ReadsFitOf(s)'
    <3>1. req[s].at # "idle" => req[s].ver \in VersionNo
      BY <2>1, ExistingType DEF ReadsFitOf
    <3>2. req[s].at = "generateCommit" => req[s].at # "idle"
      OBVIOUS
    <3>3. QED
      BY <2>1, <2>2, <3>1, <3>2 DEF ReadsFitOf
  <2>4. AnswerIsExclusiveOf(s)'
    <3> SUFFICES ASSUME req[s].at \in AnswerSteps
                 PROVE  /\ Lock(s, LinkRow(req[s].link), "forUpdate") \in locks'
                        /\ ~link'[req[s].link].used
      BY <2>2 DEF AnswerIsExclusiveOf
    <3>1. req[s].link \in LinkId
      BY <2>1 DEF ReadsFitOf, RespondSteps
    <3>2. Lock(s, LinkRow(req[s].link), "forUpdate") \in locks
      BY <2>1 DEF AnswerIsExclusiveOf
    <3>3. QED
      BY <2>1, <3>1, <3>2 DEF AnswerIsExclusiveOf, Lock
  <2>5. QED
    BY <2>3, <2>4
<1>2. QED
  BY <1>1 DEF ReadsFit, AnswerIsExclusive

\* A step that leaves the tables alone preserves the invariant when the locks
\* and the fields of its own request are right.
LEMMA TablesUnchanged ==
    ASSUME IInv, NEW r \in Requests, UNCHANGED db,
           RequestsTypeOK', LocksCompatible',
           \A s \in Requests \ {r} : req'[s] = req[s],
           \A h \in locks : h.by # r => h \in locks',
           ReadsFitOf(r)', AnswerIsExclusiveOf(r)'
    PROVE  IInv'
<1> USE DEF db
<1>1. TypeOK'
  BY DEF IInv, TypeOK, TablesTypeOK
<1>2. Existing' = Existing
  BY DEF Existing
<1>3. CurrentVersionIsLatest'
  BY <1>2 DEF IInv, CurrentVersionIsLatest, Latest
<1>4. LinksConsistent' /\ ConfirmationHasAgreement' /\ AnswersHaveLinks'
  BY <1>2 DEF IInv, LinksConsistent, ConfirmationHasAgreement, AnswersHaveLinks
<1>5. ReadsFit' /\ AnswerIsExclusive'
  BY <1>2, OthersFit
<1>6. QED
  BY <1>1, <1>3, <1>4, <1>5 DEF IInv

\* A transaction that ends without a write preserves the invariant.
LEMMA RollbackStep ==
    ASSUME IInv, NEW r \in Requests, Rollback(r)
    PROVE  IInv'
  BY EndLocks, TablesUnchanged DEF Rollback

\* A request that goes on to another statement preserves it when what it has
\* read fits that statement too.
LEMMA GotoStep ==
    ASSUME IInv, NEW r \in Requests, NEW step, UNCHANGED db, Goto(r, step),
           req[r].at # "idle",
           step \in {"saveCommit", "bumpCommit", "inviteNext", "inviteIssue", "inviteSong",
                     "inviteCommit"} \union AnswerSteps,
           step \in BumpSteps => req[r].at \in BumpSteps,
           step \in AnswerSteps => req[r].at \in RespondSteps,
           step \in AnswerSteps =>
               Lock(r, LinkRow(req[r].link), "forUpdate") \in locks' /\ ~link[req[r].link].used,
           locks \subseteq locks',
           locks' \subseteq [by : Requests, row : Row, mode : Modes],
           LocksCompatible'
    PROVE  IInv'
<1>1. req' = [req EXCEPT ![r].at = step] /\ req[r] \in Request
  BY DEF Goto, IInv, TypeOK, RequestsTypeOK
<1>2. req'[r] = [req[r] EXCEPT !.at = step] /\ \A s \in Requests \ {r} : req'[s] = req[s]
  BY <1>1 DEF IInv, TypeOK, RequestsTypeOK
<1>3. step \in Places
  BY DEF Places, AnswerSteps
<1>4. RequestsTypeOK'
  BY <1>1, <1>2, <1>3, MoveType DEF IInv, TypeOK, RequestsTypeOK
<1>5. /\ req'[r].at = step
      /\ req'[r].ver = req[r].ver
      /\ req'[r].link = req[r].link
      /\ req'[r].action = req[r].action
  <2>1. /\ [req[r] EXCEPT !.at = step].at = step
        /\ [req[r] EXCEPT !.at = step].ver = req[r].ver
        /\ [req[r] EXCEPT !.at = step].link = req[r].link
        /\ [req[r] EXCEPT !.at = step].action = req[r].action
    BY <1>1, <1>3, MoveType
  <2>2. QED
    BY <1>2, <2>1, Zenon
<1>6. ReadsFitOf(r)'
  <2>1. ReadsFitOf(r)
    BY DEF IInv, ReadsFit
  <2>2. Existing' = Existing
    BY DEF Existing, db
  <2>3. step # "generateCommit" /\ (step \in RespondSteps => step \in AnswerSteps)
    BY DEF RespondSteps, AnswerSteps
  <2>4. QED
    BY <1>5, <2>1, <2>2, <2>3 DEF ReadsFitOf, db
<1>7. AnswerIsExclusiveOf(r)'
  BY <1>5 DEF AnswerIsExclusiveOf, db
<1>8. QED
  BY <1>2, <1>4, <1>6, <1>7, TablesUnchanged

-------------------------------------------------------------------------------
(* Every step preserves the invariant *)

LEMMA LatestExists == IInv => Latest \in Existing /\ Latest \in VersionNo
  BY DEF IInv, CurrentVersionIsLatest, TypeOK, TablesTypeOK, VersionNo

\* A request begins with fields that fit the rows it has read.
LEMMA BeginStep ==
    ASSUME IInv, NEW r \in Requests, NEW q \in Request, Begin(r, q),
           q.at \notin AnswerSteps,
           q.ver \in Existing,
           q.at \in BumpSteps => q.ver < MaxVersion,
           q.at \in RespondSteps =>
               /\ q.link \in LinkId
               /\ q.action \in Actions
               /\ link[q.link].status # "none"
               /\ link[q.link].version = q.ver,
           q.at = "generateCommit" /\ q.seen = "confirmed" => version[q.ver].confirmedAt
    PROVE  IInv'
<1>1. req' = [req EXCEPT ![r] = q] /\ UNCHANGED db /\ locks' = locks
  BY DEF Begin
<1>2. req'[r] = q /\ \A s \in Requests \ {r} : req'[s] = req[s]
  BY <1>1 DEF IInv, TypeOK, RequestsTypeOK
<1>3. RequestsTypeOK' /\ LocksCompatible'
  BY <1>1 DEF IInv, TypeOK, RequestsTypeOK, LocksCompatible
<1>4. Existing' = Existing
  BY <1>1 DEF Existing, db
<1>5. ReadsFitOf(r)'
  BY <1>1, <1>2, <1>4 DEF ReadsFitOf, db
<1>6. AnswerIsExclusiveOf(r)'
  BY <1>2 DEF AnswerIsExclusiveOf
<1>7. QED
  BY <1>1, <1>2, <1>3, <1>5, <1>6, TablesUnchanged

LEMMA StartStep ==
    ASSUME IInv, NEW r \in Requests, Start(r)
    PROVE  IInv'
<1> USE DEF AnswerSteps, BumpSteps, RespondSteps
<1>1. CASE SaveRead(r)
  <2>1. PICK save \in Saves :
          Begin(r, [Idle EXCEPT !.at = "saveLock", !.save = save, !.ver = Latest,
                                !.seen = version[Latest].status])
    BY <1>1 DEF SaveRead
  <2> DEFINE q == [Idle EXCEPT !.at = "saveLock", !.save = save, !.ver = Latest,
                               !.seen = version[Latest].status]
  <2>2. version[Latest].status \in VersionStatus
    BY LatestExists DEF IInv, TypeOK, TablesTypeOK
  <2>3. q \in Request
    BY <2>2, LatestExists DEF Idle, Request, Places
  <2>4. q.at = "saveLock" /\ q.ver = Latest
    BY DEF Idle
  <2> HIDE DEF q
  <2>5. QED
    BY <2>1, <2>3, <2>4, LatestExists, BeginStep DEF q
<1>2. CASE BumpRead(r)
  <2> DEFINE q == [Idle EXCEPT !.at = "bumpLock", !.ver = Latest]
  <2>1. Latest < MaxVersion /\ Begin(r, q)
    BY <1>2 DEF BumpRead
  <2>2. q \in Request
    BY LatestExists DEF Idle, Request, Places, VersionStatus
  <2>3. q.at = "bumpLock" /\ q.ver = Latest
    BY DEF Idle
  <2> HIDE DEF q
  <2>4. QED
    BY <2>1, <2>2, <2>3, LatestExists, BeginStep
<1>3. CASE InviteRead(r)
  <2>1. PICK who \in SUBSET Contributors :
          Begin(r, [Idle EXCEPT !.at = "inviteCheck", !.ver = Latest, !.who = who])
    BY <1>3 DEF InviteRead
  <2> DEFINE q == [Idle EXCEPT !.at = "inviteCheck", !.ver = Latest, !.who = who]
  <2>2. q \in Request
    BY LatestExists DEF Idle, Request, Places, VersionStatus
  <2>3. q.at = "inviteCheck" /\ q.ver = Latest
    BY DEF Idle
  <2>4. Begin(r, q)
    BY <2>1
  <2> HIDE DEF q
  <2>5. QED
    BY <2>2, <2>3, <2>4, LatestExists, BeginStep
<1>4. CASE RespondLoad(r)
  <2>1. PICK l \in LinkId, action \in Actions :
          /\ Usable(l)
          /\ Begin(r, [Idle EXCEPT !.at = "respondLock", !.link = l,
                                   !.action = action, !.ver = link[l].version])
    BY <1>4 DEF RespondLoad
  <2> DEFINE q == [Idle EXCEPT !.at = "respondLock", !.link = l,
                               !.action = action, !.ver = link[l].version]
  <2>2. link[l].status # "none" /\ link[l].version \in Existing
    BY <2>1 DEF Usable, IInv, LinksConsistent
  <2>3. q \in Request
    BY <2>2, ExistingType DEF Idle, Request, Places, VersionStatus
  <2>4. q.at = "respondLock" /\ q.ver = link[l].version /\ q.link = l /\ q.action = action
    BY DEF Idle
  <2>5. Begin(r, q)
    BY <2>1
  <2> HIDE DEF q
  <2>6. QED
    BY <2>2, <2>3, <2>4, <2>5, BeginStep
<1>5. CASE GenerateRead(r)
  <2> DEFINE q == [Idle EXCEPT !.at = "generateCommit", !.ver = Latest,
                               !.seen = version[Latest].status]
  <2>1. Begin(r, q)
    BY <1>5 DEF GenerateRead
  <2>2. version[Latest].status \in VersionStatus
    BY LatestExists DEF IInv, TypeOK, TablesTypeOK
  <2>3. q \in Request
    BY <2>2, LatestExists DEF Idle, Request, Places
  <2>4. q.at = "generateCommit" /\ q.ver = Latest /\ q.seen = version[Latest].status
    BY DEF Idle
  <2>5. version[Latest].status = "confirmed" => version[Latest].confirmedAt
    BY LatestExists DEF IInv, ConfirmationHasAgreement
  <2> HIDE DEF q
  <2>6. QED
    BY <2>1, <2>3, <2>4, <2>5, LatestExists, BeginStep
<1>6. QED
  BY <1>1, <1>2, <1>3, <1>4, <1>5 DEF Start

\* What an UPDATE of several links, or the next round of a loop, leaves: q is
\* the request with other targets, and with what it has read as it was.
LEMMA RetargetStep ==
    ASSUME IInv, NEW r \in Requests, NEW q \in Request, UNCHANGED db,
           req' = [req EXCEPT ![r] = q],
           req[r].at # "idle", q.ver = req[r].ver,
           q.at \in {"bumpRevoke", "inviteIssue"},
           q.at = "bumpRevoke" => req[r].at = "bumpLock",
           locks \subseteq locks',
           locks' \subseteq [by : Requests, row : Row, mode : Modes],
           LocksCompatible'
    PROVE  IInv'
<1> USE DEF AnswerSteps, BumpSteps, RespondSteps
<1>1. req'[r] = q /\ \A s \in Requests \ {r} : req'[s] = req[s]
  BY DEF IInv, TypeOK, RequestsTypeOK
<1>2. RequestsTypeOK'
  BY DEF IInv, TypeOK, RequestsTypeOK
<1>3. ReadsFitOf(r)
  BY DEF IInv, ReadsFit
<1>4. Existing' = Existing
  BY DEF Existing, db
<1>5. ReadsFitOf(r)'
  BY <1>1, <1>3, <1>4 DEF ReadsFitOf
<1>6. AnswerIsExclusiveOf(r)'
  BY <1>1 DEF AnswerIsExclusiveOf
<1>7. QED
  BY <1>1, <1>2, <1>5, <1>6, TablesUnchanged

\* The steps of a save, a bump and an invitation before the COMMIT.
LEMMA OwnerSteps ==
    ASSUME IInv, NEW r \in Requests,
           \/ SaveLock(r) \/ BumpLock(r) \/ BumpRevoke(r)
           \/ InviteCheck(r) \/ InviteNext(r) \/ InviteIssue(r) \/ InviteSong(r)
    PROVE  IInv'
<1> USE DEF AnswerSteps, BumpSteps, RespondSteps
<1>0. req[r] \in Request /\ req \in [Requests -> Request]
  BY DEF IInv, TypeOK, RequestsTypeOK
<1>1. CASE SaveLock(r)
  BY <1>1, TakeLocks, GotoStep DEF SaveLock
<1>2. CASE BumpRevoke(r)
  BY <1>2, TakeLocks, GotoStep DEF BumpRevoke
<1>3. CASE InviteSong(r)
  BY <1>3, TakeLocks, GotoStep DEF InviteSong
<1>4. CASE InviteCheck(r)
  <2>1. locks' \subseteq [by : Requests, row : Row, mode : Modes] /\ LocksCompatible'
    BY <1>4 DEF InviteCheck, IInv, TypeOK, RequestsTypeOK, LocksCompatible
  <2>2. CASE req[r].who = {}
    BY <1>4, <2>1, <2>2, GotoStep DEF InviteCheck, NextInvitation
  <2>3. CASE req[r].who # {}
    BY <1>4, <2>1, <2>3, GotoStep DEF InviteCheck, NextInvitation
  <2>4. QED
    BY <2>2, <2>3
<1>5. CASE InviteIssue(r)
  <2>1. CASE req[r].who = {}
    BY <1>5, <2>1, TakeLocks, GotoStep DEF InviteIssue, NextInvitation
  <2>2. CASE req[r].who # {}
    BY <1>5, <2>2, TakeLocks, GotoStep DEF InviteIssue, NextInvitation
  <2>3. QED
    BY <2>1, <2>2
<1>6. CASE BumpLock(r)
  <2> DEFINE links == {l \in LinkId : Outstanding(l) /\ link[l].version = req[r].ver}
             q == [req[r] EXCEPT !.at = "bumpRevoke", !.targets = links]
  <2>1. links \subseteq LinkId
    OBVIOUS
  <2>2. req' = [req EXCEPT ![r] = q] /\ Take(r) /\ req[r].at = "bumpLock" /\ UNCHANGED db
    BY <1>6 DEF BumpLock
  <2> HIDE DEF links
  <2>3. q \in Request /\ q.at = "bumpRevoke" /\ q.ver = req[r].ver
    BY <1>0, <2>1 DEF Request, Places
  <2> HIDE DEF q
  <2>4. QED
    BY <2>2, <2>3, TakeLocks, RetargetStep
<1>7. CASE InviteNext(r)
  <2>1. PICK c \in req[r].who :
          req' = [req EXCEPT ![r].at = "inviteIssue",
                             ![r].who = @ \ {c},
                             ![r].made = @ \union {c},
                             ![r].targets = @ \union {l \in LinkId : l[1] = c /\ Outstanding(l)}]
    BY <1>7 DEF InviteNext
  <2> DEFINE links == {l \in LinkId : l[1] = c /\ Outstanding(l)}
             q == [req[r] EXCEPT !.at = "inviteIssue", !.who = @ \ {c},
                                 !.made = @ \union {c}, !.targets = @ \union links]
  <2>2. links \subseteq LinkId /\ req[r].targets \subseteq LinkId
        /\ req[r].who \subseteq Contributors /\ req[r].made \subseteq Contributors
    BY <1>0 DEF Request
  <2>3. req' = [req EXCEPT ![r] = q]
    BY <1>0, <2>1
  <2> HIDE DEF links
  <2>4. q \in Request /\ q.at = "inviteIssue" /\ q.ver = req[r].ver
    BY <1>0, <2>2 DEF Request, Places
  <2>5. locks' \subseteq [by : Requests, row : Row, mode : Modes] /\ LocksCompatible'
    BY <1>7 DEF InviteNext, IInv, TypeOK, RequestsTypeOK, LocksCompatible
  <2>6. req[r].at = "inviteNext" /\ UNCHANGED <<db, locks>>
    BY <1>7 DEF InviteNext
  <2> HIDE DEF q
  <2>7. QED
    BY <2>3, <2>4, <2>5, <2>6, RetargetStep
<1>8. QED
  BY <1>1, <1>2, <1>3, <1>4, <1>5, <1>6, <1>7

\* The steps of an answer before the COMMIT.
LEMMA AnswerStepsBefore ==
    ASSUME IInv, NEW r \in Requests,
           \/ RespondLock(r) \/ RespondRecord(r) \/ RespondValidate(r) \/ RespondMark(r)
    PROVE  IInv'
<1> USE DEF AnswerSteps, BumpSteps, RespondSteps
<1>0. /\ req[r] \in Request /\ req \in [Requests -> Request]
      /\ ReadsFitOf(r) /\ AnswerIsExclusiveOf(r)
  BY DEF IInv, TypeOK, RequestsTypeOK, ReadsFit, AnswerIsExclusive
<1>1. CASE RespondLock(r)
  <2>1. Lock(r, LinkRow(req[r].link), "forUpdate") \in Wanted(r)
    BY <1>1 DEF RespondLock, Wanted
  <2>2. QED
    BY <1>1, <2>1, TakeLocks, GotoStep DEF RespondLock
<1>2. CASE RespondRecord(r)
  <2>1. Lock(r, LinkRow(req[r].link), "forUpdate") \in locks /\ ~link[req[r].link].used
    BY <1>0, <1>2 DEF RespondRecord, AnswerIsExclusiveOf
  <2>2. CASE req[r].action = "confirmed"
    BY <1>2, <2>1, <2>2, TakeLocks, GotoStep DEF RespondRecord
  <2>3. CASE req[r].action # "confirmed"
    BY <1>2, <2>1, <2>3, TakeLocks, GotoStep DEF RespondRecord
  <2>4. QED
    BY <2>2, <2>3
<1>3. CASE RespondMark(r)
  <2>1. Lock(r, LinkRow(req[r].link), "forUpdate") \in locks /\ ~link[req[r].link].used
    BY <1>0, <1>3 DEF RespondMark, AnswerIsExclusiveOf
  <2>2. QED
    BY <1>3, <2>1, TakeLocks, GotoStep DEF RespondMark
<1>4. CASE RespondValidate(r)
  <2> DEFINE ok == Agreed(shares[req[r].ver], AnswersSeen(r))
             q == [req[r] EXCEPT !.valid = ok, !.at = IF ok THEN "respondMark" ELSE "respondCommit"]
  <2>1. ok \in BOOLEAN
    BY DEF Agreed, Balanced
  <2>2. req' = [req EXCEPT ![r] = q] /\ UNCHANGED <<db, locks>> /\ req[r].at = "respondValidate"
    BY <1>4 DEF RespondValidate
  <2> HIDE DEF ok
  <2>3. /\ q \in Request
        /\ q.at \in {"respondMark", "respondCommit"}
        /\ q.ver = req[r].ver /\ q.link = req[r].link /\ q.action = req[r].action
    BY <1>0, <2>1 DEF Request, Places
  <2> HIDE DEF q
  <2>4. req'[r] = q /\ \A s \in Requests \ {r} : req'[s] = req[s]
    BY <1>0, <2>2
  <2>5. RequestsTypeOK' /\ LocksCompatible'
    BY <1>0, <2>2, <2>3 DEF IInv, TypeOK, RequestsTypeOK, LocksCompatible
  <2>6. Existing' = Existing
    BY <2>2 DEF Existing, db
  <2>7. ReadsFitOf(r)' /\ AnswerIsExclusiveOf(r)'
    BY <1>0, <2>2, <2>3, <2>4, <2>6 DEF ReadsFitOf, AnswerIsExclusiveOf, db
  <2>8. QED
    BY <2>2, <2>4, <2>5, <2>7, TablesUnchanged
<1>5. QED
  BY <1>1, <1>2, <1>3, <1>4

\* A COMMIT preserves the invariant when the rows it writes are consistent.
LEMMA CommitStep ==
    ASSUME IInv, NEW r \in Requests, End(r),
           TablesTypeOK', CurrentVersionIsLatest', LinksConsistent',
           ConfirmationHasAgreement', AnswersHaveLinks',
           Existing \subseteq Existing',
           \A v \in VersionNo : version[v].confirmedAt => version'[v].confirmedAt,
           \A l \in LinkId : link[l].status # "none" =>
               link'[l].status # "none" /\ link'[l].version = link[l].version,
           \A l \in LinkId, s \in Requests \ {r} :
               Lock(s, LinkRow(l), "forUpdate") \in locks => link'[l].used = link[l].used
    PROVE  IInv'
<1>1. ReadsFit' /\ AnswerIsExclusive'
  BY EndLocks, OthersFit
<1>2. QED
  BY <1>1, EndLocks DEF IInv, TypeOK

\* Writes to the status columns of an existing version keep the versions.
LEMMA StatusWritten ==
    ASSUME IInv, NEW v \in Existing, NEW status \in {"draft", "proposed", "confirmed"},
           version' = [version EXCEPT ![v].status = status],
           song'.current = song.current
    PROVE  /\ Existing' = Existing
           /\ CurrentVersionIsLatest'
           /\ \A w \in VersionNo : version'[w].confirmedAt = version[w].confirmedAt
           /\ \A w \in VersionNo : version'[w].status = IF w = v THEN status ELSE version[w].status
           /\ version' \in [VersionNo -> [status : VersionStatus, confirmedAt : BOOLEAN]]
<1>1. version \in [VersionNo -> [status : VersionStatus, confirmedAt : BOOLEAN]] /\ v \in VersionNo
  BY ExistingType DEF IInv, TypeOK, TablesTypeOK
<1>2. status \in VersionStatus
  BY DEF VersionStatus
<1>3. /\ \A w \in VersionNo : version'[w].confirmedAt = version[w].confirmedAt
      /\ \A w \in VersionNo : version'[w].status = IF w = v THEN status ELSE version[w].status
      /\ version' \in [VersionNo -> [status : VersionStatus, confirmedAt : BOOLEAN]]
  BY <1>1, <1>2
<1>4. Existing' = Existing
  BY <1>1, <1>3 DEF Existing
<1>5. CurrentVersionIsLatest'
  BY <1>4 DEF IInv, CurrentVersionIsLatest, Latest
<1>6. QED
  BY <1>3, <1>4, <1>5

\* Answers on file keep their links when answered links are left alone.
LEMMA AnswersKept ==
    ASSUME IInv, answer' = answer,
           \A l \in LinkId : link[l].used => link'[l] = link[l]
    PROVE  AnswersHaveLinks'
<1> SUFFICES ASSUME NEW v \in VersionNo, NEW c \in Contributors, answer[v][c] # "none"
             PROVE  \E n \in 1..MaxLinks[c] : /\ link'[<<c, n>>].version = v
                                              /\ link'[<<c, n>>].used
                                              /\ link'[<<c, n>>].status = answer[v][c]
  BY DEF AnswersHaveLinks
<1>1. PICK n \in 1..MaxLinks[c] : /\ link[<<c, n>>].version = v
                                  /\ link[<<c, n>>].used
                                  /\ link[<<c, n>>].status = answer[v][c]
  BY DEF IInv, AnswersHaveLinks
<1>2. <<c, n>> \in LinkId
  BY LinkIdMember
<1>3. QED
  BY <1>1, <1>2

\* Withdrawing links touches outstanding ones only, and only their status.
LEMMA RevokedLinks ==
    ASSUME IInv, NEW targets, NEW l \in LinkId
    PROVE  /\ Revoked(targets)[l] \in [status : LinkStatus, version : {0} \union VersionNo,
                                       used : BOOLEAN, revoked : BOOLEAN]
           /\ Revoked(targets)[l].used = link[l].used
           /\ Revoked(targets)[l].version = link[l].version
           /\ Revoked(targets)[l].status # link[l].status =>
                 Outstanding(l) /\ Revoked(targets)[l].status = "revoked"
           /\ link[l].used => Revoked(targets)[l] = link[l]
<1>1. link[l] \in [status : LinkStatus, version : {0} \union VersionNo,
                   used : BOOLEAN, revoked : BOOLEAN]
  BY DEF IInv, TypeOK, TablesTypeOK
<1>2. link[l].used => ~Outstanding(l)
  BY DEF IInv, LinksConsistent, Outstanding, Actions
<1>3. CASE l \in targets /\ Outstanding(l)
  <2>1. Revoked(targets)[l] = [link[l] EXCEPT !.status = "revoked", !.revoked = TRUE]
    BY <1>3 DEF Revoked
  <2>2. QED
    BY <1>1, <1>2, <1>3, <2>1 DEF LinkStatus
<1>4. CASE ~(l \in targets /\ Outstanding(l))
  <2>1. Revoked(targets)[l] = link[l]
    BY <1>4 DEF Revoked
  <2>2. QED
    BY <1>1, <2>1
<1>5. QED
  BY <1>3, <1>4

LEMMA SaveCommitStep ==
    ASSUME IInv, NEW r \in Requests, SaveCommit(r)
    PROVE  IInv'
<1> DEFINE v == req[r].ver
           split == Put(shares[v], req[r].save)
           status == IF Balanced(split) THEN "proposed" ELSE "draft"
<1>1. req[r].at = "saveCommit" /\ req[r] \in Request
  BY DEF SaveCommit, IInv, TypeOK, RequestsTypeOK
<1>2. v \in Existing /\ v \in VersionNo
  BY <1>1, ExistingType DEF IInv, ReadsFit, ReadsFitOf
<1>3. /\ shares' = [shares EXCEPT ![v] = split]
      /\ version' = [version EXCEPT ![v].status = status]
      /\ song' = [song EXCEPT !.status = status]
      /\ End(r)
      /\ UNCHANGED <<answer, link, expired, agreements>>
  BY DEF SaveCommit, Commit
<1>4. TablesTypeOK
  BY DEF IInv, TypeOK
<1>5. split \in [Parts -> 0..Whole]
  <2>1. shares[v] \in [Parts -> 0..Whole] /\ req[r].save \in Saves \union {<<>>}
    BY <1>1, <1>2, <1>4 DEF TablesTypeOK, Request
  <2>2. CASE req[r].save \in Saves
    BY <2>1, <2>2, PutType
  <2>3. CASE req[r].save = <<>>
    BY <2>1, <2>3 DEF Put
  <2>4. QED
    BY <2>1, <2>2, <2>3
<1>6. status \in {"draft", "proposed", "confirmed"} /\ status # "confirmed"
  OBVIOUS
<1> HIDE DEF split, status
<1>7. song'.current = song.current /\ song' \in [status : SongStatus, current : VersionNo]
  BY <1>3, <1>4, <1>6 DEF TablesTypeOK, SongStatus
<1>8. /\ Existing' = Existing
      /\ CurrentVersionIsLatest'
      /\ \A w \in VersionNo : version'[w].confirmedAt = version[w].confirmedAt
      /\ \A w \in VersionNo : version'[w].status = IF w = v THEN status ELSE version[w].status
      /\ version' \in [VersionNo -> [status : VersionStatus, confirmedAt : BOOLEAN]]
  <2> HIDE DEF v
  <2>1. version' = [version EXCEPT ![v].status = status] /\ song'.current = song.current
    BY <1>3, <1>7
  <2>2. QED
    BY ONLY IInv, <1>2, <1>6, <2>1, StatusWritten
<1>9. TablesTypeOK'
  BY <1>2, <1>3, <1>4, <1>5, <1>7, <1>8 DEF TablesTypeOK
<1>10. LinksConsistent' /\ AnswersHaveLinks'
  <2>1. LinksConsistent'
    BY <1>3, <1>8 DEF IInv, LinksConsistent
  <2>2. QED
    BY <1>3, <2>1, AnswersKept
<1>11. ConfirmationHasAgreement'
  BY <1>3, <1>6, <1>8 DEF IInv, ConfirmationHasAgreement
<1>12. QED
  BY <1>3, <1>8, <1>9, <1>10, <1>11, CommitStep

LEMMA InviteCommitStep ==
    ASSUME IInv, NEW r \in Requests, InviteCommit(r)
    PROVE  IInv'
<1> DEFINE v == req[r].ver
           issued(l) == NewLink(l, req[r].made)
           targets == req[r].targets
<1>1. req[r].at = "inviteCommit"
  BY DEF InviteCommit
<1>2. v \in Existing /\ v \in VersionNo
  BY <1>1, ExistingType DEF IInv, ReadsFit, ReadsFitOf
<1>3. /\ link' = [l \in LinkId |-> IF issued(l)
                                   THEN [status |-> "pending", version |-> v,
                                         used |-> FALSE, revoked |-> FALSE]
                                   ELSE Revoked(targets)[l]]
      /\ song' = [song EXCEPT !.status = "proposed"]
      /\ version' = [version EXCEPT ![v].status = "proposed"]
      /\ End(r)
      /\ UNCHANGED <<shares, answer, expired, agreements>>
  BY DEF InviteCommit, Commit
<1>4. TablesTypeOK
  BY DEF IInv, TypeOK
<1>5. \A l \in LinkId : issued(l) => link[l].status = "none" /\ ~link[l].used
  BY DEF NewLink, IInv, LinksConsistent, Actions
<1> HIDE DEF issued, targets, v
<1>6. song'.current = song.current /\ song' \in [status : SongStatus, current : VersionNo]
  BY <1>3, <1>4 DEF TablesTypeOK, SongStatus
<1>7. /\ Existing' = Existing
      /\ CurrentVersionIsLatest'
      /\ \A w \in VersionNo : version'[w].confirmedAt = version[w].confirmedAt
      /\ \A w \in VersionNo :
            version'[w].status = IF w = v THEN "proposed" ELSE version[w].status
      /\ version' \in [VersionNo -> [status : VersionStatus, confirmedAt : BOOLEAN]]
  BY <1>2, <1>3, <1>6, StatusWritten
<1>8. ASSUME NEW l \in LinkId
      PROVE  /\ link'[l] \in [status : LinkStatus, version : {0} \union VersionNo,
                              used : BOOLEAN, revoked : BOOLEAN]
             /\ link'[l].used = link[l].used
             /\ link[l].used => link'[l] = link[l]
             /\ link[l].status # "none" =>
                   link'[l].status # "none" /\ link'[l].version = link[l].version
             /\ link'[l].used <=> link'[l].status \in Actions
             /\ link'[l].status # "none" => link'[l].version \in Existing
  <2>1. link[l] \in [status : LinkStatus, version : {0} \union VersionNo,
                     used : BOOLEAN, revoked : BOOLEAN]
    BY <1>4 DEF TablesTypeOK
  <2>2. /\ link[l].used <=> link[l].status \in Actions
        /\ link[l].status # "none" => link[l].version \in Existing
    BY DEF IInv, LinksConsistent
  <2>3. CASE issued(l)
    <3>1. link'[l] = [status |-> "pending", version |-> v, used |-> FALSE, revoked |-> FALSE]
      BY <1>3, <2>3
    <3>2. link[l].used = FALSE /\ link[l].status = "none"
      BY <1>5, <2>1, <2>3
    <3>3. /\ link'[l].used = FALSE
          /\ link'[l].status = "pending"
          /\ link'[l].version = v
          /\ "pending" \notin Actions
      BY <3>1 DEF Actions
    <3>4. link'[l] \in [status : LinkStatus, version : {0} \union VersionNo,
                        used : BOOLEAN, revoked : BOOLEAN]
      BY <1>2, <3>1 DEF LinkStatus
    <3>5. QED
      BY <1>2, <3>2, <3>3, <3>4
  <2>4. CASE ~issued(l)
    <3>1. link'[l] = Revoked(targets)[l]
      BY <1>3, <2>4
    <3>2. QED
      BY <2>2, <3>1, RevokedLinks DEF Outstanding, Actions
  <2>5. QED
    BY <2>3, <2>4
<1>9. link' \in [LinkId -> [status : LinkStatus, version : {0} \union VersionNo,
                            used : BOOLEAN, revoked : BOOLEAN]]
  BY <1>3, <1>8
<1>10. TablesTypeOK'
  BY <1>3, <1>4, <1>6, <1>7, <1>9 DEF TablesTypeOK
<1>11. LinksConsistent' /\ AnswersHaveLinks'
  <2>1. LinksConsistent'
    BY <1>7, <1>8 DEF LinksConsistent
  <2>2. QED
    BY <1>3, <1>8, <2>1, AnswersKept
<1>12. ConfirmationHasAgreement'
  BY <1>3, <1>7 DEF IInv, ConfirmationHasAgreement
<1>13. QED
  BY <1>3, <1>7, <1>8, <1>10, <1>11, <1>12, CommitStep

LEMMA BumpCommitStep ==
    ASSUME IInv, NEW r \in Requests, BumpCommit(r)
    PROVE  IInv'
<1> DEFINE v == req[r].ver
           targets == req[r].targets
<1>1. req[r].at = "bumpCommit" /\ v + 1 \notin Existing
  BY DEF BumpCommit
<1>2. v \in Existing /\ v \in VersionNo /\ v < MaxVersion
  BY <1>1, ExistingType DEF IInv, ReadsFit, ReadsFitOf, BumpSteps
<1>3. /\ version' = [version EXCEPT ![v].status = "superseded", ![v + 1].status = "draft"]
      /\ shares' = [shares EXCEPT ![v + 1] = shares[v]]
      /\ link' = Revoked(targets)
      /\ song' = [status |-> "draft", current |-> v + 1]
      /\ End(r)
      /\ UNCHANGED <<answer, expired, agreements>>
  BY DEF BumpCommit, Commit
<1>4. TablesTypeOK
  BY DEF IInv, TypeOK
<1> HIDE DEF v, targets
<1>5. v = song.current /\ v + 1 \in VersionNo
  <2>1. song.current \in VersionNo /\ Existing = 1..song.current
    BY <1>4 DEF IInv, CurrentVersionIsLatest, TablesTypeOK, SongStatus
  <2>2. song.current \in Int /\ v \in Int /\ MaxVersion \in Int /\ 1 <= v
    BY <1>2, <2>1, BoundsAssumption DEF VersionNo
  <2>3. v <= song.current /\ ~(v + 1 <= song.current)
    BY <1>1, <1>2, <2>1, <2>2
  <2>4. v + 1 \in VersionNo
    BY <1>2, <2>2 DEF VersionNo
  <2>5. QED
    BY <2>2, <2>3, <2>4
<1>6. /\ version' \in [VersionNo -> [status : VersionStatus, confirmedAt : BOOLEAN]]
      /\ \A w \in VersionNo : version'[w].confirmedAt = version[w].confirmedAt
      /\ \A w \in VersionNo : version'[w].status = IF w = v + 1 THEN "draft"
                                                   ELSE IF w = v THEN "superseded"
                                                   ELSE version[w].status
  <2>1. version \in [VersionNo -> [status : VersionStatus, confirmedAt : BOOLEAN]]
    BY <1>4 DEF TablesTypeOK
  <2>2. v # v + 1 /\ {"superseded", "draft"} \subseteq VersionStatus
    BY <1>2 DEF VersionNo, VersionStatus
  <2>3. ASSUME NEW w \in VersionNo
        PROVE  version'[w] = [version[w] EXCEPT !.status = IF w = v + 1 THEN "draft"
                                                           ELSE IF w = v THEN "superseded"
                                                           ELSE version[w].status]
    BY <1>2, <1>3, <1>5, <2>1, <2>2
  <2>4. version' \in [VersionNo -> [status : VersionStatus, confirmedAt : BOOLEAN]]
    BY <1>2, <1>3, <1>5, <2>1, <2>2
  <2>5. QED
    BY <2>1, <2>3, <2>4
<1>7. Existing' = Existing \union {v + 1}
  BY <1>2, <1>5, <1>6 DEF Existing
<1>8. Existing' = 1..(v + 1)
  BY <1>2, <1>5, <1>7 DEF IInv, CurrentVersionIsLatest, VersionNo
<1>9. CurrentVersionIsLatest'
  <2>1. Latest' = v + 1
    <3>1. /\ v + 1 \in 1..(v + 1)
          /\ \A m \in 1..(v + 1) : (\A y \in 1..(v + 1) : m >= y) => m = v + 1
          /\ \A y \in 1..(v + 1) : v + 1 >= y
      BY <1>2 DEF VersionNo
    <3>2. QED
      BY <1>8, <3>1 DEF Latest, Max
  <2>2. QED
    BY <1>3, <1>8, <2>1 DEF CurrentVersionIsLatest
<1>10. ASSUME NEW l \in LinkId
       PROVE  /\ link'[l] \in [status : LinkStatus, version : {0} \union VersionNo,
                               used : BOOLEAN, revoked : BOOLEAN]
              /\ link'[l].used = link[l].used
              /\ link[l].used => link'[l] = link[l]
              /\ link[l].status # "none" =>
                    link'[l].status # "none" /\ link'[l].version = link[l].version
              /\ link'[l].used <=> link'[l].status \in Actions
              /\ link'[l].status # "none" => link'[l].version \in Existing
  <2>1. /\ link[l].used <=> link[l].status \in Actions
        /\ link[l].status # "none" => link[l].version \in Existing
    BY DEF IInv, LinksConsistent
  <2>2. link'[l] = Revoked(targets)[l]
    BY <1>3
  <2>3. QED
    BY <2>1, <2>2, RevokedLinks DEF Outstanding, Actions
<1>11. link' \in [LinkId -> [status : LinkStatus, version : {0} \union VersionNo,
                             used : BOOLEAN, revoked : BOOLEAN]]
  BY <1>3, <1>10 DEF Revoked
<1>12. TablesTypeOK'
  <2>1. song' \in [status : SongStatus, current : VersionNo]
    BY <1>3, <1>5 DEF SongStatus
  <2>2. shares' \in [VersionNo -> [Parts -> 0..Whole]]
    BY <1>2, <1>3, <1>4 DEF TablesTypeOK
  <2>3. QED
    BY <1>3, <1>4, <1>6, <1>11, <2>1, <2>2 DEF TablesTypeOK
<1>13. LinksConsistent' /\ AnswersHaveLinks'
  <2>1. LinksConsistent'
    BY <1>7, <1>10 DEF LinksConsistent
  <2>2. QED
    BY <1>3, <1>10, <2>1, AnswersKept
<1>14. ConfirmationHasAgreement'
  <2>1. ASSUME NEW w \in VersionNo, version'[w].status = "confirmed"
        PROVE  version'[w].confirmedAt
    <3>1. version[w].status = "confirmed"
      BY <1>6, <2>1
    <3>2. version[w].confirmedAt
      BY <3>1 DEF IInv, ConfirmationHasAgreement
    <3>3. QED
      BY <1>6, <3>2
  <2>2. ASSUME NEW w \in VersionNo
        PROVE  version'[w].confirmedAt
                 <=> [version |-> w, status |-> "fully_confirmed"] \in agreements'
    <3>1. version'[w].confirmedAt = version[w].confirmedAt /\ agreements' = agreements
      BY <1>3, <1>6
    <3>2. QED
      BY <3>1 DEF IInv, ConfirmationHasAgreement
  <2>3. QED
    BY <2>1, <2>2 DEF ConfirmationHasAgreement
<1>15. QED
  BY <1>3, <1>6, <1>7, <1>9, <1>10, <1>12, <1>13, <1>14, CommitStep

LEMMA GenerateCommitStep ==
    ASSUME IInv, NEW r \in Requests, GenerateCommit(r)
    PROVE  IInv'
<1> DEFINE v == req[r].ver
           status == IF req[r].seen = "confirmed" THEN "fully_confirmed"
                                                  ELSE "pending_confirmations"
<1>1. req[r].at = "generateCommit"
  BY DEF GenerateCommit
<1>2. v \in Existing /\ v \in VersionNo
      /\ (status = "fully_confirmed" => version[v].confirmedAt)
  BY <1>1, ExistingType DEF IInv, ReadsFit, ReadsFitOf
<1>3. /\ agreements' = agreements \union {[version |-> v, status |-> status]}
      /\ song' = (IF req[r].seen = "confirmed" THEN [song EXCEPT !.status = "completed"]
                                               ELSE song)
      /\ End(r)
      /\ UNCHANGED <<version, shares, answer, link, expired>>
  BY DEF GenerateCommit, Commit
<1>4. status \in {"pending_confirmations", "fully_confirmed"}
  OBVIOUS
<1>5. TablesTypeOK
  BY DEF IInv, TypeOK
<1> HIDE DEF v, status
<1>6. song'.current = song.current /\ song' \in [status : SongStatus, current : VersionNo]
  BY <1>3, <1>5 DEF TablesTypeOK, SongStatus
<1>7. Existing' = Existing
  BY <1>3 DEF Existing
<1>8. CurrentVersionIsLatest'
  BY <1>6, <1>7 DEF IInv, CurrentVersionIsLatest, Latest
<1>9. TablesTypeOK'
  BY <1>2, <1>3, <1>4, <1>5, <1>6 DEF TablesTypeOK
<1>10. LinksConsistent' /\ AnswersHaveLinks'
  <2>1. LinksConsistent'
    BY <1>3, <1>7 DEF IInv, LinksConsistent
  <2>2. QED
    BY <1>3, <2>1, AnswersKept
<1>11. ConfirmationHasAgreement'
  <2>1. ASSUME NEW w \in VersionNo
        PROVE  [version |-> w, status |-> "fully_confirmed"] \in agreements'
                 <=> \/ [version |-> w, status |-> "fully_confirmed"] \in agreements
                     \/ w = v /\ status = "fully_confirmed"
    BY <1>3
  <2>2. QED
    BY <1>2, <1>3, <2>1 DEF IInv, ConfirmationHasAgreement
<1>12. QED
  BY <1>3, <1>7, <1>8, <1>9, <1>10, <1>11, CommitStep

\* What is known of a request that is about to record its answer.
LEMMA AnswerReady ==
    ASSUME IInv, NEW r \in Requests, req[r].at = "respondCommit"
    PROVE  /\ req[r].link \in LinkId
           /\ req[r].action \in Actions
           /\ req[r].ver \in Existing
           /\ req[r].ver \in VersionNo
           /\ link[req[r].link].version = req[r].ver
           /\ link[req[r].link].status # "none"
           /\ ~link[req[r].link].used
           /\ \A l \in LinkId, s \in Requests \ {r} :
                 Lock(s, LinkRow(l), "forUpdate") \in locks => l # req[r].link
<1>1. /\ ReadsFitOf(r) /\ AnswerIsExclusiveOf(r)
  BY DEF IInv, ReadsFit, AnswerIsExclusive
<1>2. req[r].at \in AnswerSteps /\ req[r].at \in RespondSteps /\ req[r].at # "idle"
  BY DEF AnswerSteps, RespondSteps
<1>3. /\ req[r].link \in LinkId
      /\ req[r].action \in Actions
      /\ req[r].ver \in Existing
      /\ link[req[r].link].version = req[r].ver
      /\ link[req[r].link].status # "none"
      /\ ~link[req[r].link].used
      /\ Lock(r, LinkRow(req[r].link), "forUpdate") \in locks
  BY <1>1, <1>2 DEF ReadsFitOf, AnswerIsExclusiveOf
<1>4. ASSUME NEW s \in Requests \ {r},
             Lock(s, LinkRow(req[r].link), "forUpdate") \in locks
      PROVE  FALSE
  <2>1. s = r
    BY <1>3, <1>4 DEF IInv, LocksCompatible, Lock, Conflicting
  <2>2. QED
    BY <2>1
<1>5. QED
  BY <1>3, <1>4, ExistingType

LEMMA RespondCommitStep ==
    ASSUME IInv, NEW r \in Requests, RespondCommit(r)
    PROVE  IInv'
<1> DEFINE l == req[r].link
           v == req[r].ver
           action == req[r].action
<1>1. /\ l \in LinkId
      /\ action \in Actions
      /\ v \in Existing
      /\ v \in VersionNo
      /\ link[l].version = v
      /\ link[l].status # "none"
      /\ ~link[l].used
      /\ \A k \in LinkId, s \in Requests \ {r} :
            Lock(s, LinkRow(k), "forUpdate") \in locks => k # l
  BY AnswerReady DEF RespondCommit
<1>2. /\ answer' = [answer EXCEPT ![v] = [answer[v] EXCEPT ![l[1]] = action]]
      /\ link' = [link EXCEPT ![l].status = action, ![l].used = TRUE]
      /\ End(r)
      /\ UNCHANGED <<shares, expired>>
  BY DEF RespondCommit, Commit, AnswersSeen
<1>3. \/ /\ action = "change_requested"
         /\ song' = [song EXCEPT !.status = "change_requested"]
         /\ version' = [version EXCEPT ![v].status = "draft"]
         /\ UNCHANGED agreements
      \/ /\ song' = [song EXCEPT !.status = "confirmed"]
         /\ version' = [version EXCEPT ![v] = [status |-> "confirmed", confirmedAt |-> TRUE]]
         /\ agreements' = agreements \union {[version |-> v, status |-> "fully_confirmed"]}
      \/ /\ song' = [song EXCEPT !.status = "proposed"]
         /\ UNCHANGED <<version, agreements>>
  BY DEF RespondCommit
<1>4. TablesTypeOK
  BY DEF IInv, TypeOK
<1> HIDE DEF l, v, action
<1>5. song'.current = song.current /\ song' \in [status : SongStatus, current : VersionNo]
  BY <1>3, <1>4 DEF TablesTypeOK, SongStatus
<1>6. ASSUME NEW k \in LinkId
      PROVE  /\ k # l => link'[k] = link[k]
             /\ k = l => /\ link'[k].status = action
                         /\ link'[k].used = TRUE
                         /\ link'[k].version = v
             /\ link'[k] \in [status : LinkStatus, version : {0} \union VersionNo,
                              used : BOOLEAN, revoked : BOOLEAN]
  <2>1. link \in [LinkId -> [status : LinkStatus, version : {0} \union VersionNo,
                             used : BOOLEAN, revoked : BOOLEAN]]
    BY <1>4 DEF TablesTypeOK
  <2>2. action \in LinkStatus
    BY <1>1 DEF LinkStatus
  <2>3. QED
    BY <1>1, <1>2, <2>1, <2>2
<1>7. link' \in [LinkId -> [status : LinkStatus, version : {0} \union VersionNo,
                            used : BOOLEAN, revoked : BOOLEAN]]
  BY <1>2, <1>4, <1>6 DEF TablesTypeOK
<1>8. /\ answer' \in [VersionNo -> [Contributors -> Actions \union {"none"}]]
      /\ answer'[v][l[1]] = action
      /\ \A w \in VersionNo, c \in Contributors :
            ~(w = v /\ c = l[1]) => answer'[w][c] = answer[w][c]
  <2>1. answer \in [VersionNo -> [Contributors -> Actions \union {"none"}]]
    BY <1>4 DEF TablesTypeOK
  <2>2. l[1] \in Contributors
    BY <1>1, LinkIdMember
  <2>3. QED
    BY <1>1, <1>2, <2>1, <2>2
<1>9. /\ Existing' = Existing
      /\ CurrentVersionIsLatest'
      /\ version' \in [VersionNo -> [status : VersionStatus, confirmedAt : BOOLEAN]]
      /\ agreements' \subseteq [version : VersionNo,
                                status : {"pending_confirmations", "fully_confirmed"}]
      /\ ConfirmationHasAgreement'
      /\ \A w \in VersionNo : version[w].confirmedAt => version'[w].confirmedAt
  <2>1. CASE /\ version' = [version EXCEPT ![v].status = "draft"]
             /\ UNCHANGED agreements
    <3>1. /\ Existing' = Existing
          /\ CurrentVersionIsLatest'
          /\ \A w \in VersionNo : version'[w].confirmedAt = version[w].confirmedAt
          /\ \A w \in VersionNo :
                version'[w].status = IF w = v THEN "draft" ELSE version[w].status
          /\ version' \in [VersionNo -> [status : VersionStatus, confirmedAt : BOOLEAN]]
      BY <1>1, <1>5, <2>1, StatusWritten
    <3>2. ConfirmationHasAgreement'
      BY <2>1, <3>1 DEF IInv, ConfirmationHasAgreement
    <3>3. QED
      BY <1>4, <2>1, <3>1, <3>2 DEF TablesTypeOK
  <2>2. CASE /\ version' = [version EXCEPT ![v] = [status |-> "confirmed", confirmedAt |-> TRUE]]
             /\ agreements' = agreements \union {[version |-> v, status |-> "fully_confirmed"]}
    <3>1. version' \in [VersionNo -> [status : VersionStatus, confirmedAt : BOOLEAN]]
      BY <1>1, <1>4, <2>2 DEF TablesTypeOK, VersionStatus
    <3>2. ASSUME NEW w \in VersionNo
          PROVE  /\ w # v => version'[w] = version[w]
                 /\ w = v => version'[w].status = "confirmed" /\ version'[w].confirmedAt = TRUE
      BY <1>1, <1>4, <2>2 DEF TablesTypeOK
    <3>3. Existing' = Existing
      BY <1>1, <3>2 DEF Existing
    <3>4. CurrentVersionIsLatest'
      BY <1>5, <3>3 DEF IInv, CurrentVersionIsLatest, Latest
    <3>5. ASSUME NEW w \in VersionNo
          PROVE  [version |-> w, status |-> "fully_confirmed"] \in agreements'
                   <=> \/ [version |-> w, status |-> "fully_confirmed"] \in agreements
                       \/ w = v
      BY <2>2
    <3>6. ConfirmationHasAgreement'
      BY <3>2, <3>5 DEF IInv, ConfirmationHasAgreement
    <3>7. QED
      BY <1>1, <1>4, <2>2, <3>1, <3>2, <3>3, <3>4, <3>6 DEF TablesTypeOK
  <2>3. CASE UNCHANGED <<version, agreements>>
    <3>1. Existing' = Existing
      BY <2>3 DEF Existing
    <3>2. CurrentVersionIsLatest' /\ ConfirmationHasAgreement'
      BY <1>5, <2>3, <3>1 DEF IInv, CurrentVersionIsLatest, Latest, ConfirmationHasAgreement
    <3>3. QED
      BY <1>4, <2>3, <3>1, <3>2 DEF TablesTypeOK
  <2>4. QED
    BY <1>3, <2>1, <2>2, <2>3
<1>10. TablesTypeOK'
  BY <1>2, <1>4, <1>5, <1>7, <1>8, <1>9 DEF TablesTypeOK
<1>11. LinksConsistent'
  <2>1. \A k \in LinkId : /\ link[k].used <=> link[k].status \in Actions
                          /\ link[k].status # "none" => link[k].version \in Existing
    BY DEF IInv, LinksConsistent
  <2>2. QED
    BY <1>1, <1>6, <1>9, <2>1 DEF LinksConsistent
<1>12. AnswersHaveLinks'
  <2> SUFFICES ASSUME NEW w \in VersionNo, NEW c \in Contributors, answer'[w][c] # "none"
               PROVE  \E n \in 1..MaxLinks[c] : /\ link'[<<c, n>>].version = w
                                                /\ link'[<<c, n>>].used
                                                /\ link'[<<c, n>>].status = answer'[w][c]
    BY DEF AnswersHaveLinks
  <2>1. CASE w = v /\ c = l[1]
    <3>1. l = <<c, l[2]>> /\ l[2] \in 1..MaxLinks[c]
      BY <1>1, <2>1, LinkIdMember
    <3>2. /\ link'[l].version = w /\ link'[l].used /\ link'[l].status = answer'[w][c]
      BY <1>1, <1>6, <1>8, <2>1
    <3>3. QED
      BY <3>1, <3>2
  <2>2. CASE ~(w = v /\ c = l[1])
    <3>1. answer'[w][c] = answer[w][c]
      BY <1>8, <2>2
    <3>2. PICK n \in 1..MaxLinks[c] : /\ link[<<c, n>>].version = w
                                      /\ link[<<c, n>>].used
                                      /\ link[<<c, n>>].status = answer[w][c]
      BY <3>1 DEF IInv, AnswersHaveLinks
    <3>3. <<c, n>> \in LinkId /\ <<c, n>> # l
      BY <1>1, <3>2, LinkIdMember
    <3>4. link'[<<c, n>>] = link[<<c, n>>]
      BY <1>6, <3>3
    <3>5. QED
      BY <3>1, <3>2, <3>4
  <2>3. QED
    BY <2>1, <2>2
<1>13. /\ \A k \in LinkId : link[k].status # "none" =>
              link'[k].status # "none" /\ link'[k].version = link[k].version
       /\ \A k \in LinkId, s \in Requests \ {r} :
              Lock(s, LinkRow(k), "forUpdate") \in locks => link'[k].used = link[k].used
  <2>1. action # "none"
    BY <1>1 DEF Actions
  <2>2. QED
    BY <1>1, <1>6, <2>1
<1>14. QED
  BY <1>2, <1>9, <1>10, <1>11, <1>12, <1>13, CommitStep

\* Marking a link as viewed, and the clock, concern no request.
LEMMA LinkStep ==
    ASSUME IInv, NEW l \in LinkId, View(l) \/ Expire(l)
    PROVE  IInv'
<1>1. /\ UNCHANGED <<song, version, shares, answer, agreements, req, locks>>
      /\ \/ UNCHANGED link
         \/ /\ link[l].status = "pending"
            /\ link' = [link EXCEPT ![l].status = "viewed"]
      /\ expired' \subseteq LinkId
  BY DEF View, Expire, IInv, TypeOK, TablesTypeOK
<1>2. /\ RequestsTypeOK' /\ LocksCompatible' /\ Existing' = Existing
      /\ \A r \in Requests : ReadsFitOf(r) /\ AnswerIsExclusiveOf(r)
  BY <1>1 DEF IInv, TypeOK, RequestsTypeOK, LocksCompatible, Existing, ReadsFit, AnswerIsExclusive
<1>3. ASSUME NEW k \in LinkId
      PROVE  /\ link'[k] \in [status : LinkStatus, version : {0} \union VersionNo,
                              used : BOOLEAN, revoked : BOOLEAN]
             /\ link'[k].used = link[k].used
             /\ link'[k].version = link[k].version
             /\ link'[k].status # link[k].status =>
                   link[k].status = "pending" /\ link'[k].status = "viewed"
             /\ link[k].used => link'[k] = link[k]
  <2>1. link \in [LinkId -> [status : LinkStatus, version : {0} \union VersionNo,
                             used : BOOLEAN, revoked : BOOLEAN]]
    BY DEF IInv, TypeOK, TablesTypeOK
  <2>2. link[k].used => link[k].status # "pending"
    BY DEF IInv, LinksConsistent, Actions
  <2>3. "viewed" \in LinkStatus
    BY DEF LinkStatus
  <2>4. QED
    BY <1>1, <2>1, <2>2, <2>3
<1>4. link' \in [LinkId -> [status : LinkStatus, version : {0} \union VersionNo,
                            used : BOOLEAN, revoked : BOOLEAN]]
  BY <1>1, <1>3 DEF IInv, TypeOK, TablesTypeOK
<1>5. TypeOK'
  BY <1>1, <1>2, <1>4 DEF IInv, TypeOK, TablesTypeOK
<1>6. CurrentVersionIsLatest' /\ ConfirmationHasAgreement'
  BY <1>1, <1>2 DEF IInv, CurrentVersionIsLatest, Latest, ConfirmationHasAgreement
<1>7. LinksConsistent' /\ AnswersHaveLinks'
  <2>1. LinksConsistent'
    BY <1>2, <1>3 DEF IInv, LinksConsistent, Actions
  <2>2. QED
    BY <1>1, <1>3, <2>1, AnswersKept
<1>8. ReadsFit' /\ AnswerIsExclusive'
  <2>1. ASSUME NEW r \in Requests
        PROVE  ReadsFitOf(r)' /\ AnswerIsExclusiveOf(r)'
    <3>1. req[r].at \in AnswerSteps => req[r].link \in LinkId
      BY <1>2 DEF ReadsFitOf, RespondSteps
    <3>2. ReadsFitOf(r)'
      BY <1>1, <1>2, <1>3 DEF ReadsFitOf
    <3>3. AnswerIsExclusiveOf(r)'
      BY <1>1, <1>2, <1>3, <3>1 DEF AnswerIsExclusiveOf
    <3>4. QED
      BY <3>2, <3>3
  <2>2. QED
    BY <2>1 DEF ReadsFit, AnswerIsExclusive
<1>9. QED
  BY <1>2, <1>5, <1>6, <1>7, <1>8 DEF IInv

LEMMA RequestStep ==
    ASSUME IInv, NEW r \in Requests, Step(r)
    PROVE  IInv'
<1>1. CASE \/ SaveLock(r) \/ BumpLock(r) \/ BumpRevoke(r)
           \/ InviteCheck(r) \/ InviteNext(r) \/ InviteIssue(r) \/ InviteSong(r)
  BY <1>1, OwnerSteps
<1>2. CASE \/ RespondLock(r) \/ RespondRecord(r) \/ RespondValidate(r) \/ RespondMark(r)
  BY <1>2, AnswerStepsBefore
<1>3. CASE SaveCommit(r)
  BY <1>3, SaveCommitStep
<1>4. CASE BumpCommit(r)
  BY <1>4, BumpCommitStep
<1>5. CASE InviteCommit(r)
  BY <1>5, InviteCommitStep
<1>6. CASE RespondCommit(r)
  BY <1>6, RespondCommitStep
<1>7. CASE GenerateCommit(r)
  BY <1>7, GenerateCommitStep
<1>8. CASE SaveRefused(r) \/ BumpDuplicate(r) \/ InviteRefused(r) \/ RespondUsed(r)
  <2>1. Rollback(r)
    BY <1>8 DEF SaveRefused, BumpDuplicate, InviteRefused, RespondUsed
  <2>2. QED
    BY <2>1, RollbackStep
<1>9. QED
  BY <1>1, <1>2, <1>3, <1>4, <1>5, <1>6, <1>7, <1>8 DEF Step

LEMMA StutterStep ==
    ASSUME IInv, UNCHANGED vars
    PROVE  IInv'
<1>1. \A r \in Requests : (ReadsFitOf(r) => ReadsFitOf(r)')
                          /\ (AnswerIsExclusiveOf(r) => AnswerIsExclusiveOf(r)')
  BY DEF vars, ReadsFitOf, AnswerIsExclusiveOf, Existing
<1>2. ReadsFit' /\ AnswerIsExclusive'
  BY <1>1 DEF IInv, ReadsFit, AnswerIsExclusive
<1>3. TypeOK' /\ LocksCompatible'
  BY DEF IInv, vars, TypeOK, TablesTypeOK, RequestsTypeOK, LocksCompatible
<1>4. Existing' = Existing /\ Latest' = Latest
  BY DEF vars, Existing, Latest
<1>5. QED
  BY <1>2, <1>3, <1>4
     DEF IInv, vars, CurrentVersionIsLatest, LinksConsistent,
         ConfirmationHasAgreement, AnswersHaveLinks

-------------------------------------------------------------------------------
(* The theorems *)

LEMMA InitInvariant == Init => IInv
<1> SUFFICES ASSUME Init PROVE IInv
  OBVIOUS
<1> USE DEF Init
<1>1. 1 \in VersionNo
  BY DEF VersionNo
<1>2. Existing = {1}
  BY <1>1 DEF Existing
<1>3. CurrentVersionIsLatest
  <2>1. Existing = 1..1
    BY <1>2
  <2>2. Latest = 1
    BY <1>1, <2>1, LatestOfInterval
  <2>3. QED
    BY <2>1, <2>2 DEF CurrentVersionIsLatest
<1>4. TypeOK
  <2>1. TablesTypeOK
    BY <1>1 DEF TablesTypeOK, SongStatus, VersionStatus, LinkStatus
  <2>2. RequestsTypeOK
    BY IdleType DEF RequestsTypeOK
  <2>3. QED
    BY <2>1, <2>2 DEF TypeOK
<1>5. ReadsFit /\ AnswerIsExclusive
  BY DEF ReadsFit, ReadsFitOf, AnswerIsExclusive, AnswerIsExclusiveOf,
         Idle, BumpSteps, RespondSteps, AnswerSteps
<1>6. LinksConsistent /\ ConfirmationHasAgreement /\ AnswersHaveLinks
  BY DEF LinksConsistent, ConfirmationHasAgreement, AnswersHaveLinks, Actions
<1>7. QED
  BY <1>3, <1>4, <1>5, <1>6 DEF IInv, LocksCompatible

LEMMA NextInvariant == IInv /\ [Next]_vars => IInv'
<1> SUFFICES ASSUME IInv, [Next]_vars PROVE IInv'
  OBVIOUS
<1>1. CASE UNCHANGED vars
  BY <1>1, StutterStep
<1>2. ASSUME NEW r \in Requests, Start(r) PROVE IInv'
  BY <1>2, StartStep
<1>3. ASSUME NEW r \in Requests, Step(r) PROVE IInv'
  BY <1>3, RequestStep
<1>4. ASSUME NEW r \in Requests, Fail(r) PROVE IInv'
  BY <1>4, RollbackStep DEF Fail
<1>5. ASSUME NEW l \in LinkId, View(l) \/ Expire(l) PROVE IInv'
  BY <1>5, LinkStep
<1>6. QED
  BY <1>1, <1>2, <1>3, <1>4, <1>5 DEF Next, Run

\* IInv holds in every state of the rights record, however many requests run
\* at once, contributors there are and links are sent.
THEOREM InvariantHolds == Spec => []IInv
<1>1. QED
  BY InitInvariant, NextInvariant, PTL DEF Spec

\* The rows are the ones that schema.sql allows, in every state.
THEOREM TypeCorrect == Spec => []TypeOK
<1>1. IInv => TypeOK
  BY DEF IInv
<1>2. QED
  BY <1>1, InvariantHolds, PTL

\* Racing bumps leave no gap in the version numbers, and the song names the
\* version that the handlers work on.
THEOREM CurrentVersionCorrect == Spec => []CurrentVersionIsLatest
<1>1. IInv => CurrentVersionIsLatest
  BY DEF IInv
<1>2. QED
  BY <1>1, InvariantHolds, PTL

\* A version is never shown as confirmed without its confirmation date and its
\* fully confirmed agreement, nor has it one of them without the other.
THEOREM ConfirmationCorrect == Spec => []ConfirmationHasAgreement
<1>1. IInv => ConfirmationHasAgreement
  BY DEF IInv
<1>2. QED
  BY <1>1, InvariantHolds, PTL

\* Every answer on file was given through a link to that contributor about
\* that version.
THEOREM AnswersCorrect == Spec => []AnswersHaveLinks
<1>1. IInv => AnswersHaveLinks
  BY DEF IInv
<1>2. QED
  BY <1>1, InvariantHolds, PTL

-------------------------------------------------------------------------------
(* Links and answers from one state to the next *)

\* The steps that write links or answers.
LEMMA LinkWriters ==
    ASSUME [Next]_vars
    PROVE  \/ UNCHANGED <<link, answer>>
           \/ \E l \in LinkId : View(l)
           \/ \E r \in Requests : BumpCommit(r) \/ InviteCommit(r) \/ RespondCommit(r)
<1>1. CASE UNCHANGED vars
  BY <1>1 DEF vars
<1>2. ASSUME NEW r \in Requests, Start(r) PROVE UNCHANGED <<link, answer>>
  BY <1>2 DEF Start, SaveRead, BumpRead, InviteRead, RespondLoad, GenerateRead, Begin, db
<1>3. ASSUME NEW r \in Requests, Step(r)
      PROVE  UNCHANGED <<link, answer>> \/ BumpCommit(r) \/ InviteCommit(r) \/ RespondCommit(r)
  <2>1. CASE \/ SaveLock(r) \/ BumpLock(r) \/ BumpRevoke(r)
             \/ InviteCheck(r) \/ InviteNext(r) \/ InviteIssue(r) \/ InviteSong(r)
    BY <2>1 DEF SaveLock, BumpLock, BumpRevoke, InviteCheck, InviteNext, InviteIssue,
                InviteSong, db
  <2>2. CASE \/ RespondLock(r) \/ RespondRecord(r) \/ RespondValidate(r) \/ RespondMark(r)
    BY <2>2 DEF RespondLock, RespondRecord, RespondValidate, RespondMark, db
  <2>3. CASE SaveRefused(r) \/ BumpDuplicate(r) \/ InviteRefused(r) \/ RespondUsed(r)
    BY <2>3 DEF SaveRefused, BumpDuplicate, InviteRefused, RespondUsed, Rollback, db
  <2>4. CASE SaveCommit(r) \/ GenerateCommit(r)
    BY <2>4 DEF SaveCommit, GenerateCommit
  <2>5. QED
    BY <1>3, <2>1, <2>2, <2>3, <2>4 DEF Step
<1>4. ASSUME NEW r \in Requests, Fail(r) PROVE UNCHANGED <<link, answer>>
  BY <1>4 DEF Fail, Rollback, db
<1>5. ASSUME NEW l \in LinkId, Expire(l) PROVE UNCHANGED <<link, answer>>
  BY <1>5 DEF Expire
<1>6. QED
  BY <1>1, <1>2, <1>3, <1>4, <1>5 DEF Next, Run

LEMMA FinalStep ==
    ASSUME IInv, [Next]_vars, NEW l \in LinkId, link[l].used
    PROVE  link'[l] = link[l]
<1>1. link[l].status \in Actions /\ link[l].status # "none" /\ link[l].status # "pending"
  BY DEF IInv, LinksConsistent, Actions
<1>2. ASSUME NEW k \in LinkId, View(k) PROVE link'[l] = link[l]
  BY <1>1, <1>2 DEF View, IInv, TypeOK, TablesTypeOK
<1>3. ASSUME NEW r \in Requests, BumpCommit(r) PROVE link'[l] = link[l]
  <2>1. link' = Revoked(req[r].targets)
    BY <1>3 DEF BumpCommit
  <2>2. QED
    BY <2>1, RevokedLinks
<1>4. ASSUME NEW r \in Requests, InviteCommit(r) PROVE link'[l] = link[l]
  <2>1. ~NewLink(l, req[r].made)
    BY <1>1 DEF NewLink
  <2>2. link'[l] = Revoked(req[r].targets)[l]
    BY <1>4, <2>1 DEF InviteCommit
  <2>3. QED
    BY <2>2, RevokedLinks
<1>5. ASSUME NEW r \in Requests, RespondCommit(r) PROVE link'[l] = link[l]
  <2>1. req[r].at = "respondCommit"
        /\ link' = [link EXCEPT ![req[r].link].status = req[r].action, ![req[r].link].used = TRUE]
    BY <1>5 DEF RespondCommit
  <2>2. req[r].link # l /\ req[r].link \in LinkId
    BY <2>1, AnswerReady
  <2>3. QED
    BY <2>1, <2>2 DEF IInv, TypeOK, TablesTypeOK
<1>6. QED
  BY <1>2, <1>3, <1>4, <1>5, LinkWriters

\* A link that has been answered stays as it is, whatever races with it.
THEOREM AnsweredLinksFinal == Spec => AnsweredLinksAreFinal
<1>1. IInv /\ [Next]_vars => [\A l \in LinkId : link[l].used => link'[l] = link[l]]_vars
  BY FinalStep
<1>2. QED
  BY <1>1, InvariantHolds, PTL DEF Spec, AnsweredLinksAreFinal

-------------------------------------------------------------------------------
(* The refinement of ReviewLinks *)

\* What the state of a link is in each of the cases that occur.
LEMMA LinkStates ==
    ASSUME IInv, NEW l \in LinkId
    PROVE  /\ link[l].status = "none" => LinkState(l) = "none"
           /\ Outstanding(l) => LinkState(l) = "open"
           /\ link[l].status # "none" /\ ~link[l].used => LinkState(l) \in {"open", "withdrawn"}
<1>1. /\ link[l].status = "none" => LinkState(l) = "none"
      /\ Outstanding(l) => LinkState(l) = "open"
      /\ link[l].status = "revoked" => LinkState(l) = "withdrawn"
  BY DEF LinkState, Outstanding
<1>2. link[l].status \in LinkStatus /\ (link[l].used <=> link[l].status \in Actions)
  BY DEF IInv, TypeOK, TablesTypeOK, LinksConsistent
<1>3. QED
  BY <1>1, <1>2 DEF LinkStatus, Outstanding

\* A step that leaves the link table and the answers alone, or marks a link as
\* viewed, is a stutter of ReviewLinks.
LEMMA QuietRefines ==
    ASSUME IInv, UNCHANGED <<link, answer>> \/ \E l \in LinkId : View(l)
    PROVE  UNCHANGED Links!vars
<1>1. ASSUME NEW l \in LinkId
      PROVE  LinkState(l)' = LinkState(l) /\ link'[l].version = link[l].version
  <2>1. CASE UNCHANGED <<link, answer>>
    BY <2>1 DEF LinkState, Outstanding
  <2>2. ASSUME NEW k \in LinkId, View(k)
        PROVE  LinkState(l)' = LinkState(l) /\ link'[l].version = link[l].version
    <3>1. link[k].status = "pending" /\ link' = [link EXCEPT ![k].status = "viewed"]
      BY <2>2 DEF View
    <3>2. link \in [LinkId -> [status : LinkStatus, version : {0} \union VersionNo,
                               used : BOOLEAN, revoked : BOOLEAN]]
      BY DEF IInv, TypeOK, TablesTypeOK
    <3>3. CASE l = k
      <4>1. ~link[l].used
        BY <3>1, <3>3 DEF IInv, LinksConsistent, Actions
      <4>2. link'[l] = [link[l] EXCEPT !.status = "viewed"]
        BY <3>1, <3>2, <3>3
      <4>3. link'[l].status = "viewed" /\ link'[l].used = link[l].used
            /\ link'[l].version = link[l].version
        BY <3>2, <4>2
      <4>4. QED
        BY <3>1, <3>3, <4>1, <4>3 DEF LinkState, Outstanding
    <3>4. CASE l # k
      <4>1. link'[l] = link[l]
        BY <3>1, <3>2, <3>4
      <4>2. QED
        BY <4>1 DEF LinkState, Outstanding
    <3>5. QED
      BY <3>3, <3>4
  <2>3. QED
    BY <2>1, <2>2
<1>2. answer' = answer
  BY DEF View
<1>3. /\ [l \in LinkId |-> LinkState(l)'] = [l \in LinkId |-> LinkState(l)]
      /\ [l \in LinkId |-> link'[l].version] = [l \in LinkId |-> link[l].version]
  BY <1>1
<1>4. QED
  BY <1>2, <1>3 DEF Links!vars

\* A bump withdraws links and an invitation issues some: Reissue.
LEMMA ReissueRefines ==
    ASSUME IInv, NEW v \in VersionNo, NEW issued \in SUBSET LinkId, NEW targets,
           answer' = answer,
           \A l \in issued : link[l].status = "none",
           link' = [l \in LinkId |-> IF l \in issued
                                     THEN [status |-> "pending", version |-> v,
                                           used |-> FALSE, revoked |-> FALSE]
                                     ELSE Revoked(targets)[l]]
    PROVE  Links!Next
<1> DEFINE withdrawn == {l \in LinkId : l \in targets /\ Outstanding(l)}
<1>1. ASSUME NEW l \in issued
      PROVE  /\ LinkState(l) = "none"
             /\ LinkState(l)' = "open"
             /\ link'[l].version = v
  <2>1. /\ link'[l] = [status |-> "pending", version |-> v, used |-> FALSE, revoked |-> FALSE]
    OBVIOUS
  <2>2. link'[l].status = "pending" /\ link'[l].used = FALSE /\ link'[l].version = v
    BY <2>1
  <2>3. QED
    BY <2>2, LinkStates DEF LinkState, Outstanding
<1>2. ASSUME NEW l \in withdrawn
      PROVE  LinkState(l) = "open"
  BY LinkStates
<1>3. ASSUME NEW l \in LinkId \ issued
      PROVE  /\ LinkState(l)' = IF l \in withdrawn THEN "withdrawn" ELSE LinkState(l)
             /\ link'[l].version = link[l].version
  <2>1. link'[l] = Revoked(targets)[l]
    OBVIOUS
  <2>2. link'[l].version = link[l].version /\ link'[l].used = link[l].used
    BY <2>1, RevokedLinks
  <2>3. CASE l \in withdrawn
    <3>1. ~link[l].used
      BY <2>3 DEF IInv, LinksConsistent, Outstanding, Actions
    <3>2. link'[l] = [link[l] EXCEPT !.status = "revoked", !.revoked = TRUE]
      BY <2>1, <2>3 DEF Revoked
    <3>3. link'[l].status = "revoked"
      <4>1. link[l] \in [status : LinkStatus, version : {0} \union VersionNo,
                         used : BOOLEAN, revoked : BOOLEAN]
        BY DEF IInv, TypeOK, TablesTypeOK
      <4>2. QED
        BY <3>2, <4>1
    <3>4. QED
      BY <2>2, <2>3, <3>1, <3>3 DEF LinkState, Outstanding
  <2>4. CASE l \notin withdrawn
    <3>1. link'[l] = link[l]
      BY <2>1, <2>4 DEF Revoked
    <3>2. QED
      BY <2>4, <3>1 DEF LinkState, Outstanding
  <2>5. QED
    BY <2>2, <2>3, <2>4
<1>4. withdrawn \in SUBSET LinkId
  OBVIOUS
<1> HIDE DEF withdrawn
<1>5. Links!Reissue(issued, withdrawn, v)
  <2>1. \A l \in issued : [k \in LinkId |-> LinkState(k)][l] = "none"
    BY <1>1
  <2>2. \A l \in withdrawn : [k \in LinkId |-> LinkState(k)][l] = "open"
    BY <1>2, <1>4
  <2>3. [l \in LinkId |-> LinkState(l)'] =
           [l \in LinkId |-> IF l \in issued THEN "open"
                             ELSE IF l \in withdrawn THEN "withdrawn"
                             ELSE [k \in LinkId |-> LinkState(k)][l]]
    BY <1>1, <1>3
  <2>4. [l \in LinkId |-> link'[l].version] =
           [l \in LinkId |-> IF l \in issued THEN v
                             ELSE [k \in LinkId |-> link[k].version][l]]
    BY <1>1, <1>3
  <2>5. QED
    BY <2>1, <2>2, <2>3, <2>4 DEF Links!Reissue
<1>6. QED
  BY <1>4, <1>5 DEF Links!Next

\* An answer that is recorded: Answer.
LEMMA AnswerRefines ==
    ASSUME IInv, NEW r \in Requests, RespondCommit(r)
    PROVE  Links!Next
<1> DEFINE l == req[r].link
           v == req[r].ver
           a == req[r].action
<1>1. /\ l \in LinkId
      /\ a \in Actions
      /\ v \in VersionNo
      /\ link[l].version = v
      /\ link[l].status # "none"
      /\ ~link[l].used
  BY AnswerReady DEF RespondCommit
<1>2. /\ answer' = [answer EXCEPT ![v] = [answer[v] EXCEPT ![l[1]] = a]]
      /\ link' = [link EXCEPT ![l].status = a, ![l].used = TRUE]
  BY DEF RespondCommit, AnswersSeen
<1> HIDE DEF l, v, a
<1>3. link \in [LinkId -> [status : LinkStatus, version : {0} \union VersionNo,
                           used : BOOLEAN, revoked : BOOLEAN]]
  BY DEF IInv, TypeOK, TablesTypeOK
<1>4. LinkState(l) \in {"open", "withdrawn"}
  BY <1>1, LinkStates
<1>5. ASSUME NEW k \in LinkId
      PROVE  /\ LinkState(k)' = IF k = l THEN a ELSE LinkState(k)
             /\ link'[k].version = link[k].version
  <2>1. CASE k = l
    <3>1. link'[k].used = TRUE /\ link'[k].status = a /\ link'[k].version = link[k].version
      BY <1>1, <1>2, <1>3, <2>1
    <3>2. LinkState(k)' = link'[k].status
      BY <1>1, <3>1 DEF LinkState, Outstanding, Actions
    <3>3. QED
      BY <2>1, <3>1, <3>2
  <2>2. CASE k # l
    <3>1. link'[k] = link[k]
      BY <1>1, <1>2, <1>3, <2>2
    <3>2. QED
      BY <2>2, <3>1 DEF LinkState, Outstanding
  <2>3. QED
    BY <2>1, <2>2
<1>6. Links!Answer(l, a)
  <2>1. [k \in LinkId |-> LinkState(k)][l] \in {"open", "withdrawn"}
    BY <1>1, <1>4
  <2>2. [k \in LinkId |-> LinkState(k)'] = [[k \in LinkId |-> LinkState(k)] EXCEPT ![l] = a]
    BY <1>1, <1>5
  <2>3. [k \in LinkId |-> link'[k].version] = [k \in LinkId |-> link[k].version]
    BY <1>5
  <2>4. answer' = [answer EXCEPT ![[k \in LinkId |-> link[k].version][l]]
                                  [[k \in LinkId |-> k[1]][l]] = a]
    BY <1>1, <1>2
  <2>5. QED
    BY <2>1, <2>2, <2>3, <2>4 DEF Links!Answer
<1>7. QED
  BY <1>1, <1>6 DEF Links!Next, Links!Answers, Actions

LEMMA StepRefines == IInv /\ [Next]_vars => [Links!Next]_(Links!vars)
<1> SUFFICES ASSUME IInv, [Next]_vars PROVE Links!Next \/ UNCHANGED Links!vars
  OBVIOUS
<1>1. CASE UNCHANGED <<link, answer>> \/ \E l \in LinkId : View(l)
  BY <1>1, QuietRefines
<1>2. ASSUME NEW r \in Requests, BumpCommit(r) PROVE Links!Next
  <2>1. link' = [l \in LinkId |-> IF l \in {}
                                  THEN [status |-> "pending", version |-> 1,
                                        used |-> FALSE, revoked |-> FALSE]
                                  ELSE Revoked(req[r].targets)[l]]
    BY <1>2 DEF BumpCommit, Revoked
  <2>2. 1 \in VersionNo /\ answer' = answer /\ {} \in SUBSET LinkId
    BY <1>2 DEF VersionNo, BumpCommit
  <2>3. QED
    BY <2>1, <2>2, ReissueRefines
<1>3. ASSUME NEW r \in Requests, InviteCommit(r) PROVE Links!Next
  <2> DEFINE issued == {l \in LinkId : NewLink(l, req[r].made)}
  <2>1. link' = [l \in LinkId |-> IF l \in issued
                                  THEN [status |-> "pending", version |-> req[r].ver,
                                        used |-> FALSE, revoked |-> FALSE]
                                  ELSE Revoked(req[r].targets)[l]]
    BY <1>3 DEF InviteCommit
  <2>2. issued \in SUBSET LinkId /\ \A l \in issued : link[l].status = "none"
    BY DEF NewLink
  <2>3. req[r].ver \in VersionNo /\ answer' = answer
    BY <1>3, ExistingType DEF InviteCommit, IInv, ReadsFit, ReadsFitOf
  <2> HIDE DEF issued
  <2>4. QED
    BY <2>1, <2>2, <2>3, ReissueRefines
<1>4. ASSUME NEW r \in Requests, RespondCommit(r) PROVE Links!Next
  BY <1>4, AnswerRefines
<1>5. QED
  BY <1>1, <1>2, <1>3, <1>4, LinkWriters

LEMMA InitRefines == Init => Links!Init
<1> SUFFICES ASSUME Init PROVE Links!Init
  OBVIOUS
<1>1. ASSUME NEW l \in LinkId PROVE LinkState(l) = "none" /\ link[l].version = 0
  <2>1. link[l].status = "none" /\ link[l].used = FALSE /\ link[l].version = 0
    BY DEF Init
  <2>2. QED
    BY <2>1 DEF LinkState, Outstanding
<1>2. QED
  BY <1>1 DEF Init, Links!Init

\* The handlers implement ReviewLinks: a link is answered at most once, and the
\* answer on file is the last one given through a link about that version.
THEOREM LinkPromiseKept == Spec => KeepsLinkPromise
<1>1. QED
  BY InitRefines, StepRefines, InvariantHolds, PTL DEF Spec, KeepsLinkPromise, Links!Spec

-------------------------------------------------------------------------------
(* What the count of confirmations means *)

\* The handlers compare the number of holders with the number of confirmations
\* by holders.  In a workspace of finitely many contributors that test says
\* exactly that the splits add up, that somebody holds a share and that
\* whoever does has confirmed, which is what a confirmed version promises.
THEOREM AgreedMeansEveryone ==
    ASSUME IsFiniteSet(Contributors),
           NEW split \in [Parts -> 0..Whole],
           NEW answers \in [Contributors -> Actions \union {"none"}]
    PROVE  Agreed(split, answers)
              <=> EveryoneConfirmed(split, answers) /\ Holders(split) # {}
<1> DEFINE holders == Holders(split)
           yes == HoldersConfirmed(split, answers)
<1>1. holders \in SUBSET Contributors /\ yes \in SUBSET holders
  BY DEF Holders, HoldersConfirmed
<1>2. IsFiniteSet(holders)
  BY <1>1, FS_Subset
<1>3. IsFiniteSet(yes)
  BY <1>1, <1>2, FS_Subset
<1>4. /\ Cardinality(holders) \in Nat
      /\ Cardinality(yes) \in Nat
      /\ Cardinality(yes) <= Cardinality(holders)
      /\ Cardinality(holders) = Cardinality(yes) => yes = holders
      /\ Cardinality(holders) = 0 <=> holders = {}
  BY <1>1, <1>2, <1>3, FS_Subset, FS_CardinalityType, FS_EmptySet
<1>5. PendingConfirmations(split, answers) = 0 <=> yes = holders
  <2> DEFINE gap == Cardinality(holders) - Cardinality(yes)
  <2>1. gap \in Nat
    BY <1>4
  <2>2. Max({0, gap}) = gap
    <3> HIDE DEF gap
    <3>1. /\ gap \in {0, gap}
          /\ \A m \in {0, gap} : gap >= m
          /\ \A m \in {0, gap} : (\A n \in {0, gap} : m >= n) => m = gap
      BY <2>1
    <3>2. QED
      BY <3>1 DEF Max
  <2>3. gap = 0 <=> yes = holders
    BY <1>4
  <2>4. QED
    BY <2>2, <2>3 DEF PendingConfirmations
<1>6. yes = holders <=> \A c \in holders : answers[c] = "confirmed"
  BY DEF HoldersConfirmed
<1>7. (\A c \in holders : answers[c] = "confirmed")
         <=> \A p \in Parts : split[p] > 0 => answers[p[1]] = "confirmed"
  <2>1. \A p \in Parts : /\ p = <<p[1], p[2]>>
                         /\ p[1] \in Contributors
                         /\ p[2] \in RightTypes
    BY DEF Parts
  <2>2. \A c \in Contributors, t \in RightTypes :
           /\ <<c, t>> \in Parts
           /\ <<c, t>>[1] = c
    BY DEF Parts
  <2>3. ASSUME \A c \in holders : answers[c] = "confirmed",
               NEW p \in Parts, split[p] > 0
        PROVE  answers[p[1]] = "confirmed"
    <3>1. split[<<p[1], p[2]>>] > 0
      BY <2>1, <2>3
    <3>2. p[1] \in holders
      BY <2>1, <3>1 DEF Holders
    <3>3. QED
      BY <2>3, <3>2
  <2>4. ASSUME \A p \in Parts : split[p] > 0 => answers[p[1]] = "confirmed",
               NEW c \in holders
        PROVE  answers[c] = "confirmed"
    <3>1. c \in Contributors /\ \E t \in RightTypes : split[<<c, t>>] > 0
      BY <2>4 DEF Holders
    <3>2. QED
      BY <2>2, <2>4, <3>1
  <2>5. QED
    BY <2>3, <2>4
<1>8. QED
  BY <1>4, <1>5, <1>6, <1>7 DEF Agreed, Balanced, EveryoneConfirmed

-------------------------------------------------------------------------------
(* Requests that overlap, and the history of it *)

\* The history only grows.
LEMMA HistoryGrows == [Next]_vars => raced \subseteq raced'
  BY DEF Next, Track, vars

LEMMA ApartSymmetric == \A j, k \in Kinds : Apart(j, k) <=> Apart(k, j)
<1>1. \A j, k \in Kinds : {j, k} = {k, j}
  OBVIOUS
<1>2. QED
  BY <1>1 DEF Apart

\* Which handlers the steps belong to.
LEMMA KindOf ==
    ASSUME NEW r \in Requests
    PROVE  /\ req[r].at \in SaveSteps        => Busy(r) /\ Kind(r) = "save"
           /\ req[r].at \in BumpSteps        => Busy(r) /\ Kind(r) = "bump"
           /\ req[r].at \in InviteSteps      => Busy(r) /\ Kind(r) = "invite"
           /\ req[r].at \in RespondSteps     => Busy(r) /\ Kind(r) = "respond"
           /\ req[r].at = "generateCommit"   => Busy(r) /\ Kind(r) = "generate"
           /\ Kind(r) \in Kinds
  BY DEF Busy, Kind, Kinds, SaveSteps, BumpSteps, InviteSteps, RespondSteps, AnswerSteps

\* Two requests that are running have overlapped.
LEMMA Beside ==
    ASSUME HistoryIsKept, NEW r \in Requests, NEW s \in Requests \ {r}, Busy(r), Busy(s)
    PROVE  ~Apart(Kind(r), Kind(s)) /\ ~Apart(Kind(s), Kind(r))
<1>1. {Kind(r), Kind(s)} \in Pairs
  BY KindOf DEF Pairs
<1>2. {Kind(r), Kind(s)} \in Overlaps
  BY <1>1 DEF Overlaps
<1>3. ~Apart(Kind(r), Kind(s))
  BY <1>2 DEF HistoryIsKept, Apart
<1>4. QED
  BY <1>3, KindOf, ApartSymmetric

LEMMA HistoryStep == HistoryIsKept /\ [Next]_vars => HistoryIsKept'
<1>1. CASE UNCHANGED vars
  <2>1. Overlaps' = Overlaps
    BY <1>1 DEF vars, Overlaps, Busy, Kind
  <2>2. QED
    BY <1>1, <2>1 DEF vars, HistoryIsKept
<1>2. CASE Next
  BY <1>2 DEF Next, Track, HistoryIsKept
<1>3. QED
  BY <1>1, <1>2

\* A step of one request leaves the others where they are.
LEMMA OthersStay ==
    ASSUME IInv, NEW r \in Requests, Start(r) \/ Step(r) \/ Fail(r)
    PROVE  \A s \in Requests \ {r} : req'[s] = req[s]
<1>1. req \in [Requests -> Request]
  BY DEF IInv, TypeOK, RequestsTypeOK
<1>2. CASE Start(r)
  BY <1>1, <1>2 DEF Start, SaveRead, BumpRead, InviteRead, RespondLoad, GenerateRead, Begin
<1>3. CASE \/ SaveLock(r) \/ SaveRefused(r) \/ SaveCommit(r) \/ BumpLock(r) \/ BumpRevoke(r)
           \/ BumpCommit(r) \/ BumpDuplicate(r) \/ GenerateCommit(r)
  BY <1>1, <1>3 DEF SaveLock, SaveRefused, SaveCommit, BumpLock, BumpRevoke, BumpCommit,
     BumpDuplicate, GenerateCommit, Rollback, Commit, End, Goto
<1>4. CASE \/ InviteCheck(r) \/ InviteRefused(r) \/ InviteNext(r) \/ InviteIssue(r)
           \/ InviteSong(r) \/ InviteCommit(r)
  BY <1>1, <1>4 DEF InviteCheck, InviteRefused, InviteNext, InviteIssue, InviteSong,
     InviteCommit, Rollback, Commit, End, Goto
<1>5. CASE \/ RespondLock(r) \/ RespondUsed(r) \/ RespondRecord(r)
           \/ RespondValidate(r) \/ RespondMark(r) \/ RespondCommit(r) \/ Fail(r)
  BY <1>1, <1>5 DEF RespondLock, RespondUsed, RespondRecord, RespondValidate, RespondMark,
     RespondCommit, Fail, Rollback, Commit, End, Goto
<1>6. QED
  BY <1>2, <1>3, <1>4, <1>5 DEF Step

-------------------------------------------------------------------------------
(* What is read stays so: steps that write no row *)

\* The latest version is the one that the song names.
LEMMA LatestIsCurrent == IInv => Latest = song.current
  BY DEF IInv, CurrentVersionIsLatest

\* An ended request has nothing that could be out of date.
LEMMA EndedActs ==
    ASSUME IInv, NEW r \in Requests, End(r)
    PROVE  ActsOnNow(r)'
<1>1. req'[r].at = "idle"
  BY EndLocks
<1>2. QED
  BY <1>1 DEF ActsOnNow, SaveActsOnNow, BumpActsOnNow, InviteActsOnNow, RespondActsOnNow,
     GenerateActsOnNow, SaveSteps, InviteSteps, RespondSteps, AnswerSteps

\* While no row changes, the rules about rows hold on, and so does what is read.
LEMMA QuietTables ==
    ASSUME raced \subseteq raced', UNCHANGED <<song, version, link>>
    PROVE  /\ RowsAgree => RowsAgree'
           /\ TablesHold => TablesHold'
<1>1. \A j, k : Apart(j, k)' => Apart(j, k)
  BY DEF Apart
<1>2. \A l : Outstanding(l)' = Outstanding(l)
  BY DEF Outstanding
<1>3. RowsAgree => RowsAgree'
  BY DEF RowsAgree
<1>4. TablesHold => TablesHold'
  BY <1>1, <1>2 DEF TablesHold, LinksFollowCurrentVersion, OneOutstandingLink,
     WithdrawnLinksAreUnused, CompletedIsConfirmed
<1>5. QED
  BY <1>3, <1>4

LEMMA QuietActs ==
    ASSUME raced \subseteq raced', UNCHANGED db, NEW r \in Requests, req'[r] = req[r],
           ActsOnNow(r)
    PROVE  ActsOnNow(r)'
<1>1. \A j, k : Apart(j, k)' => Apart(j, k)
  BY DEF Apart
<1>2. \A l : Outstanding(l)' = Outstanding(l)
  BY DEF Outstanding, db
<1>3. UNCHANGED <<song, version, shares, answer, link>>
  BY DEF db
<1>4. SaveActsOnNow(r)'
  BY <1>1, <1>3 DEF ActsOnNow, SaveActsOnNow
<1>5. BumpActsOnNow(r)'
  BY <1>1, <1>2, <1>3 DEF ActsOnNow, BumpActsOnNow
<1>6. InviteActsOnNow(r)'
  BY <1>1, <1>2, <1>3 DEF ActsOnNow, InviteActsOnNow
<1>7. RespondActsOnNow(r)'
  <2>1. AnswersSeen(r)' = AnswersSeen(r)
    BY <1>3 DEF AnswersSeen
  <2>2. Agreed(shares[req[r].ver], AnswersSeen(r))' = Agreed(shares[req[r].ver], AnswersSeen(r))
    BY <1>3, <2>1
  <2>3. QED
    BY <1>1, <1>3, <2>2 DEF ActsOnNow, RespondActsOnNow
<1>8. GenerateActsOnNow(r)'
  BY <1>1, <1>3 DEF ActsOnNow, GenerateActsOnNow
<1>9. QED
  BY <1>4, <1>5, <1>6, <1>7, <1>8 DEF ActsOnNow

\* A request begins with what is so.
LEMMA StartActs ==
    ASSUME IInv, RowsAgree, TablesHold, raced \subseteq raced', NEW r \in Requests, Start(r)
    PROVE  ActsOnNow(r)'
<1> USE DEF SaveSteps, BumpSteps, InviteSteps, RespondSteps, AnswerSteps
<1>1. req \in [Requests -> Request]
  BY DEF IInv, TypeOK, RequestsTypeOK
<1>2. UNCHANGED db /\ Latest = song.current
  BY LatestIsCurrent
     DEF Start, SaveRead, BumpRead, InviteRead, RespondLoad, GenerateRead, Begin
<1>3. \A j, k : Apart(j, k)' => Apart(j, k)
  BY DEF Apart
<1>4. CASE SaveRead(r)
  <2>1. /\ req'[r].at = "saveLock"
        /\ req'[r].ver = Latest
        /\ req'[r].seen = version[Latest].status
    BY <1>1, <1>4 DEF SaveRead, Begin, Idle
  <2>2. QED
    BY <1>2, <2>1 DEF db, ActsOnNow, SaveActsOnNow, BumpActsOnNow, InviteActsOnNow,
       RespondActsOnNow, GenerateActsOnNow
<1>5. CASE BumpRead(r)
  <2>1. req'[r].at = "bumpLock"
    BY <1>1, <1>5 DEF BumpRead, Begin, Idle
  <2>2. QED
    BY <2>1 DEF ActsOnNow, SaveActsOnNow, BumpActsOnNow, InviteActsOnNow,
       RespondActsOnNow, GenerateActsOnNow
<1>6. CASE InviteRead(r)
  <2>1. /\ req'[r].at = "inviteCheck"
        /\ req'[r].ver = Latest
        /\ req'[r].made = {}
    BY <1>1, <1>6 DEF InviteRead, Begin, Idle
  <2>2. QED
    BY <1>2, <2>1 DEF db, ActsOnNow, SaveActsOnNow, BumpActsOnNow, InviteActsOnNow,
       RespondActsOnNow, GenerateActsOnNow
<1>7. CASE RespondLoad(r)
  <2>1. PICK l \in LinkId :
           /\ Usable(l)
           /\ ~link[l].used
           /\ req'[r].at = "respondLock"
           /\ req'[r].ver = link[l].version
           /\ req'[r].link = l
    BY <1>1, <1>7 DEF RespondLoad, Begin, Idle
  <2>2. Outstanding(l)
    <3>1. link[l].status \in LinkStatus /\ link[l].status \notin Actions
      BY <2>1 DEF IInv, LinksConsistent, TypeOK, TablesTypeOK
    <3>2. link[l].status # "none" /\ link[l].status # "revoked"
      BY <2>1 DEF Usable, RowsAgree
    <3>3. QED
      BY <3>1, <3>2 DEF Outstanding, LinkStatus
  <2>3. Apart("invite", "bump") => link[l].version = song.current
    BY <2>2 DEF TablesHold, LinksFollowCurrentVersion
  <2>4. ~link[l].revoked
    BY <2>1 DEF Usable
  <2>5. QED
    BY <1>2, <1>3, <2>1, <2>3, <2>4 DEF db, ActsOnNow, SaveActsOnNow, BumpActsOnNow,
       InviteActsOnNow, RespondActsOnNow, GenerateActsOnNow
<1>8. CASE GenerateRead(r)
  <2>1. /\ req'[r].at = "generateCommit"
        /\ req'[r].ver = Latest
        /\ req'[r].seen = version[Latest].status
    BY <1>1, <1>8 DEF GenerateRead, Begin, Idle
  <2>2. QED
    BY <1>2, <2>1 DEF db, ActsOnNow, SaveActsOnNow, BumpActsOnNow, InviteActsOnNow,
       RespondActsOnNow, GenerateActsOnNow
<1>9. QED
  BY <1>4, <1>5, <1>6, <1>7, <1>8 DEF Start

\* The statements of a request before its last pick rows that it will act on.
LEMMA StatementActs ==
    ASSUME IInv, TablesHold, raced \subseteq raced', NEW r \in Requests, ActsOnNow(r),
           \/ SaveLock(r) \/ BumpLock(r) \/ BumpRevoke(r)
           \/ InviteCheck(r) \/ InviteNext(r) \/ InviteIssue(r) \/ InviteSong(r)
           \/ RespondLock(r) \/ RespondRecord(r) \/ RespondValidate(r) \/ RespondMark(r)
    PROVE  ActsOnNow(r)'
<1> USE DEF SaveSteps, BumpSteps, InviteSteps, RespondSteps, AnswerSteps
<1>1. req \in [Requests -> Request] /\ req[r] \in Request
  BY DEF IInv, TypeOK, RequestsTypeOK
<1>2. UNCHANGED db
  BY DEF SaveLock, BumpLock, BumpRevoke, InviteCheck, InviteNext, InviteIssue, InviteSong,
     RespondLock, RespondRecord, RespondValidate, RespondMark
<1>3. \A j, k : Apart(j, k)' => Apart(j, k)
  BY DEF Apart
<1>4. \A l : Outstanding(l)' = Outstanding(l)
  BY <1>2 DEF Outstanding, db
<1>5. CASE SaveLock(r)
  <2>1. /\ req'[r].at = "saveCommit"
        /\ req'[r].ver = req[r].ver
        /\ req[r].at = "saveLock"
        /\ req[r].seen # "confirmed"
    BY <1>1, <1>5 DEF SaveLock, Goto, Request
  <2>2. QED
    BY <1>2, <1>3, <2>1 DEF db, ActsOnNow, SaveActsOnNow, BumpActsOnNow, InviteActsOnNow,
       RespondActsOnNow, GenerateActsOnNow
<1>6. CASE BumpLock(r)
  <2>1. /\ req'[r].at = "bumpRevoke"
        /\ req'[r].ver = req[r].ver
        /\ req[r].at = "bumpLock"
        /\ req'[r].targets = {l \in LinkId : Outstanding(l) /\ link[l].version = req[r].ver}
    BY <1>1, <1>6 DEF BumpLock, Request
  <2>2. req[r].ver = song.current /\ Apart("invite", "bump") =>
           \A l \in LinkId : Outstanding(l) => l \in req'[r].targets
    BY <2>1 DEF TablesHold, LinksFollowCurrentVersion
  <2>3. QED
    BY <1>2, <1>3, <1>4, <2>1, <2>2 DEF db, ActsOnNow, SaveActsOnNow, BumpActsOnNow,
       InviteActsOnNow, RespondActsOnNow, GenerateActsOnNow
<1>7. CASE BumpRevoke(r)
  <2>1. /\ req'[r].at = "bumpCommit"
        /\ req'[r].ver = req[r].ver
        /\ req[r].at = "bumpRevoke"
        /\ req'[r].targets = req[r].targets
    BY <1>1, <1>7 DEF BumpRevoke, Goto, Request
  <2>2. QED
    BY <1>2, <1>3, <1>4, <2>1 DEF db, ActsOnNow, SaveActsOnNow, BumpActsOnNow,
       InviteActsOnNow, RespondActsOnNow, GenerateActsOnNow
<1>8. CASE InviteCheck(r) \/ InviteIssue(r) \/ InviteSong(r)
  <2>1. /\ req'[r].at \in {"inviteNext", "inviteSong", "inviteCommit"}
        /\ req'[r].ver = req[r].ver
        /\ req[r].at \in InviteSteps
        /\ req'[r].targets = req[r].targets
        /\ req'[r].made = req[r].made
    BY <1>1, <1>8
       DEF InviteCheck, InviteIssue, InviteSong, Goto, Request, NextInvitation
  <2>2. QED
    BY <1>2, <1>3, <1>4, <2>1 DEF db, ActsOnNow, SaveActsOnNow, BumpActsOnNow,
       InviteActsOnNow, RespondActsOnNow, GenerateActsOnNow
<1>9. CASE InviteNext(r)
  <2>1. PICK c \in req[r].who :
          req' = [req EXCEPT ![r].at = "inviteIssue",
                             ![r].who = @ \ {c},
                             ![r].made = @ \union {c},
                             ![r].targets = @ \union {l \in LinkId : l[1] = c /\ Outstanding(l)}]
    BY <1>9 DEF InviteNext
  <2> DEFINE links == {l \in LinkId : l[1] = c /\ Outstanding(l)}
             q == [req[r] EXCEPT !.at = "inviteIssue", !.who = @ \ {c},
                                 !.made = @ \union {c}, !.targets = @ \union links]
  <2>2. req'[r] = q
    BY <1>1, <2>1
  <2>3. /\ q.at = "inviteIssue"
        /\ q.ver = req[r].ver
        /\ q.made = req[r].made \union {c}
        /\ q.targets = req[r].targets \union links
    <3> HIDE DEF links
    <3>1. QED
      BY <1>1 DEF Request
  <2>4. req[r].at = "inviteNext"
    BY <1>9 DEF InviteNext
  <2>5. InviteActsOnNow(r)
    BY DEF ActsOnNow
  <2> HIDE DEF q
  <2>6. Apart("invite", "invite") =>
           \A l \in LinkId : l[1] \in q.made /\ Outstanding(l) => l \in q.targets
    BY <2>3, <2>4, <2>5 DEF InviteActsOnNow
  <2>7. Apart("invite", "bump") => q.ver = song.current
    BY <2>3, <2>4, <2>5 DEF InviteActsOnNow
  <2>8. InviteActsOnNow(r)'
    BY <1>2, <1>3, <1>4, <2>2, <2>6, <2>7 DEF db, InviteActsOnNow
  <2>9. QED
    BY <2>2, <2>3, <2>8 DEF ActsOnNow, SaveActsOnNow, BumpActsOnNow,
       RespondActsOnNow, GenerateActsOnNow
<1>10. CASE RespondLock(r) \/ RespondRecord(r)
  <2>1. /\ req'[r].at \in {"respondRecord", "respondValidate", "respondMark"}
        /\ req'[r].at = "respondMark" => req[r].action # "confirmed"
        /\ req'[r].ver = req[r].ver
        /\ req[r].at \in RespondSteps
        /\ req'[r].link = req[r].link
        /\ req'[r].action = req[r].action
    BY <1>1, <1>10 DEF RespondLock, RespondRecord, Goto, Request
  <2>2. QED
    BY <1>2, <1>3, <2>1 DEF db, ActsOnNow, SaveActsOnNow, BumpActsOnNow, InviteActsOnNow,
       RespondActsOnNow, GenerateActsOnNow
<1>11. CASE RespondValidate(r)
  <2>1. /\ req'[r].at \in {"respondMark", "respondCommit"}
        /\ req'[r].ver = req[r].ver
        /\ req[r].at = "respondValidate"
        /\ req'[r].link = req[r].link
        /\ req'[r].action = req[r].action
        /\ req'[r].valid = Agreed(shares[req[r].ver], AnswersSeen(r))
    BY <1>1, <1>11 DEF RespondValidate, Request
  <2>2. AnswersSeen(r)' = AnswersSeen(r)
    BY <1>2, <2>1 DEF db, AnswersSeen
  <2>3. (Agreed(shares[req[r].ver], AnswersSeen(r)))'
           = Agreed(shares[req[r].ver], AnswersSeen(r))
    BY <1>2, <2>1, <2>2 DEF db
  <2>4. QED
    BY <1>2, <1>3, <2>1, <2>3 DEF db, ActsOnNow, SaveActsOnNow, BumpActsOnNow,
       InviteActsOnNow, RespondActsOnNow, GenerateActsOnNow
<1>12. CASE RespondMark(r)
  <2>1. /\ req'[r].at = "respondCommit"
        /\ req'[r].ver = req[r].ver
        /\ req[r].at = "respondMark"
        /\ req'[r].link = req[r].link
        /\ req'[r].action = req[r].action
        /\ req'[r].valid = req[r].valid
    BY <1>1, <1>12 DEF RespondMark, Goto, Request
  <2>2. AnswersSeen(r)' = AnswersSeen(r)
    BY <1>2, <2>1 DEF db, AnswersSeen
  <2>3. (Agreed(shares[req[r].ver], AnswersSeen(r)))'
           = Agreed(shares[req[r].ver], AnswersSeen(r))
    BY <1>2, <2>1, <2>2 DEF db
  <2>4. QED
    BY <1>2, <1>3, <2>1, <2>3 DEF db, ActsOnNow, SaveActsOnNow, BumpActsOnNow,
       InviteActsOnNow, RespondActsOnNow, GenerateActsOnNow
<1>13. QED
  BY <1>5, <1>6, <1>7, <1>8, <1>9, <1>10, <1>11, <1>12

-------------------------------------------------------------------------------
(* What is read stays so: the last steps, which write *)

\* The tables before a step that writes them.
LEMMA TablesTyped ==
    ASSUME IInv
    PROVE  /\ song \in [status : SongStatus, current : VersionNo]
           /\ version \in [VersionNo -> [status : VersionStatus, confirmedAt : BOOLEAN]]
           /\ shares \in [VersionNo -> [Parts -> 0..Whole]]
           /\ answer \in [VersionNo -> [Contributors -> Actions \union {"none"}]]
           /\ link \in [LinkId -> [status : LinkStatus, version : {0} \union VersionNo,
                                   used : BOOLEAN, revoked : BOOLEAN]]
           /\ \A r \in Requests : req[r].at # "idle" =>
                 req[r].ver \in VersionNo /\ req[r].ver \in Existing
           /\ \A r \in Requests : req[r].at \in RespondSteps => req[r].link \in LinkId
           /\ \A l \in LinkId : Outstanding(l) => ~link[l].used
  BY ExistingType DEF IInv, TypeOK, TablesTypeOK, ReadsFit, ReadsFitOf, LinksConsistent,
     Outstanding, Actions

\* A save changes the statuses of its version and of the song, and the splits.
LEMMA SaveWrites ==
    ASSUME IInv, NEW r \in Requests, SaveCommit(r)
    PROVE  /\ song'.current = song.current
           /\ song'.status # "completed"
           /\ link' = link
           /\ \A v \in VersionNo : /\ v # req[r].ver => version'[v] = version[v]
                                   /\ version'[req[r].ver].status \in {"proposed", "draft"}
<1>1. PICK status \in {"proposed", "draft"} :
        /\ song' = [song EXCEPT !.status = status]
        /\ version' = [version EXCEPT ![req[r].ver].status = status]
        /\ link' = link
  BY DEF SaveCommit
<1>2. req[r].ver \in VersionNo
  BY TablesTyped DEF SaveCommit
<1>3. QED
  BY <1>1, <1>2, TablesTyped

LEMMA SaveKeeps ==
    ASSUME IInv, HistoryIsKept, RowsAgree, TablesHold, raced \subseteq raced',
           NEW r \in Requests, SaveCommit(r),
           \A s \in Requests \ {r} : req'[s] = req[s] /\ ActsOnNow(s)
    PROVE  /\ RowsAgree' /\ TablesHold'
           /\ \A s \in Requests \ {r} : ActsOnNow(s)'
<1>1. \A j, k : Apart(j, k)' => Apart(j, k)
  BY DEF Apart
<1>2. \A l : Outstanding(l)' = Outstanding(l)
  BY SaveWrites DEF Outstanding
<1>3. RowsAgree'
  BY SaveWrites DEF RowsAgree
<1>4. TablesHold'
  BY <1>1, <1>2, SaveWrites DEF TablesHold, LinksFollowCurrentVersion, OneOutstandingLink,
     WithdrawnLinksAreUnused, CompletedIsConfirmed
<1>5. ASSUME NEW s \in Requests \ {r}
      PROVE  ActsOnNow(s)'
  <2>1. /\ req[s].at \in RespondSteps => ~Apart("respond", "save")
        /\ req[s].at = "generateCommit" => ~Apart("generate", "save")
    BY Beside, KindOf DEF SaveCommit, SaveSteps
  <2>2. SaveActsOnNow(s)'
    <3>1. req[s].at \in SaveSteps => req[s].ver \in VersionNo
      BY TablesTyped DEF SaveSteps
    <3>2. req[s].at \in SaveSteps =>
             (version'[req[s].ver].status = "confirmed" =>
                version[req[s].ver].status = "confirmed")
      BY <3>1, SaveWrites
    <3>3. QED
      BY <1>1, <1>5, <3>2, SaveWrites DEF ActsOnNow, SaveActsOnNow, SaveSteps
  <2>3. BumpActsOnNow(s)' /\ InviteActsOnNow(s)'
    BY <1>1, <1>2, <1>5, SaveWrites DEF ActsOnNow, BumpActsOnNow, InviteActsOnNow
  <2>4. RespondActsOnNow(s)'
    BY <1>1, <1>5, <2>1, SaveWrites
       DEF ActsOnNow, RespondActsOnNow, RespondSteps, AnswerSteps
  <2>5. GenerateActsOnNow(s)'
    BY <1>1, <1>5, <2>1 DEF GenerateActsOnNow, Kinds
  <2>6. QED
    BY <2>2, <2>3, <2>4, <2>5 DEF ActsOnNow
<1>6. QED
  BY <1>3, <1>4, <1>5

\* A bump that goes through supersedes the current version, and withdraws the
\* links that it has picked.
LEMMA BumpWrites ==
    ASSUME IInv, NEW r \in Requests, BumpCommit(r)
    PROVE  /\ req[r].ver = song.current
           /\ song' = [status |-> "draft", current |-> song.current + 1]
           /\ song.current \in VersionNo /\ song.current + 1 \in VersionNo
           /\ song.current + 1 \notin Existing
           /\ version'[song.current].status = "superseded"
           /\ version'[song.current + 1].status = "draft"
           /\ \A v \in VersionNo \ {song.current, song.current + 1} : version'[v] = version[v]
           /\ \A v \in VersionNo \ {song.current + 1} : shares'[v] = shares[v]
           /\ answer' = answer
           /\ \A l \in LinkId :
                 link'[l] = IF l \in req[r].targets /\ Outstanding(l)
                            THEN [link[l] EXCEPT !.status = "revoked", !.revoked = TRUE]
                            ELSE link[l]
<1>1. /\ req[r].ver \in VersionNo /\ req[r].ver \in Existing
      /\ req[r].ver + 1 \notin Existing
      /\ req[r].ver < MaxVersion
  BY TablesTyped DEF BumpCommit, IInv, ReadsFit, ReadsFitOf, BumpSteps
<1>2. Existing = 1..song.current /\ song.current \in VersionNo
  BY TablesTyped DEF IInv, CurrentVersionIsLatest
<1>3. req[r].ver = song.current
  BY <1>1, <1>2 DEF VersionNo
<1> DEFINE w == song.current
           n == song.current + 1
<1>4. w \in VersionNo /\ n \in VersionNo /\ w # n
  BY <1>1, <1>2, <1>3 DEF VersionNo
<1>5. /\ song' = [status |-> "draft", current |-> n]
      /\ version' = [version EXCEPT ![w].status = "superseded", ![n].status = "draft"]
      /\ shares' = [shares EXCEPT ![n] = shares[w]]
      /\ answer' = answer
  BY <1>3 DEF BumpCommit
<1>6. \A l \in LinkId :
         link'[l] = IF l \in req[r].targets /\ Outstanding(l)
                    THEN [link[l] EXCEPT !.status = "revoked", !.revoked = TRUE]
                    ELSE link[l]
  BY DEF BumpCommit, Revoked
<1>7. n \notin Existing
  BY <1>1, <1>3
<1> HIDE DEF w, n
<1>8. /\ version'[w].status = "superseded"
      /\ version'[n].status = "draft"
      /\ \A v \in VersionNo \ {w, n} : version'[v] = version[v]
      /\ \A v \in VersionNo \ {n} : shares'[v] = shares[v]
  BY <1>4, <1>5, TablesTyped
<1>9. QED
  BY <1>3, <1>4, <1>5, <1>6, <1>7, <1>8 DEF w, n

LEMMA BumpKeeps ==
    ASSUME IInv, HistoryIsKept, RowsAgree, TablesHold, raced \subseteq raced',
           NEW r \in Requests, BumpCommit(r), BumpActsOnNow(r),
           \A s \in Requests \ {r} : req'[s] = req[s] /\ ActsOnNow(s)
    PROVE  /\ RowsAgree' /\ TablesHold'
           /\ \A s \in Requests \ {r} : ActsOnNow(s)'
<1>1. \A j, k : Apart(j, k)' => Apart(j, k)
  BY DEF Apart
<1>2. ASSUME NEW l \in LinkId
      PROVE  /\ Outstanding(l)' => Outstanding(l) /\ ~Apart("invite", "bump")
             /\ link'[l].version = link[l].version
             /\ link'[l].used = link[l].used
             /\ link'[l].status = "revoked" => link'[l].revoked
             /\ link'[l].revoked => link[l].revoked \/ Outstanding(l)
  <2>1. Apart("invite", "bump") /\ Outstanding(l) => l \in req[r].targets
    BY BumpWrites DEF BumpCommit, BumpActsOnNow
  <2>2. link[l] \in [status : LinkStatus, version : {0} \union VersionNo,
                     used : BOOLEAN, revoked : BOOLEAN]
    BY TablesTyped
  <2>3. CASE l \in req[r].targets /\ Outstanding(l)
    <3>1. link'[l] = [link[l] EXCEPT !.status = "revoked", !.revoked = TRUE]
      BY <2>3, BumpWrites
    <3>2. QED
      BY <2>2, <2>3, <3>1 DEF Outstanding
  <2>4. CASE ~(l \in req[r].targets /\ Outstanding(l))
    <3>1. link'[l] = link[l]
      BY <2>4, BumpWrites
    <3>2. QED
      BY <2>1, <2>4, <3>1 DEF Outstanding, RowsAgree
  <2>5. QED
    BY <2>3, <2>4
<1>3. /\ song.current \in VersionNo
      /\ song' = [status |-> "draft", current |-> song.current + 1]
      /\ song'.status = "draft" /\ song'.current = song.current + 1
  <2>1. song.current \in VersionNo /\ song' = [status |-> "draft", current |-> song.current + 1]
    BY BumpWrites
  <2>2. QED
    BY <2>1
<1>4. RowsAgree'
  <2>1. \A v \in VersionNo : version'[v].status = "superseded" => v < song'.current
    <3>1. song.current \in Nat /\ song'.current = song.current + 1
      BY <1>3 DEF VersionNo
    <3>2. ASSUME NEW v \in VersionNo, version'[v].status = "superseded"
          PROVE  v = song.current \/ v < song.current
      BY <3>2, BumpWrites DEF RowsAgree
    <3>3. QED
      BY <3>1, <3>2 DEF VersionNo
  <2>2. QED
    BY <1>2, <2>1 DEF RowsAgree
<1>5. TablesHold'
  <2>1. LinksFollowCurrentVersion' /\ OneOutstandingLink'
    BY <1>1, <1>2 DEF TablesHold, LinksFollowCurrentVersion, OneOutstandingLink
  <2>2. WithdrawnLinksAreUnused'
    BY <1>1, <1>2, TablesTyped DEF TablesHold, WithdrawnLinksAreUnused
  <2>3. CompletedIsConfirmed'
    BY <1>3 DEF CompletedIsConfirmed
  <2>4. QED
    BY <2>1, <2>2, <2>3 DEF TablesHold
<1>6. ASSUME NEW s \in Requests \ {r}
      PROVE  ActsOnNow(s)'
  <2>1. /\ req[s].at \in SaveSteps => ~Apart("save", "bump")
        /\ req[s].at \in InviteSteps => ~Apart("invite", "bump")
        /\ req[s].at \in RespondSteps => ~Apart("respond", "bump")
        /\ req[s].at = "generateCommit" => ~Apart("generate", "bump")
    BY Beside, KindOf DEF BumpCommit, BumpSteps
  <2>2. req'[s] = req[s] /\ ActsOnNow(s)
    BY <1>6
  <2>3. req[s].at # "idle" => req[s].ver \in VersionNo /\ req[s].ver # song.current + 1
    BY TablesTyped, BumpWrites
  <2>4. SaveActsOnNow(s)'
    <3>1. req[s].at \in SaveSteps =>
             (version'[req[s].ver].status = "confirmed" =>
                version[req[s].ver].status = "confirmed")
      BY <2>3, BumpWrites DEF SaveSteps
    <3>2. QED
      BY <1>1, <2>1, <2>2, <3>1 DEF ActsOnNow, SaveActsOnNow, SaveSteps
  <2>5. BumpActsOnNow(s)'
    BY <1>1, <1>2 DEF BumpActsOnNow
  <2>6. InviteActsOnNow(s)'
    BY <1>1, <1>2, <2>1, <2>2 DEF ActsOnNow, InviteActsOnNow
  <2>7. RespondActsOnNow(s)'
    <3>1. req[s].at \in RespondSteps => /\ shares'[req[s].ver] = shares[req[s].ver]
                                        /\ AnswersSeen(s)' = AnswersSeen(s)
      BY <2>2, <2>3, BumpWrites DEF AnswersSeen, RespondSteps, AnswerSteps
    <3>2. req[s].at \in RespondSteps =>
             (Agreed(shares[req[s].ver], AnswersSeen(s))' <=>
                Agreed(shares[req[s].ver], AnswersSeen(s)))
      BY <2>2, <3>1
    <3>3. QED
      BY <1>1, <2>1, <2>2, <3>2
         DEF ActsOnNow, RespondActsOnNow, RespondSteps, AnswerSteps
  <2>8. GenerateActsOnNow(s)'
    BY <1>1, <2>1, <2>2 DEF GenerateActsOnNow, Kinds
  <2>9. QED
    BY <2>4, <2>5, <2>6, <2>7, <2>8 DEF ActsOnNow
<1>7. QED
  BY <1>4, <1>5, <1>6

\* Two new links of one invitation are for different contributors.
LEMMA NewLinksDiffer ==
    ASSUME NEW made, NEW k \in LinkId, NEW l \in LinkId, k[1] = l[1],
           NewLink(k, made), NewLink(l, made)
    PROVE  k = l
<1>1. /\ k = <<k[1], k[2]>> /\ l = <<l[1], l[2]>>
      /\ k[2] \in 1..MaxLinks[k[1]] /\ l[2] \in 1..MaxLinks[k[1]]
      /\ MaxLinks[k[1]] \in Nat
  BY LinkIdMember
<1>2. ~(k[2] < l[2])
  <2>1. k[2] < l[2] => k[2] \in Issued(l[1])
    BY <1>1 DEF NewLink
  <2>2. k[2] \in Issued(l[1]) => link[k].status # "none"
    BY <1>1 DEF Issued
  <2>3. QED
    BY <2>1, <2>2 DEF NewLink
<1>3. ~(l[2] < k[2])
  <2>1. l[2] < k[2] => l[2] \in Issued(k[1])
    BY <1>1 DEF NewLink
  <2>2. l[2] \in Issued(k[1]) => link[l].status # "none"
    BY <1>1 DEF Issued
  <2>3. QED
    BY <2>1, <2>2 DEF NewLink
<1>4. QED
  BY <1>1, <1>2, <1>3

\* An invitation issues new links and withdraws those that it has picked.
LEMMA InviteWrites ==
    ASSUME IInv, NEW r \in Requests, InviteCommit(r)
    PROVE  /\ song'.current = song.current
           /\ song'.status # "completed"
           /\ version'[req[r].ver].status = "proposed"
           /\ \A v \in VersionNo \ {req[r].ver} : version'[v] = version[v]
           /\ UNCHANGED <<shares, answer>>
           /\ \A l \in LinkId :
                 /\ NewLink(l, req[r].made) =>
                       /\ l[1] \in req[r].made
                       /\ link'[l] = [status |-> "pending", version |-> req[r].ver,
                                      used |-> FALSE, revoked |-> FALSE]
                 /\ ~NewLink(l, req[r].made) =>
                       link'[l] = IF l \in req[r].targets /\ Outstanding(l)
                                  THEN [link[l] EXCEPT !.status = "revoked", !.revoked = TRUE]
                                  ELSE link[l]
<1>1. req[r].ver \in VersionNo
  BY TablesTyped DEF InviteCommit
<1>2. /\ song' = [song EXCEPT !.status = "proposed"]
      /\ version' = [version EXCEPT ![req[r].ver].status = "proposed"]
      /\ UNCHANGED <<shares, answer>>
  BY DEF InviteCommit
<1>3. /\ song'.current = song.current
      /\ song'.status # "completed"
      /\ version'[req[r].ver].status = "proposed"
      /\ \A v \in VersionNo \ {req[r].ver} : version'[v] = version[v]
  BY <1>1, <1>2, TablesTyped
<1>4. QED
  BY <1>2, <1>3 DEF InviteCommit, Revoked, NewLink

LEMMA InviteKeeps ==
    ASSUME IInv, HistoryIsKept, RowsAgree, TablesHold, raced \subseteq raced',
           NEW r \in Requests, InviteCommit(r), InviteActsOnNow(r),
           \A s \in Requests \ {r} : req'[s] = req[s] /\ ActsOnNow(s)
    PROVE  /\ RowsAgree' /\ TablesHold'
           /\ \A s \in Requests \ {r} : ActsOnNow(s)'
<1> DEFINE made == req[r].made
<1>1. \A j, k : Apart(j, k)' => Apart(j, k)
  BY DEF Apart
<1>2. /\ Apart("invite", "bump") => req[r].ver = song.current
      /\ Apart("invite", "invite") =>
            \A l \in LinkId : l[1] \in made /\ Outstanding(l) => l \in req[r].targets
  BY DEF InviteCommit, InviteActsOnNow, InviteSteps
<1>3. ASSUME NEW l \in LinkId, NewLink(l, made)
      PROVE  /\ Outstanding(l)'
             /\ l[1] \in made
             /\ link'[l].version = req[r].ver
             /\ link'[l].used = FALSE /\ link'[l].revoked = FALSE
             /\ link'[l].status = "pending"
  <2>1. l[1] \in made
    BY <1>3 DEF NewLink
  <2>2. link'[l] = [status |-> "pending", version |-> req[r].ver,
                    used |-> FALSE, revoked |-> FALSE]
    BY <1>3, InviteWrites
  <2> HIDE DEF made
  <2>3. QED
    BY <2>1, <2>2 DEF Outstanding
<1>4. ASSUME NEW l \in LinkId, ~NewLink(l, made)
      PROVE  /\ Outstanding(l)' => Outstanding(l) /\ (Apart("invite", "invite") => l[1] \notin made)
             /\ link'[l].version = link[l].version
             /\ link'[l].used = link[l].used
             /\ link'[l].status = "revoked" => link'[l].revoked
             /\ link'[l].revoked => link[l].revoked \/ Outstanding(l)
  <2>1. link[l] \in [status : LinkStatus, version : {0} \union VersionNo,
                     used : BOOLEAN, revoked : BOOLEAN]
    BY TablesTyped
  <2>2. CASE l \in req[r].targets /\ Outstanding(l)
    <3>1. link'[l] = [link[l] EXCEPT !.status = "revoked", !.revoked = TRUE]
      BY <1>4, <2>2, InviteWrites
    <3>2. QED
      BY <2>1, <2>2, <3>1 DEF Outstanding
  <2>3. CASE ~(l \in req[r].targets /\ Outstanding(l))
    <3>1. link'[l] = link[l]
      BY <1>4, <2>3, InviteWrites
    <3>2. QED
      BY <1>2, <2>3, <3>1 DEF Outstanding, RowsAgree
  <2>4. QED
    BY <2>2, <2>3
<1>5. RowsAgree'
  <2>1. \A v \in VersionNo : version'[v].status = "superseded" =>
                                version[v].status = "superseded"
    BY InviteWrites
  <2>2. QED
    BY <1>3, <1>4, <2>1, InviteWrites DEF RowsAgree
<1>6. TablesHold'
  <2>1. LinksFollowCurrentVersion'
    BY <1>1, <1>2, <1>3, <1>4, InviteWrites DEF TablesHold, LinksFollowCurrentVersion
  <2>2. OneOutstandingLink'
    <3> SUFFICES ASSUME Apart("invite", "invite"), NEW k \in LinkId, NEW l \in LinkId,
                        k[1] = l[1], Outstanding(k)', Outstanding(l)'
                 PROVE  k = l
      BY <1>1 DEF OneOutstandingLink
    <3>1. CASE k[1] \in made
      BY <1>4, <3>1, NewLinksDiffer
    <3>2. CASE k[1] \notin made
      BY <1>3, <1>4, <3>2 DEF TablesHold, OneOutstandingLink
    <3>3. QED
      BY <3>1, <3>2
  <2>3. WithdrawnLinksAreUnused'
    BY <1>1, <1>3, <1>4, TablesTyped DEF TablesHold, WithdrawnLinksAreUnused
  <2>4. CompletedIsConfirmed'
    BY InviteWrites DEF CompletedIsConfirmed
  <2>5. QED
    BY <2>1, <2>2, <2>3, <2>4 DEF TablesHold
<1>7. ASSUME NEW s \in Requests \ {r}
      PROVE  ActsOnNow(s)'
  <2>1. /\ req[s].at \in BumpSteps => ~Apart("invite", "bump")
        /\ req[s].at \in InviteSteps => ~Apart("invite", "invite")
        /\ req[s].at \in RespondSteps => ~Apart("respond", "invite")
        /\ req[s].at = "generateCommit" => ~Apart("generate", "invite")
    BY Beside, KindOf DEF InviteCommit, InviteSteps
  <2>2. req'[s] = req[s] /\ ActsOnNow(s)
    BY <1>7
  <2>3. SaveActsOnNow(s)'
    <3>1. req[s].at \in SaveSteps => req[s].ver \in VersionNo
      BY TablesTyped DEF SaveSteps
    <3>2. req[s].at \in SaveSteps =>
             (version'[req[s].ver].status = "confirmed" =>
                version[req[s].ver].status = "confirmed")
      BY <3>1, InviteWrites
    <3>3. QED
      BY <1>1, <2>2, <3>2, InviteWrites DEF ActsOnNow, SaveActsOnNow, SaveSteps
  <2>4. BumpActsOnNow(s)'
    BY <1>1, <2>1, <2>2 DEF BumpActsOnNow, BumpSteps
  <2>5. InviteActsOnNow(s)'
    BY <1>1, <2>1, <2>2, InviteWrites DEF ActsOnNow, InviteActsOnNow
  <2>6. RespondActsOnNow(s)'
    <3>1. AnswersSeen(s)' = AnswersSeen(s)
      BY <2>2, InviteWrites DEF AnswersSeen
    <3>2. Agreed(shares[req[s].ver], AnswersSeen(s))' <=>
             Agreed(shares[req[s].ver], AnswersSeen(s))
      BY <2>2, <3>1, InviteWrites
    <3>3. QED
      BY <1>1, <2>1, <2>2, <3>2, InviteWrites DEF ActsOnNow, RespondActsOnNow
  <2>7. GenerateActsOnNow(s)'
    BY <1>1, <2>1, <2>2 DEF GenerateActsOnNow, Kinds
  <2>8. QED
    BY <2>3, <2>4, <2>5, <2>6, <2>7 DEF ActsOnNow
<1>8. QED
  BY <1>5, <1>6, <1>7

\* An answer closes its link and may confirm its version.
LEMMA RespondWrites ==
    ASSUME IInv, NEW r \in Requests, RespondCommit(r)
    PROVE  /\ song'.current = song.current
           /\ song'.status # "completed"
           /\ version'[req[r].ver].status # "superseded" \/ version' = version
           /\ \A v \in VersionNo \ {req[r].ver} : version'[v] = version[v]
           /\ shares' = shares
           /\ req[r].link \in LinkId /\ req[r].action \in Actions
           /\ link'[req[r].link].status = req[r].action
           /\ link'[req[r].link].used = TRUE
           /\ link'[req[r].link].version = link[req[r].link].version
           /\ link'[req[r].link].revoked = link[req[r].link].revoked
           /\ \A l \in LinkId \ {req[r].link} : link'[l] = link[l]
<1> DEFINE k == req[r].link
           w == req[r].ver
<1>1. w \in VersionNo /\ k \in LinkId /\ req[r].action \in Actions
  BY TablesTyped, AnswerReady DEF RespondCommit
<1>2. song'.current = song.current /\ song'.status # "completed"
  BY TablesTyped DEF RespondCommit
<1>3. /\ version'[w].status # "superseded" \/ version' = version
      /\ \A v \in VersionNo \ {w} : version'[v] = version[v]
  <2>1. \/ version' = version
        \/ version' = [version EXCEPT ![w].status = "draft"]
        \/ version' = [version EXCEPT ![w] = [status |-> "confirmed", confirmedAt |-> TRUE]]
    BY DEF RespondCommit
  <2> HIDE DEF w
  <2>2. QED
    BY <1>1, <2>1, TablesTyped
<1>4. shares' = shares /\ link' = [link EXCEPT ![k].status = req[r].action, ![k].used = TRUE]
  BY DEF RespondCommit
<1> HIDE DEF k
<1>5. /\ link'[k].status = req[r].action
      /\ link'[k].used = TRUE
      /\ link'[k].version = link[k].version
      /\ link'[k].revoked = link[k].revoked
      /\ \A l \in LinkId \ {k} : link'[l] = link[l]
  BY <1>1, <1>4, TablesTyped
<1>6. QED
  BY <1>1, <1>2, <1>3, <1>4, <1>5 DEF k

LEMMA RespondKeeps ==
    ASSUME IInv, HistoryIsKept, RowsAgree, TablesHold, raced \subseteq raced',
           NEW r \in Requests, RespondCommit(r), RespondActsOnNow(r),
           \A s \in Requests \ {r} : req'[s] = req[s] /\ ActsOnNow(s)
    PROVE  /\ RowsAgree' /\ TablesHold'
           /\ \A s \in Requests \ {r} : ActsOnNow(s)'
<1> DEFINE k == req[r].link
<1>1. \A j, i : Apart(j, i)' => Apart(j, i)
  BY DEF Apart
<1>2. Apart("respond", "bump") /\ Apart("respond", "invite") => ~link[k].revoked
  BY DEF RespondCommit, RespondActsOnNow, RespondSteps, AnswerSteps
<1>3. k \in LinkId /\ req[r].action \in Actions
  BY RespondWrites
<1>4. ASSUME NEW l \in LinkId
      PROVE  /\ Outstanding(l)' => Outstanding(l)
             /\ link'[l].version = link[l].version
             /\ link'[l].revoked = link[l].revoked
             /\ link'[l].used => link[l].used \/ l = k
             /\ link'[l].status = "revoked" => link[l].status = "revoked"
  <2>1. CASE l = k
    <3>1. link'[l].status \in Actions
      BY <2>1, RespondWrites
    <3>2. /\ link'[l].version = link[l].version
          /\ link'[l].revoked = link[l].revoked
      BY <2>1, RespondWrites
    <3>3. QED
      BY <2>1, <3>1, <3>2 DEF Outstanding, Actions
  <2>2. CASE l # k
    <3>1. link'[l] = link[l]
      BY <2>2, RespondWrites
    <3>2. QED
      BY <3>1 DEF Outstanding
  <2>3. QED
    BY <2>1, <2>2
<1>5. song'.current = song.current
  BY RespondWrites
<1>6. RowsAgree'
  <2>1. \A v \in VersionNo : version'[v].status = "superseded" =>
                                version[v].status = "superseded"
    BY RespondWrites
  <2>2. QED
    BY <1>4, <1>5, <2>1 DEF RowsAgree
<1>7. TablesHold'
  <2>1. LinksFollowCurrentVersion' /\ OneOutstandingLink'
    BY <1>1, <1>4, <1>5 DEF TablesHold, LinksFollowCurrentVersion, OneOutstandingLink
  <2>2. WithdrawnLinksAreUnused'
    BY <1>1, <1>2, <1>4 DEF TablesHold, WithdrawnLinksAreUnused
  <2>3. CompletedIsConfirmed'
    BY RespondWrites DEF CompletedIsConfirmed
  <2>4. QED
    BY <2>1, <2>2, <2>3 DEF TablesHold
<1>8. ASSUME NEW s \in Requests \ {r}
      PROVE  ActsOnNow(s)'
  <2>1. /\ req[s].at \in SaveSteps => ~Apart("save", "respond")
        /\ req[s].at \in RespondSteps => ~Apart("respond", "respond")
        /\ req[s].at = "generateCommit" => ~Apart("generate", "respond")
    BY Beside, KindOf DEF RespondCommit, RespondSteps, AnswerSteps
  <2>2. req'[s] = req[s] /\ ActsOnNow(s)
    BY <1>8
  <2>3. SaveActsOnNow(s)'
    BY <1>1, <1>5, <2>1, <2>2 DEF ActsOnNow, SaveActsOnNow, SaveSteps
  <2>4. BumpActsOnNow(s)' /\ InviteActsOnNow(s)'
    BY <1>1, <1>4, <1>5, <2>2 DEF ActsOnNow, BumpActsOnNow, InviteActsOnNow
  <2>5. RespondActsOnNow(s)'
    <3>1. req[s].at \in RespondSteps => link'[req[s].link].revoked = link[req[s].link].revoked
      BY <1>4, TablesTyped
    <3>2. QED
      BY <1>1, <1>5, <2>1, <2>2, <3>1
         DEF ActsOnNow, RespondActsOnNow, RespondSteps, AnswerSteps
  <2>6. GenerateActsOnNow(s)'
    BY <1>1, <2>1, <2>2 DEF GenerateActsOnNow, Kinds
  <2>7. QED
    BY <2>3, <2>4, <2>5, <2>6 DEF ActsOnNow
<1>9. QED
  BY <1>6, <1>7, <1>8

\* Generating an agreement writes no row that another request depends on.
LEMMA GenerateKeeps ==
    ASSUME IInv, RowsAgree, TablesHold, raced \subseteq raced',
           NEW r \in Requests, GenerateCommit(r), GenerateActsOnNow(r),
           \A s \in Requests \ {r} : req'[s] = req[s] /\ ActsOnNow(s)
    PROVE  /\ RowsAgree' /\ TablesHold'
           /\ \A s \in Requests \ {r} : ActsOnNow(s)'
<1>1. \A j, k : Apart(j, k)' => Apart(j, k)
  BY DEF Apart
<1>2. song'.current = song.current /\ UNCHANGED <<version, shares, answer, link>>
  BY TablesTyped DEF GenerateCommit
<1>3. \A l : Outstanding(l)' = Outstanding(l)
  BY <1>2 DEF Outstanding
<1>4. RowsAgree'
  BY <1>2 DEF RowsAgree
<1>5. TablesHold'
  <2>1. /\ LinksFollowCurrentVersion' /\ OneOutstandingLink'
        /\ WithdrawnLinksAreUnused'
    BY <1>1, <1>2, <1>3 DEF TablesHold, LinksFollowCurrentVersion, OneOutstandingLink,
       WithdrawnLinksAreUnused
  <2>2. CompletedIsConfirmed'
    <3>1. CASE req[r].seen = "confirmed"
      BY <1>1, <1>2, <3>1 DEF GenerateCommit, GenerateActsOnNow, CompletedIsConfirmed
    <3>2. CASE req[r].seen # "confirmed"
      <4>1. song' = song
        BY <3>2 DEF GenerateCommit
      <4>2. QED
        BY <1>1, <1>2, <4>1 DEF TablesHold, CompletedIsConfirmed
    <3>3. QED
      BY <3>1, <3>2
  <2>3. QED
    BY <2>1, <2>2 DEF TablesHold
<1>6. ASSUME NEW s \in Requests \ {r}
      PROVE  ActsOnNow(s)'
  <2>1. SaveActsOnNow(s)' /\ GenerateActsOnNow(s)'
    BY <1>1, <1>2, <1>6 DEF ActsOnNow, SaveActsOnNow, GenerateActsOnNow
  <2>2. BumpActsOnNow(s)' /\ InviteActsOnNow(s)'
    BY <1>1, <1>2, <1>3, <1>6 DEF ActsOnNow, BumpActsOnNow, InviteActsOnNow
  <2>3. RespondActsOnNow(s)'
    <3>1. AnswersSeen(s)' = AnswersSeen(s)
      BY <1>2, <1>6 DEF AnswersSeen
    <3>2. Agreed(shares[req[s].ver], AnswersSeen(s))' <=>
             Agreed(shares[req[s].ver], AnswersSeen(s))
      BY <1>2, <1>6, <3>1
    <3>3. QED
      BY <1>1, <1>2, <1>6, <3>2 DEF ActsOnNow, RespondActsOnNow
  <2>4. QED
    BY <2>1, <2>2, <2>3 DEF ActsOnNow
<1>7. QED
  BY <1>4, <1>5, <1>6

\* Opening a link, and the clock, change neither which links are outstanding
\* nor what a request has read.
LEMMA LinkKeeps ==
    ASSUME IInv, RowsAgree, TablesHold, raced \subseteq raced',
           NEW l \in LinkId, View(l) \/ Expire(l),
           \A r \in Requests : ActsOnNow(r)
    PROVE  RowsAgree' /\ TablesHold' /\ (\A r \in Requests : ActsOnNow(r)')
<1>1. \A j, k : Apart(j, k)' => Apart(j, k)
  BY DEF Apart
<1>2. UNCHANGED <<song, version, shares, answer, req>>
  BY DEF View, Expire
<1>3. ASSUME NEW k \in LinkId
      PROVE  /\ Outstanding(k)' = Outstanding(k)
             /\ link'[k].version = link[k].version
             /\ link'[k].used = link[k].used
             /\ link'[k].revoked = link[k].revoked
             /\ link'[k].status = "revoked" => link[k].status = "revoked"
  BY TablesTyped DEF View, Expire, Outstanding
<1>4. RowsAgree' /\ TablesHold'
  BY <1>1, <1>2, <1>3 DEF RowsAgree, TablesHold, LinksFollowCurrentVersion, OneOutstandingLink,
     WithdrawnLinksAreUnused, CompletedIsConfirmed
<1>5. ASSUME NEW r \in Requests
      PROVE  ActsOnNow(r)'
  <2>1. SaveActsOnNow(r)' /\ GenerateActsOnNow(r)'
    BY <1>1, <1>2, <1>5 DEF ActsOnNow, SaveActsOnNow, GenerateActsOnNow
  <2>2. BumpActsOnNow(r)' /\ InviteActsOnNow(r)'
    BY <1>1, <1>2, <1>3, <1>5 DEF ActsOnNow, BumpActsOnNow, InviteActsOnNow
  <2>3. RespondActsOnNow(r)'
    <3>1. AnswersSeen(r)' = AnswersSeen(r)
      BY <1>2 DEF AnswersSeen
    <3>2. Agreed(shares[req[r].ver], AnswersSeen(r))' <=>
             Agreed(shares[req[r].ver], AnswersSeen(r))
      BY <1>2, <3>1
    <3>3. req[r].at \in RespondSteps => link'[req[r].link].revoked = link[req[r].link].revoked
      BY <1>3, TablesTyped
    <3>4. QED
      BY <1>1, <1>2, <3>2, <3>3 DEF ActsOnNow, RespondActsOnNow
  <2>4. QED
    BY <2>1, <2>2, <2>3 DEF ActsOnNow
<1>6. QED
  BY <1>4, <1>5

-------------------------------------------------------------------------------
(* The invariant of the races *)

LEMMA RaceStep ==
    ASSUME IInv, RaceInv, [Next]_vars
    PROVE  RaceInv'
<1>1. /\ raced \subseteq raced' /\ HistoryIsKept' /\ HistoryIsKept /\ RowsAgree /\ TablesHold
      /\ \A s \in Requests : ActsOnNow(s)
  BY HistoryGrows, HistoryStep DEF RaceInv
<1>2. CASE UNCHANGED vars
  <2>1. UNCHANGED db /\ req' = req
    BY <1>2 DEF vars, db
  <2>2. RowsAgree' /\ TablesHold'
    BY <1>1, <2>1, QuietTables DEF db
  <2>3. \A s \in Requests : ActsOnNow(s)'
    BY <1>1, <2>1, QuietActs
  <2>4. QED
    BY <1>1, <2>2, <2>3 DEF RaceInv
<1>3. ASSUME NEW r \in Requests, Start(r) \/ Step(r) \/ Fail(r)
      PROVE  RaceInv'
  <2>1. \A s \in Requests \ {r} : req'[s] = req[s] /\ ActsOnNow(s)
    BY <1>1, <1>3, OthersStay
  <2>2. ActsOnNow(r)
    BY <1>1
  <2>3. ASSUME UNCHANGED db, ActsOnNow(r)'
        PROVE  RaceInv'
    <3>1. RowsAgree' /\ TablesHold'
      BY <1>1, <2>3, QuietTables DEF db
    <3>2. \A s \in Requests \ {r} : ActsOnNow(s)'
      BY <1>1, <2>1, <2>3, QuietActs
    <3>3. QED
      BY <1>1, <2>3, <3>1, <3>2 DEF RaceInv
  <2>4. CASE Start(r)
    <3>1. UNCHANGED db
      BY <2>4 DEF Start, SaveRead, BumpRead, InviteRead, RespondLoad, GenerateRead, Begin
    <3>2. QED
      BY <1>1, <2>3, <2>4, <3>1, StartActs
  <2>5. CASE \/ SaveLock(r) \/ BumpLock(r) \/ BumpRevoke(r)
             \/ InviteCheck(r) \/ InviteNext(r) \/ InviteIssue(r) \/ InviteSong(r)
             \/ RespondLock(r) \/ RespondRecord(r) \/ RespondValidate(r) \/ RespondMark(r)
    <3>1. UNCHANGED db
      BY <2>5 DEF SaveLock, BumpLock, BumpRevoke, InviteCheck, InviteNext, InviteIssue,
         InviteSong, RespondLock, RespondRecord, RespondValidate, RespondMark
    <3>2. QED
      BY <1>1, <2>2, <2>3, <2>5, <3>1, StatementActs
  <2>6. CASE SaveCommit(r) \/ BumpCommit(r) \/ InviteCommit(r) \/ RespondCommit(r)
             \/ GenerateCommit(r)
    <3>1. ActsOnNow(r)'
      BY <2>6, EndedActs
         DEF SaveCommit, BumpCommit, InviteCommit, RespondCommit, GenerateCommit, Commit
    <3>2. /\ BumpActsOnNow(r) /\ InviteActsOnNow(r) /\ RespondActsOnNow(r)
          /\ GenerateActsOnNow(r)
      BY <2>2 DEF ActsOnNow
    <3>3. RowsAgree' /\ TablesHold' /\ \A s \in Requests \ {r} : ActsOnNow(s)'
      <4>1. CASE SaveCommit(r)
        BY <1>1, <2>1, <4>1, SaveKeeps
      <4>2. CASE BumpCommit(r)
        BY <1>1, <2>1, <3>2, <4>2, BumpKeeps
      <4>3. CASE InviteCommit(r)
        BY <1>1, <2>1, <3>2, <4>3, InviteKeeps
      <4>4. CASE RespondCommit(r)
        BY <1>1, <2>1, <3>2, <4>4, RespondKeeps
      <4>5. CASE GenerateCommit(r)
        BY <1>1, <2>1, <3>2, <4>5, GenerateKeeps
      <4>6. QED
        BY <2>6, <4>1, <4>2, <4>3, <4>4, <4>5
    <3>4. QED
      BY <1>1, <3>1, <3>3 DEF RaceInv
  <2>7. CASE SaveRefused(r) \/ BumpDuplicate(r) \/ InviteRefused(r) \/ RespondUsed(r)
             \/ Fail(r)
    <3>1. End(r) /\ UNCHANGED db
      BY <2>7 DEF SaveRefused, BumpDuplicate, InviteRefused, RespondUsed, Fail, Rollback
    <3>2. QED
      BY <2>3, <3>1, EndedActs
  <2>8. QED
    BY <1>3, <2>4, <2>5, <2>6, <2>7 DEF Step
<1>4. ASSUME NEW l \in LinkId, View(l) \/ Expire(l)
      PROVE  RaceInv'
  BY <1>1, <1>4, LinkKeeps DEF RaceInv
<1>5. QED
  BY <1>2, <1>3, <1>4 DEF Next, Run

\* What a request has read is still so when it acts on it, unless a handler that
\* changes it has overlapped.
THEOREM RaceInvariantHolds == Spec => []RaceInv
<1>1. Init => RaceInv
  <2> SUFFICES ASSUME Init PROVE RaceInv
    OBVIOUS
  <2>1. \A r \in Requests : req[r].at = "idle"
    BY DEF Init, Idle
  <2>2. \A l \in LinkId : link[l].status = "none" /\ link[l].revoked = FALSE
    BY DEF Init
  <2>3. song.status = "draft" /\ \A v \in VersionNo : version[v].status \in {"none", "draft"}
    BY DEF Init
  <2>4. HistoryIsKept
    BY <2>1 DEF HistoryIsKept, Overlaps, Busy
  <2>5. RowsAgree /\ TablesHold
    BY <2>2, <2>3 DEF RowsAgree, TablesHold, LinksFollowCurrentVersion, OneOutstandingLink,
       WithdrawnLinksAreUnused, CompletedIsConfirmed, Outstanding
  <2>6. \A r \in Requests : ActsOnNow(r)
    BY <2>1 DEF ActsOnNow, SaveActsOnNow, BumpActsOnNow, InviteActsOnNow, RespondActsOnNow,
       GenerateActsOnNow, SaveSteps, InviteSteps, RespondSteps, AnswerSteps
  <2>7. QED
    BY <2>4, <2>5, <2>6 DEF RaceInv
<1>2. IInv /\ RaceInv /\ [Next]_vars => RaceInv'
  BY RaceStep
<1>3. QED
  BY <1>1, <1>2, InvariantHolds, PTL DEF Spec

\* A bump that no invitation overlaps leaves no link behind on the version it
\* supersedes.
THEOREM LinksFollow == Spec => []LinksFollowCurrentVersion
<1>1. RaceInv => LinksFollowCurrentVersion
  BY DEF RaceInv, TablesHold
<1>2. QED
  BY <1>1, RaceInvariantHolds, PTL

\* Inviting a contributor again withdraws the link sent before, unless another
\* invitation overlaps.
THEOREM OneLinkEach == Spec => []OneOutstandingLink
<1>1. RaceInv => OneOutstandingLink
  BY DEF RaceInv, TablesHold
<1>2. QED
  BY <1>1, RaceInvariantHolds, PTL

\* A withdrawn link is not answered, unless an answer overlaps what withdraws it.
THEOREM WithdrawnUnused == Spec => []WithdrawnLinksAreUnused
<1>1. RaceInv => WithdrawnLinksAreUnused
  BY DEF RaceInv, TablesHold
<1>2. QED
  BY <1>1, RaceInvariantHolds, PTL

\* A song shown as completed has a confirmed current version, unless an
\* agreement was generated beside another handler.
THEOREM CompletedConfirmed == Spec => []CompletedIsConfirmed
<1>1. RaceInv => CompletedIsConfirmed
  BY DEF RaceInv, TablesHold
<1>2. QED
  BY <1>1, RaceInvariantHolds, PTL

-------------------------------------------------------------------------------
(* What a step may do to the versions *)

\* The steps that write shares, answers or versions.
LEMMA VersionWriters ==
    ASSUME [Next]_vars
    PROVE  \/ UNCHANGED <<version, shares, answer>>
           \/ \E r \in Requests :
                 SaveCommit(r) \/ BumpCommit(r) \/ InviteCommit(r) \/ RespondCommit(r)
<1>1. CASE UNCHANGED vars
  BY <1>1 DEF vars
<1>2. ASSUME NEW r \in Requests, Start(r) PROVE UNCHANGED <<version, shares, answer>>
  BY <1>2 DEF Start, SaveRead, BumpRead, InviteRead, RespondLoad, GenerateRead, Begin, db
<1>3. ASSUME NEW r \in Requests, Step(r) \/ Fail(r)
      PROVE  \/ UNCHANGED <<version, shares, answer>>
             \/ SaveCommit(r) \/ BumpCommit(r) \/ InviteCommit(r) \/ RespondCommit(r)
  <2>1. CASE \/ SaveLock(r) \/ BumpLock(r) \/ BumpRevoke(r)
             \/ InviteCheck(r) \/ InviteNext(r) \/ InviteIssue(r) \/ InviteSong(r)
    BY <2>1 DEF SaveLock, BumpLock, BumpRevoke, InviteCheck, InviteNext, InviteIssue,
                InviteSong, db
  <2>2. CASE \/ RespondLock(r) \/ RespondRecord(r) \/ RespondValidate(r) \/ RespondMark(r)
    BY <2>2 DEF RespondLock, RespondRecord, RespondValidate, RespondMark, db
  <2>3. CASE SaveRefused(r) \/ BumpDuplicate(r) \/ InviteRefused(r) \/ RespondUsed(r) \/ Fail(r)
    BY <2>3 DEF SaveRefused, BumpDuplicate, InviteRefused, RespondUsed, Fail, Rollback, db
  <2>4. CASE GenerateCommit(r)
    BY <2>4 DEF GenerateCommit
  <2>5. QED
    BY <1>3, <2>1, <2>2, <2>3, <2>4 DEF Step
<1>4. ASSUME NEW l \in LinkId, View(l) \/ Expire(l) PROVE UNCHANGED <<version, shares, answer>>
  BY <1>4 DEF View, Expire
<1>5. QED
  BY <1>1, <1>2, <1>3, <1>4 DEF Next, Run

\* A step writes no shares of a confirmed or superseded version unless a save
\* has overlapped an answer or a bump, and a superseded version not at all
\* unless a bump has overlapped what writes it.
LEMMA SettledUnwritten ==
    ASSUME IInv, RaceInv, [Next]_vars, NEW v \in VersionNo
    PROVE  /\ /\ Apart("save", "respond") /\ Apart("save", "bump")
              /\ version[v].status \in {"confirmed", "superseded"}
              => shares'[v] = shares[v]
           /\ /\ \A k \in {"save", "invite", "respond"} : Apart("bump", k)
              /\ version[v].status = "superseded"
              => version'[v] = version[v]
<1>1. CASE UNCHANGED <<version, shares, answer>>
  BY <1>1
<1>2. version[v].status = "superseded" => v # song.current
  <2>1. song.current \in VersionNo
    BY TablesTyped
  <2>2. QED
    BY <2>1 DEF RaceInv, RowsAgree, VersionNo
<1>3. ASSUME \A k \in {"save", "invite", "respond"} : Apart("bump", k)
      PROVE  Apart("save", "bump") /\ Apart("invite", "bump") /\ Apart("respond", "bump")
  BY <1>3, ApartSymmetric DEF Kinds
<1>4. ASSUME NEW r \in Requests, SaveCommit(r)
      PROVE  /\ /\ Apart("save", "respond") /\ Apart("save", "bump")
                /\ version[v].status \in {"confirmed", "superseded"}
                => shares'[v] = shares[v]
             /\ /\ Apart("save", "bump")
                /\ version[v].status = "superseded"
                => version'[v] = version[v]
  <2>1. /\ Apart("save", "bump") => req[r].ver = song.current
        /\ Apart("save", "respond") => version[req[r].ver].status # "confirmed"
    BY <1>4 DEF RaceInv, ActsOnNow, SaveActsOnNow, SaveCommit, SaveSteps
  <2>2. v # req[r].ver => shares'[v] = shares[v]
    BY <1>4, TablesTyped DEF SaveCommit
  <2>3. v # req[r].ver => version'[v] = version[v]
    BY <1>4, SaveWrites
  <2>4. QED
    BY <1>2, <2>1, <2>2, <2>3
<1>5. ASSUME NEW r \in Requests, BumpCommit(r)
      PROVE  /\ version[v].status \in {"confirmed", "superseded"} => shares'[v] = shares[v]
             /\ version[v].status = "superseded" => version'[v] = version[v]
  <2>1. v = song.current + 1 => version[v].status = "none"
    BY <1>5, BumpWrites DEF Existing
  <2>2. v # song.current + 1 => shares'[v] = shares[v]
    BY <1>5, BumpWrites
  <2>3. v # song.current /\ v # song.current + 1 => version'[v] = version[v]
    BY <1>5, BumpWrites
  <2>4. QED
    BY <1>2, <2>1, <2>2, <2>3
<1>6. ASSUME NEW r \in Requests, InviteCommit(r)
      PROVE  /\ shares'[v] = shares[v]
             /\ /\ Apart("invite", "bump")
                /\ version[v].status = "superseded"
                => version'[v] = version[v]
  <2>1. Apart("invite", "bump") => req[r].ver = song.current
    BY <1>6 DEF RaceInv, ActsOnNow, InviteActsOnNow, InviteCommit, InviteSteps
  <2>2. QED
    BY <1>2, <1>6, <2>1, InviteWrites
<1>7. ASSUME NEW r \in Requests, RespondCommit(r)
      PROVE  /\ shares'[v] = shares[v]
             /\ /\ Apart("invite", "bump") /\ Apart("respond", "bump")
                /\ version[v].status = "superseded"
                => version'[v] = version[v]
  <2>1. Apart("invite", "bump") /\ Apart("respond", "bump") => req[r].ver = song.current
    BY <1>7 DEF RaceInv, ActsOnNow, RespondActsOnNow, RespondCommit, RespondSteps, AnswerSteps
  <2>2. QED
    BY <1>2, <1>7, <2>1, RespondWrites
<1>8. QED
  BY <1>1, <1>3, <1>4, <1>5, <1>6, <1>7, VersionWriters

\* Settled versions stay as they are.
THEOREM SettledStays == Spec => SettledIsNotEdited
<1>1. IInv /\ RaceInv /\ [Next]_vars =>
         [\A v \in VersionNo :
             /\ /\ Apart("save", "respond") /\ Apart("save", "bump")
                /\ version[v].status \in {"confirmed", "superseded"}
                => shares'[v] = shares[v]
             /\ /\ \A k \in {"save", "invite", "respond"} : Apart("bump", k)
                /\ version[v].status = "superseded"
                => version'[v] = version[v]]_vars
  BY SettledUnwritten
<1>2. QED
  BY <1>1, InvariantHolds, RaceInvariantHolds, PTL DEF Spec, SettledIsNotEdited

\* With nobody holding a share it does not matter who has answered.
LEMMA NoHolders ==
    ASSUME NEW split \in [Parts -> 0..Whole], Holders(split) = {}, NEW f, NEW g
    PROVE  EveryoneConfirmed(split, f) <=> EveryoneConfirmed(split, g)
<1>1. \A p \in Parts : ~(split[p] > 0)
  <2>1. \A p \in Parts : p = <<p[1], p[2]>> /\ p[1] \in Contributors /\ p[2] \in RightTypes
    BY DEF Parts
  <2>2. QED
    BY <2>1 DEF Holders
<1>2. QED
  BY <1>1 DEF EveryoneConfirmed

\* Saving, bumping and inviting confirm no version.
LEMMA StatusesNotConfirmed ==
    ASSUME IInv, NEW r \in Requests, SaveCommit(r) \/ BumpCommit(r) \/ InviteCommit(r),
           NEW v \in VersionNo, version'[v].status = "confirmed"
    PROVE  version[v].status = "confirmed"
<1>1. version \in [VersionNo -> [status : VersionStatus, confirmedAt : BOOLEAN]]
  BY DEF IInv, TypeOK, TablesTypeOK
<1>2. CASE SaveCommit(r)
  <2>1. PICK status \in {"proposed", "draft"} :
           version' = [version EXCEPT ![req[r].ver].status = status]
    BY <1>2 DEF SaveCommit
  <2>2. QED
    BY <1>1, <2>1
<1>3. CASE BumpCommit(r)
  <2> DEFINE w == req[r].ver
             n == req[r].ver + 1
  <2>1. version' = [version EXCEPT ![w].status = "superseded", ![n].status = "draft"]
    BY <1>3 DEF BumpCommit
  <2> HIDE DEF w, n
  <2>2. QED
    BY <1>1, <2>1
<1>4. CASE InviteCommit(r)
  <2>1. version' = [version EXCEPT ![req[r].ver].status = "proposed"]
    BY <1>4 DEF InviteCommit
  <2>2. QED
    BY <1>1, <2>1
<1>5. QED
  BY <1>2, <1>3, <1>4

\* What an answer that is recorded makes of its version.
LEMMA AnswerDecides ==
    ASSUME IsFiniteSet(Contributors), IInv, RaceInv, NEW r \in Requests, RespondCommit(r),
           Apart("respond", "save"), Apart("respond", "respond"), NEW v \in VersionNo
    PROVE  /\ version[v].status # "confirmed" /\ version'[v].status = "confirmed"
                 => EveryoneConfirmed(shares'[v], answer'[v])
           /\ /\ ~EveryoneConfirmed(shares[v], answer[v])
              /\ EveryoneConfirmed(shares'[v], answer'[v])
              => version'[v].status = "confirmed"
<1> DEFINE w == req[r].ver
           c == req[r].link[1]
           seen == AnswersSeen(r)
<1>1. /\ version \in [VersionNo -> [status : VersionStatus, confirmedAt : BOOLEAN]]
      /\ shares \in [VersionNo -> [Parts -> 0..Whole]]
      /\ answer \in [VersionNo -> [Contributors -> Actions \union {"none"}]]
  BY DEF IInv, TypeOK, TablesTypeOK
<1>2. /\ req[r].link \in LinkId
      /\ c \in Contributors
      /\ req[r].action \in Actions
      /\ w \in VersionNo
  BY AnswerReady, LinkIdMember DEF RespondCommit
<1>3. seen \in [Contributors -> Actions \union {"none"}] /\ seen[c] = req[r].action
      /\ seen = [answer[w] EXCEPT ![c] = req[r].action]
  BY <1>1, <1>2 DEF AnswersSeen
<1>4. shares' = shares /\ answer' = [answer EXCEPT ![w] = seen]
  BY DEF RespondCommit
<1>5. v # w => version'[v] = version[v] /\ answer'[v] = answer[v]
  <2> HIDE DEF w, seen
  <2>1. answer'[v] = answer[v] \/ v = w
    BY <1>1, <1>2, <1>4
  <2>2. version'[v] = version[v] \/ v = w
    BY <1>1, <1>2 DEF RespondCommit, w
  <2>3. QED
    BY <2>1, <2>2
<1>6. req[r].action = "confirmed" => (req[r].valid <=> Agreed(shares[w], seen))
  BY DEF RespondCommit, RaceInv, ActsOnNow, RespondActsOnNow
<1>7. Agreed(shares[w], seen) <=> EveryoneConfirmed(shares[w], seen) /\ Holders(shares[w]) # {}
  BY <1>1, <1>2, <1>3, AgreedMeansEveryone
<1>8. answer'[w] = seen
  BY <1>1, <1>2, <1>4
<1>9. CASE req[r].action = "confirmed" /\ req[r].valid
  <2>1. version'[w].status = "confirmed"
    BY <1>1, <1>2, <1>9 DEF RespondCommit, Actions
  <2>2. EveryoneConfirmed(shares[w], seen)
    BY <1>6, <1>7, <1>9
  <2> HIDE DEF w, seen
  <2>3. QED
    BY <1>4, <1>5, <1>8, <2>1, <2>2
<1>10. CASE req[r].action = "confirmed" /\ ~req[r].valid
  <2>1. version' = version
    BY <1>10 DEF RespondCommit
  <2>2. ~EveryoneConfirmed(shares[w], seen) \/ Holders(shares[w]) = {}
    BY <1>6, <1>7, <1>10
  <2>3. Holders(shares[w]) = {} =>
           (EveryoneConfirmed(shares[w], seen) <=> EveryoneConfirmed(shares[w], answer[w]))
    BY <1>1, <1>2, NoHolders
  <2> HIDE DEF w, seen
  <2>4. QED
    BY <1>4, <1>5, <1>8, <2>1, <2>2, <2>3
<1>11. CASE req[r].action = "change_requested"
  <2>1. version'[w].status = "draft"
    BY <1>1, <1>2, <1>11 DEF RespondCommit
  <2>2. EveryoneConfirmed(shares[w], seen) => EveryoneConfirmed(shares[w], answer[w])
    <3>1. EveryoneConfirmed(shares[w], seen) =>
             \A p \in Parts : shares[w][p] > 0 => p[1] # c
      BY <1>3, <1>11 DEF EveryoneConfirmed
    <3>2. \A d \in Contributors : d # c => answer[w][d] = seen[d]
      BY <1>1, <1>2, <1>3
    <3>3. \A p \in Parts : p[1] \in Contributors
      BY DEF Parts
    <3> HIDE DEF w, c, seen
    <3>4. QED
      BY <3>1, <3>2, <3>3 DEF EveryoneConfirmed
  <2> HIDE DEF w, seen
  <2>3. QED
    BY <1>4, <1>5, <1>8, <2>1, <2>2
<1>12. QED
  BY <1>2, <1>9, <1>10, <1>11 DEF Actions

\* A version is confirmed with splits that add up and that everyone with a
\* share has confirmed, unless an answer overlaps a save or another answer.
THEOREM ConfirmedByEveryone ==
    ASSUME IsFiniteSet(Contributors)
    PROVE  Spec => ConfirmedByAll
<1>1. IInv /\ RaceInv /\ [Next]_vars =>
         [Apart("respond", "save") /\ Apart("respond", "respond") =>
             \A v \in VersionNo :
                version[v].status # "confirmed" /\ version'[v].status = "confirmed"
                   => EveryoneConfirmed(shares'[v], answer'[v])]_vars
  <2> SUFFICES ASSUME IInv, RaceInv, [Next]_vars,
                      Apart("respond", "save"), Apart("respond", "respond"),
                      NEW v \in VersionNo,
                      version[v].status # "confirmed", version'[v].status = "confirmed"
               PROVE  EveryoneConfirmed(shares'[v], answer'[v])
    OBVIOUS
  <2>1. PICK r \in Requests :
           SaveCommit(r) \/ BumpCommit(r) \/ InviteCommit(r) \/ RespondCommit(r)
    BY VersionWriters
  <2>2. ~(SaveCommit(r) \/ BumpCommit(r) \/ InviteCommit(r))
    BY StatusesNotConfirmed
  <2>3. QED
    BY <2>1, <2>2, AnswerDecides
<1>2. QED
  BY <1>1, InvariantHolds, RaceInvariantHolds, PTL DEF Spec, ConfirmedByAll

\* The last answer that was missing confirms the version, with the same exceptions.
THEOREM LastAnswerCounts ==
    ASSUME IsFiniteSet(Contributors)
    PROVE  Spec => LastAnswerConfirms
<1>1. IInv /\ RaceInv /\ [Next]_vars =>
         [Apart("respond", "save") /\ Apart("respond", "respond")
             => AnsweredByAllIsConfirmed]_vars
  <2> SUFFICES ASSUME IInv, RaceInv, [Next]_vars,
                      Apart("respond", "save"), Apart("respond", "respond"),
                      NEW v \in VersionNo,
                      ~EveryoneConfirmed(shares[v], answer[v]),
                      EveryoneConfirmed(shares'[v], answer'[v]),
                      shares'[v] = shares[v]
               PROVE  version'[v].status = "confirmed"
    BY DEF AnsweredByAllIsConfirmed
  <2>1. answer' # answer
    OBVIOUS
  <2>2. PICK r \in Requests :
           SaveCommit(r) \/ BumpCommit(r) \/ InviteCommit(r) \/ RespondCommit(r)
    BY <2>1, VersionWriters
  <2>3. RespondCommit(r)
    BY <2>1, <2>2 DEF SaveCommit, BumpCommit, InviteCommit
  <2>4. QED
    BY <2>3, AnswerDecides
<1>2. QED
  BY <1>1, InvariantHolds, RaceInvariantHolds, PTL DEF Spec, LastAnswerConfirms

-------------------------------------------------------------------------------
(* One request at a time *)

\* A server that took its requests one after the other would keep all these rules
\* as they stand: it is overlaps alone that break them.
THEOREM OneAtATime ==
    ASSUME \A r, q \in Requests : r = q, IsFiniteSet(Contributors)
    PROVE  Spec =>
              /\ [](/\ \A l \in LinkId : Outstanding(l) => link[l].version = song.current
                    /\ \A k, l \in LinkId :
                          k[1] = l[1] /\ Outstanding(k) /\ Outstanding(l) => k = l
                    /\ \A l \in LinkId : ~(link[l].revoked /\ link[l].used)
                    /\ song.status = "completed" =>
                          version[song.current].status = "confirmed")
              /\ [][\A v \in VersionNo :
                       /\ version[v].status \in {"confirmed", "superseded"}
                          => shares'[v] = shares[v]
                       /\ version[v].status = "superseded" => version'[v] = version[v]
                       /\ version[v].status # "confirmed" /\ version'[v].status = "confirmed"
                          => EveryoneConfirmed(shares'[v], answer'[v])]_vars
              /\ [][AnsweredByAllIsConfirmed]_vars
<1>1. Init => raced = {}
  BY DEF Init
<1>2. raced = {} /\ [Next]_vars => (raced = {})'
  <2>1. Overlaps' = {}
    BY DEF Overlaps
  <2>2. QED
    BY <2>1 DEF Next, Track, vars
<1>3. raced = {} => \A j, k : Apart(j, k)
  BY DEF Apart
<1>4. raced = {} /\ RaceInv =>
         /\ \A l \in LinkId : Outstanding(l) => link[l].version = song.current
         /\ \A k, l \in LinkId : k[1] = l[1] /\ Outstanding(k) /\ Outstanding(l) => k = l
         /\ \A l \in LinkId : ~(link[l].revoked /\ link[l].used)
         /\ song.status = "completed" => version[song.current].status = "confirmed"
  BY <1>3 DEF RaceInv, TablesHold, LinksFollowCurrentVersion, OneOutstandingLink,
     WithdrawnLinksAreUnused, CompletedIsConfirmed
<1>5. /\ raced = {}
      /\ [\A v \in VersionNo :
             /\ /\ Apart("save", "respond") /\ Apart("save", "bump")
                /\ version[v].status \in {"confirmed", "superseded"}
                => shares'[v] = shares[v]
             /\ /\ \A k \in {"save", "invite", "respond"} : Apart("bump", k)
                /\ version[v].status = "superseded"
                => version'[v] = version[v]]_vars
      /\ [Apart("respond", "save") /\ Apart("respond", "respond") =>
             \A v \in VersionNo :
                version[v].status # "confirmed" /\ version'[v].status = "confirmed"
                   => EveryoneConfirmed(shares'[v], answer'[v])]_vars
      => [\A v \in VersionNo :
             /\ version[v].status \in {"confirmed", "superseded"} => shares'[v] = shares[v]
             /\ version[v].status = "superseded" => version'[v] = version[v]
             /\ version[v].status # "confirmed" /\ version'[v].status = "confirmed"
                => EveryoneConfirmed(shares'[v], answer'[v])]_vars
  BY <1>3
<1>6. /\ raced = {}
      /\ [Apart("respond", "save") /\ Apart("respond", "respond")
             => AnsweredByAllIsConfirmed]_vars
      => [AnsweredByAllIsConfirmed]_vars
  BY <1>3
<1>7. Spec => ConfirmedByAll /\ LastAnswerConfirms
  BY ConfirmedByEveryone, LastAnswerCounts
<1>8. Spec => [](raced = {})
  BY <1>1, <1>2, PTL DEF Spec
<1>9. Spec => [][AnsweredByAllIsConfirmed]_vars
  BY <1>6, <1>7, <1>8, PTL DEF LastAnswerConfirms
<1>10. Spec =>
         [](/\ \A l \in LinkId : Outstanding(l) => link[l].version = song.current
            /\ \A k, l \in LinkId :
                  k[1] = l[1] /\ Outstanding(k) /\ Outstanding(l) => k = l
            /\ \A l \in LinkId : ~(link[l].revoked /\ link[l].used)
            /\ song.status = "completed" => version[song.current].status = "confirmed")
  BY <1>4, <1>8, RaceInvariantHolds, PTL
<1>11. Spec =>
         [][\A v \in VersionNo :
               /\ version[v].status \in {"confirmed", "superseded"} => shares'[v] = shares[v]
               /\ version[v].status = "superseded" => version'[v] = version[v]
               /\ version[v].status # "confirmed" /\ version'[v].status = "confirmed"
                  => EveryoneConfirmed(shares'[v], answer'[v])]_vars
  BY <1>5, <1>7, <1>8, SettledStays, PTL DEF SettledIsNotEdited, ConfirmedByAll
<1>12. QED
  BY <1>9, <1>10, <1>11

-------------------------------------------------------------------------------
(* What waiting for rows cannot do: the safety side of RequestsFinish *)

LocksAreFreed == \A k \in locks : Busy(k.by)

LEMMA FreedStep == IInv /\ LocksAreFreed /\ [Next]_vars => LocksAreFreed'
<1> SUFFICES ASSUME IInv, LocksAreFreed, [Next]_vars PROVE LocksAreFreed'
  OBVIOUS
<1>1. req \in [Requests -> Request] /\ locks \subseteq [by : Requests, row : Row, mode : Modes]
  BY DEF IInv, TypeOK, RequestsTypeOK
<1>2. ASSUME UNCHANGED <<req, locks>>
      PROVE  LocksAreFreed'
  BY <1>2 DEF LocksAreFreed, Busy
<1>3. ASSUME NEW r \in Requests, Start(r) \/ Step(r) \/ Fail(r)
      PROVE  LocksAreFreed'
  <2>1. \A s \in Requests \ {r} : req'[s] = req[s]
    BY <1>3, OthersStay
  <2>2. ASSUME locks' \subseteq locks \union Wanted(r), Busy(r)'
        PROVE  LocksAreFreed'
    <3>1. \A k \in Wanted(r) : k.by = r
      BY WantedType
    <3>2. QED
      BY <1>1, <2>1, <2>2, <3>1 DEF LocksAreFreed, Busy
  <2>3. CASE End(r)
    <3>1. locks' = {h \in locks : h.by # r}
      BY <2>3 DEF End
    <3>2. QED
      BY <1>1, <2>1, <3>1 DEF LocksAreFreed, Busy
  <2>4. CASE Start(r)
    <3>1. locks' = locks /\ req[r].at = "idle"
      BY <2>4 DEF Start, SaveRead, BumpRead, InviteRead, RespondLoad, GenerateRead, Begin
    <3>2. \A k \in locks : k.by # r
      BY <3>1 DEF LocksAreFreed, Busy
    <3>3. QED
      BY <1>1, <2>1, <3>1, <3>2 DEF LocksAreFreed, Busy
  <2>5. ASSUME NEW step, step # "idle", Goto(r, step), locks' \subseteq locks \union Wanted(r)
        PROVE  LocksAreFreed'
    <3>1. req'[r] = [req[r] EXCEPT !.at = step] /\ req[r] \in Request
      BY <1>1, <2>5 DEF Goto
    <3>2. req'[r].at = step
      BY <3>1 DEF Request
    <3>3. QED
      BY <2>2, <2>5, <3>2 DEF Busy
  <2>6. CASE \/ SaveLock(r) \/ BumpRevoke(r) \/ InviteCheck(r) \/ InviteIssue(r)
             \/ InviteSong(r) \/ RespondLock(r) \/ RespondRecord(r) \/ RespondMark(r)
    BY <2>5, <2>6 DEF SaveLock, BumpRevoke, InviteCheck, InviteIssue, InviteSong, RespondLock,
       RespondRecord, RespondMark, NextInvitation, Take
  <2>7. CASE BumpLock(r) \/ InviteNext(r) \/ RespondValidate(r)
    <3>1. locks' \subseteq locks \union Wanted(r)
      BY <2>7 DEF BumpLock, InviteNext, RespondValidate, Take
    <3>2. req'[r].at # "idle"
      <4>1. req[r] \in Request
        BY <1>1
      <4>2. CASE BumpLock(r)
        BY <1>1, <4>1, <4>2 DEF BumpLock, Request
      <4>3. CASE InviteNext(r)
        BY <1>1, <4>1, <4>3 DEF InviteNext, Request
      <4>4. CASE RespondValidate(r)
        BY <1>1, <4>1, <4>4 DEF RespondValidate, Request
      <4>5. QED
        BY <2>7, <4>2, <4>3, <4>4
    <3>3. QED
      BY <2>2, <3>1, <3>2 DEF Busy
  <2>8. CASE \/ SaveRefused(r) \/ SaveCommit(r) \/ BumpCommit(r) \/ BumpDuplicate(r)
             \/ InviteRefused(r) \/ InviteCommit(r) \/ RespondUsed(r) \/ RespondCommit(r)
             \/ GenerateCommit(r) \/ Fail(r)
    BY <2>3, <2>8 DEF SaveRefused, SaveCommit, BumpCommit, BumpDuplicate, InviteRefused,
       InviteCommit, RespondUsed, RespondCommit, GenerateCommit, Fail, Rollback, Commit
  <2>9. QED
    BY <1>3, <2>4, <2>6, <2>7, <2>8 DEF Step
<1>4. ASSUME NEW l \in LinkId, View(l) \/ Expire(l)
      PROVE  LocksAreFreed'
  BY <1>2, <1>4 DEF View, Expire
<1>5. QED
  BY <1>2, <1>3, <1>4 DEF Next, Run, vars

\* Only requests that are running hold row locks: however a handler ends, nobody
\* waits for one that has ended.
THEOREM LocksReleased == Spec => []LocksAreFreed
<1>1. Init => LocksAreFreed
  BY DEF Init, LocksAreFreed
<1>2. QED
  BY <1>1, FreedStep, InvariantHolds, PTL DEF Spec

\* How many steps a request has left at most.
Left(q) ==
    LET n == Cardinality(q.who)
    IN CASE q.at = "idle"                                -> 0
         [] q.at = "inviteCheck"                         -> 2 * n + 4
         [] q.at = "inviteIssue"                         -> 2 * n + 3
         [] q.at = "inviteNext"                          -> 2 * n + 2
         [] q.at \in {"inviteSong", "saveLock", "bumpRevoke", "respondMark"} -> 2
         [] q.at \in {"bumpLock", "respondValidate"}     -> 3
         [] q.at = "respondRecord"                       -> 4
         [] q.at = "respondLock"                         -> 5
         [] q.at \in {"inviteCommit", "saveCommit", "bumpCommit", "respondCommit",
                      "generateCommit"}                  -> 1

LEMMA LeftAt ==
    ASSUME NEW q
    PROVE  /\ q.at = "idle" => Left(q) = 0
           /\ q.at = "inviteCheck" => Left(q) = 2 * Cardinality(q.who) + 4
           /\ q.at = "inviteIssue" => Left(q) = 2 * Cardinality(q.who) + 3
           /\ q.at = "inviteNext" => Left(q) = 2 * Cardinality(q.who) + 2
           /\ q.at \in {"inviteSong", "saveLock", "bumpRevoke", "respondMark"} => Left(q) = 2
           /\ q.at \in {"bumpLock", "respondValidate"} => Left(q) = 3
           /\ q.at = "respondRecord" => Left(q) = 4
           /\ q.at = "respondLock" => Left(q) = 5
           /\ q.at \in {"inviteCommit", "saveCommit", "bumpCommit", "respondCommit",
                        "generateCommit"} => Left(q) = 1
  BY DEF Left

LEMMA LeftBound ==
    ASSUME IsFiniteSet(Contributors), NEW q \in Request
    PROVE  /\ Cardinality(q.who) \in Nat
           /\ Left(q) \in 0..(2 * Cardinality(Contributors) + 5)
           /\ q.at # "idle" => Left(q) > 0
<1>1. q.who \subseteq Contributors /\ q.at \in Places
  BY DEF Request
<1>2. /\ Cardinality(q.who) \in Nat /\ Cardinality(Contributors) \in Nat
      /\ Cardinality(q.who) <= Cardinality(Contributors)
  BY <1>1, FS_Subset, FS_CardinalityType
<1>3. QED
  BY <1>1, <1>2, LeftAt DEF Places

LEMMA StepGoesOn ==
    ASSUME IsFiniteSet(Contributors), IInv, NEW r \in Requests, Step(r)
    PROVE  Left(req'[r]) < Left(req[r])
<1>1. req \in [Requests -> Request] /\ req[r] \in Request /\ req[r].who \subseteq Contributors
  BY DEF IInv, TypeOK, RequestsTypeOK, Request
<1>2. IsFiniteSet(req[r].who) /\ Cardinality(req[r].who) \in Nat
  BY <1>1, FS_Subset, FS_CardinalityType
<1>3. ASSUME NEW step, Goto(r, step)
      PROVE  req'[r].at = step /\ req'[r].who = req[r].who
  BY <1>1, <1>3 DEF Goto, Request
<1>4. ASSUME End(r), req[r].at # "idle"
      PROVE  Left(req'[r]) < Left(req[r])
  <2>1. req'[r].at = "idle"
    BY <1>4, EndLocks
  <2>2. QED
    BY <1>1, <1>4, <2>1, LeftAt, LeftBound
<1>5. CASE \/ SaveRefused(r) \/ SaveCommit(r) \/ BumpCommit(r) \/ BumpDuplicate(r)
           \/ InviteRefused(r) \/ InviteCommit(r) \/ RespondUsed(r) \/ RespondCommit(r)
           \/ GenerateCommit(r)
  BY <1>4, <1>5 DEF SaveRefused, SaveCommit, BumpCommit, BumpDuplicate, InviteRefused,
     InviteCommit, RespondUsed, RespondCommit, GenerateCommit, Rollback, Commit
<1>6. CASE \/ SaveLock(r) \/ BumpRevoke(r) \/ InviteSong(r) \/ RespondLock(r)
           \/ RespondRecord(r) \/ RespondMark(r)
  <2>1. /\ req[r].at \in {"saveLock", "bumpRevoke", "inviteSong", "respondMark"} =>
              req'[r].at \in {"saveCommit", "bumpCommit", "inviteCommit", "respondCommit"}
        /\ req[r].at = "respondLock" => req'[r].at = "respondRecord"
        /\ req[r].at = "respondRecord" => req'[r].at \in {"respondValidate", "respondMark"}
        /\ req[r].at \in {"saveLock", "bumpRevoke", "inviteSong", "respondMark", "respondLock",
                          "respondRecord"}
    BY <1>3, <1>6 DEF SaveLock, BumpRevoke, InviteSong, RespondLock, RespondRecord, RespondMark
  <2>2. QED
    BY <2>1, LeftAt
<1>7. CASE BumpLock(r)
  <2>1. req[r].at = "bumpLock" /\ req'[r].at = "bumpRevoke"
    BY <1>1, <1>7 DEF BumpLock, Request
  <2>2. QED
    BY <2>1, LeftAt
<1>8. CASE RespondValidate(r)
  <2>1. req[r].at = "respondValidate" /\ req'[r].at \in {"respondMark", "respondCommit"}
    BY <1>1, <1>8 DEF RespondValidate, Request
  <2>2. QED
    BY <2>1, LeftAt
<1>9. CASE InviteCheck(r) \/ InviteIssue(r)
  <2>1. /\ req[r].at \in {"inviteCheck", "inviteIssue"}
        /\ req'[r].at = NextInvitation(r) /\ req'[r].who = req[r].who
    BY <1>3, <1>9 DEF InviteCheck, InviteIssue
  <2>2. req'[r].at = "inviteSong" \/ req'[r].at = "inviteNext"
    BY <2>1 DEF NextInvitation
  <2>3. QED
    BY <1>2, <2>1, <2>2, LeftAt
<1>10. CASE InviteNext(r)
  <2>1. PICK c \in req[r].who :
           /\ req[r].at = "inviteNext"
           /\ req' = [req EXCEPT ![r].at = "inviteIssue",
                                 ![r].who = @ \ {c},
                                 ![r].made = @ \union {c},
                                 ![r].targets = @ \union {l \in LinkId : l[1] = c /\ Outstanding(l)}]
    BY <1>10 DEF InviteNext
  <2>2. req'[r].at = "inviteIssue" /\ req'[r].who = req[r].who \ {c}
    BY <1>1, <2>1 DEF Request
  <2>3. Cardinality(req[r].who \ {c}) = Cardinality(req[r].who) - 1
    BY <1>2, <2>1, FS_RemoveElement
  <2>4. Left(req'[r]) = 2 * Cardinality(req[r].who \ {c}) + 3
    BY <2>2, LeftAt
  <2>5. Left(req[r]) = 2 * Cardinality(req[r].who) + 2
    BY <2>1, LeftAt
  <2>6. ASSUME NEW n \in Nat, NEW k, k = n - 1
        PROVE  2 * k + 3 < 2 * n + 2
    BY <2>6
  <2>7. QED
    BY <1>2, <2>3, <2>4, <2>5, <2>6
<1>11. QED
  BY <1>5, <1>6, <1>7, <1>8, <1>9, <1>10 DEF Step

\* A request never waits but for a row: each of its steps brings it closer to its
\* end, which it reaches after at most five steps and two per contributor, and
\* nobody else's step sets it back.
THEOREM StepsRunOut ==
    ASSUME IsFiniteSet(Contributors)
    PROVE  Spec =>
              /\ [](\A r \in Requests : Left(req[r]) \in 0..(2 * Cardinality(Contributors) + 5))
              /\ [][\A r \in Requests :
                       req[r].at # "idle" /\ req'[r] # req[r]
                          => Left(req'[r]) < Left(req[r])]_vars
<1>1. IInv => \A r \in Requests : Left(req[r]) \in 0..(2 * Cardinality(Contributors) + 5)
  BY LeftBound DEF IInv, TypeOK, RequestsTypeOK
<1>2. IInv /\ [Next]_vars =>
         [\A r \in Requests :
             req[r].at # "idle" /\ req'[r] # req[r] => Left(req'[r]) < Left(req[r])]_vars
  <2> SUFFICES ASSUME IInv, [Next]_vars, NEW r \in Requests,
                      req[r].at # "idle", req'[r] # req[r]
               PROVE  Left(req'[r]) < Left(req[r])
    OBVIOUS
  <2>1. PICK s \in Requests : Start(s) \/ Step(s) \/ Fail(s)
    <3>1. req' # req
      OBVIOUS
    <3>2. QED
      BY <3>1 DEF Next, Run, View, Expire, vars
  <2>2. s = r
    BY <2>1, OthersStay
  <2>3. CASE Start(s)
    BY <2>2, <2>3 DEF Start, SaveRead, BumpRead, InviteRead, RespondLoad, GenerateRead, Begin
  <2>4. CASE Step(s)
    BY <2>2, <2>4, StepGoesOn
  <2>5. CASE Fail(s)
    <3>1. req'[r].at = "idle" /\ req[r] \in Request
      BY <2>2, <2>5, EndLocks DEF Fail, Rollback, IInv, TypeOK, RequestsTypeOK
    <3>2. QED
      BY <3>1, LeftAt, LeftBound
  <2>6. QED
    BY <2>1, <2>3, <2>4, <2>5
<1>3. QED
  BY <1>1, <1>2, InvariantHolds, PTL DEF Spec
=============================================================================
