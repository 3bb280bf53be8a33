----------------------------- MODULE RightsRecord -----------------------------
(***************************************************************************)
(* The rights record of one song: its versions, the ownership splits of    *)
(* each version, the review links sent to contributors, the answers that   *)
(* come back and the agreements generated from them (server/routes.ts,     *)
(* sections 5 to 9, over server/repo.ts and server/schema.sql).            *)
(*                                                                         *)
(* Every handler is a request that runs one PostgreSQL transaction at the  *)
(* READ COMMITTED level.  A step of a request is a statement whose         *)
(* position among the statements of other requests can be told apart: a    *)
(* read whose result is used later, or a statement that waits for a row    *)
(* lock.  What a transaction wrote becomes visible to others in its last   *)
(* step, the COMMIT; a transaction that fails leaves nothing behind.       *)
(***************************************************************************)
EXTENDS Integers, FiniteSets, FiniteSetsExt

CONSTANTS
    Requests,       \* request handlers that may be running at the same time
    Contributors,   \* the contributors of the song's workspace
    Whole,          \* 100.00%, which the code writes as 10000 basis points
    Saves,          \* bodies of POST /songs/:id/ownership: <<contributor,
                    \* right>> |-> basis points, for the pairs they list
    MaxVersion,     \* bound on the number of versions of the song
    MaxLinks,       \* bound on the review links issued to each contributor
    Expiring        \* the links whose expires_at falls within a behaviour

RightTypes == {"COMPOSITION", "MASTER"}
Parts      == Contributors \X RightTypes
VersionNo  == 1..MaxVersion
LinkId     == UNION {{c} \X (1..MaxLinks[c]) : c \in Contributors}

\* A body lists some of the parts, each with a whole number of basis points
\* between 0 and 100%: the handler answers 400 to anything else.
ASSUME WholeAssumption == Whole \in Nat \ {0}
ASSUME BoundsAssumption == /\ MaxVersion \in Nat \ {0}
                           /\ MaxLinks \in [Contributors -> Nat]
                           /\ Expiring \subseteq LinkId
ASSUME SavesAssumption ==
    \A s \in Saves : /\ DOMAIN s \subseteq Parts
                     /\ \A p \in DOMAIN s : s[p] \in 0..Whole

Actions       == {"confirmed", "change_requested"}
SongStatus    == {"draft", "proposed", "change_requested", "confirmed", "completed"}
VersionStatus == {"none", "draft", "proposed", "confirmed", "superseded"}
LinkStatus    == {"none", "pending", "viewed", "revoked"} \union Actions

VARIABLES
    song,        \* the songs row: status and current_version_number
    version,     \* rights_record_versions; status "none" is a row not inserted
    shares,      \* ownership_allocations of each version; 0 is a row not there
    answer,      \* contributor_confirmations.action; "none" is a row not there
    link,        \* invitations; status "none" is a link not issued yet
    expired,     \* links whose expires_at has passed
    agreements,  \* the agreements generated so far
    req,         \* what each request is doing, with what it has read
    locks,       \* the row locks held by the open transactions
    raced        \* history: which handlers were running at the same time

db   == <<song, version, shares, answer, link, expired, agreements>>
vars == <<song, version, shares, answer, link, expired, agreements, req, locks, raced>>

-------------------------------------------------------------------------------
(* What the statements compute *)

Existing == {v \in VersionNo : version[v].status # "none"}

OldestVersion == Min(Existing)              \* mutant: ORDER BY ... ASC

\* SELECT ... ORDER BY version_number DESC LIMIT 1
Latest == Max(Existing)

PutAdds(split, save) ==                     \* mutant: basis_points + EXCLUDED.basis_points
    [p \in Parts |-> split[p] + (IF p \in DOMAIN save THEN save[p] ELSE 0)]

\* setOwnership for every item of a body: 0 deletes the row, else upsert.
Put(split, save) ==
    [p \in Parts |-> IF p \in DOMAIN save THEN save[p] ELSE split[p]]

Total(split, right) ==
    MapThenSumSet(LAMBDA c : split[<<c, right>>], Contributors)

Holders(split) == {c \in Contributors : \E t \in RightTypes : split[<<c, t>>] > 0}

\* canProceedToInvite of getOwnershipValidation.
Balanced(split) == \A t \in RightTypes : Total(split, t) = Whole

\* canProceedToAgreement, which counts holders and their confirmations.
HoldersConfirmed(split, answers) ==
    {c \in Holders(split) : answers[c] = "confirmed"}

PendingConfirmations(split, answers) ==
    Max({0, Cardinality(Holders(split)) - Cardinality(HoldersConfirmed(split, answers))})

AgreedAnyoneConfirms(split, answers) ==     \* mutant: one confirmation will do
    Balanced(split) /\ HoldersConfirmed(split, answers) # {}

Agreed(split, answers) ==
    /\ Balanced(split)
    /\ PendingConfirmations(split, answers) = 0
    /\ Cardinality(Holders(split)) > 0

Outstanding(l) == link[l].status \in {"pending", "viewed"}

Issued(c) == {n \in 1..MaxLinks[c] : link[<<c, n>>].status # "none"}

-------------------------------------------------------------------------------
(* Requests and row locks *)

\* A request between two calls of the API, and the fields a handler fills in.
Idle == [at |-> "idle", ver |-> 0, seen |-> "none", save |-> <<>>,
         link |-> <<>>, action |-> "none", valid |-> FALSE,
         targets |-> {}, who |-> {}, made |-> {}]

SongRow         == <<"song">>
VersionRow(v)   == <<"version", v>>
LinkRow(l)      == <<"link", l>>
AnswerRow(v, c) == <<"answer", v, c>>

\* Lock modes: "keyShare" is what a foreign-key check takes on the row it
\* refers to, "update" is FOR NO KEY UPDATE (an UPDATE), and "forUpdate" is
\* SELECT ... FOR UPDATE.
Modes == {"keyShare", "update", "forUpdate"}
Conflicting(m, n) == "forUpdate" \in {m, n} \/ (m = "update" /\ n = "update")

Lock(r, row, mode) == [by |-> r, row |-> row, mode |-> mode]

\* The row locks that the next step of request r has to be granted.
Wanted(r) ==
    LET q == req[r]
        UpdateTargets == {Lock(r, LinkRow(l), "update") : l \in q.targets}
    IN CASE q.at = "saveLock"     -> {Lock(r, VersionRow(q.ver), "forUpdate")}
         [] q.at = "bumpLock"     -> {Lock(r, VersionRow(q.ver), "update")}
         [] q.at = "bumpRevoke"   -> UpdateTargets
         [] q.at = "inviteIssue"  -> UpdateTargets \union
                                     {Lock(r, VersionRow(q.ver), "keyShare")}
         [] q.at = "inviteCommit" -> {Lock(r, VersionRow(q.ver), "update")}
         [] q.at = "respondLock"  -> {Lock(r, LinkRow(q.link), "forUpdate")}
         [] q.at = "respondRecord" ->
                {Lock(r, AnswerRow(q.ver, q.link[1]), "forUpdate")} \union
                (IF answer[q.ver][q.link[1]] = "none"
                 THEN {Lock(r, VersionRow(q.ver), "keyShare")} ELSE {})
         [] q.at = "respondMark"  -> {Lock(r, VersionRow(q.ver), "update")}
         [] q.at = "generateCommit" ->
                {Lock(r, VersionRow(q.ver), "keyShare")} \union
                (IF q.seen = "confirmed"
                 THEN {Lock(r, SongRow, "update")} ELSE {})
         [] q.at \in {"saveCommit", "bumpCommit", "inviteSong", "respondCommit"}
                -> {Lock(r, SongRow, "update")}
         [] OTHER -> {}

\* Who holds a lock that request r is waiting for.
Blockers(r) ==
    {s \in Requests \ {r} :
        \E h \in locks, w \in Wanted(r) :
            h.by = s /\ h.row = w.row /\ Conflicting(h.mode, w.mode)}

Granted(r) == Blockers(r) = {}
Take(r)    == Granted(r) /\ locks' = locks \union Wanted(r)
Begin(r, q) ==
    /\ req[r].at = "idle"
    /\ req' = [req EXCEPT ![r] = q]
    /\ UNCHANGED <<db, locks>>
Goto(r, step) == req' = [req EXCEPT ![r].at = step]

\* The last step of a transaction, COMMIT or ROLLBACK, releases its locks.
End(r) ==
    /\ req' = [req EXCEPT ![r] = Idle]
    /\ locks' = {h \in locks : h.by # r}
Commit(r)   == Granted(r) /\ End(r)
RollbackForgotten(r) ==                     \* mutant: no ROLLBACK on an error
    req' = [req EXCEPT ![r] = Idle] /\ UNCHANGED <<db, locks>>

Rollback(r) == End(r) /\ UNCHANGED db

-------------------------------------------------------------------------------
(* POST /songs/:id/ownership *)

SaveRead(r) ==
    \E save \in Saves :
        Begin(r, [Idle EXCEPT !.at = "saveLock", !.save = save, !.ver = Latest,
                              !.seen = version[Latest].status])

SaveLockUnguarded(r) ==                     \* mutant: no 409
    req[r].at = "saveLock" /\ Take(r) /\ Goto(r, "saveCommit") /\ UNCHANGED db

\* SELECT ... FOR UPDATE.  The status tested is the one read before the lock.
SaveLock(r) ==
    /\ req[r].at = "saveLock"
    /\ req[r].seen # "confirmed"
    /\ Take(r)
    /\ Goto(r, "saveCommit")
    /\ UNCHANGED db

\* The lock is granted and the answer is 409, requiresVersionBump.
SaveRefused(r) ==
    /\ req[r].at = "saveLock"
    /\ req[r].seen = "confirmed"
    /\ Granted(r)
    /\ Rollback(r)

SaveCommit(r) ==
    LET v      == req[r].ver
        split  == Put(shares[v], req[r].save)
        status == IF Balanced(split) THEN "proposed" ELSE "draft"
    IN /\ req[r].at = "saveCommit"
       /\ shares'  = [shares EXCEPT ![v] = split]
       /\ version' = [version EXCEPT ![v].status = status]
       /\ song'    = [song EXCEPT !.status = status]
       /\ Commit(r)
       /\ UNCHANGED <<answer, link, expired, agreements>>

-------------------------------------------------------------------------------
(* POST /songs/:id/bump-version *)

\* MaxVersion bounds the model: beyond it nobody bumps.
BumpRead(r) ==
    /\ Latest < MaxVersion
    /\ Begin(r, [Idle EXCEPT !.at = "bumpLock", !.ver = Latest])

BumpLockKeepsLinks(r) ==                    \* mutant: old links stay outstanding
    req[r].at = "bumpLock" /\ Take(r) /\ Goto(r, "bumpRevoke") /\ UNCHANGED db

\* UPDATE the old version; then the UPDATE of its links picks its rows.
BumpLock(r) ==
    LET v == req[r].ver
    IN /\ req[r].at = "bumpLock"
       /\ Take(r)
       /\ req' = [req EXCEPT ![r].at = "bumpRevoke",
                             ![r].targets = {l \in LinkId : Outstanding(l) /\
                                                            link[l].version = v}]
       /\ UNCHANGED db

\* The UPDATE of the links waits for the rows it picked.
BumpRevoke(r) ==
    /\ req[r].at = "bumpRevoke"
    /\ Take(r)
    /\ Goto(r, "bumpCommit")
    /\ UNCHANGED db

RevokedAnyway(targets) ==                   \* mutant: status read once, before the wait
    [l \in LinkId |-> IF l \in targets
                      THEN [link[l] EXCEPT !.status = "revoked", !.revoked = TRUE]
                      ELSE link[l]]

\* An UPDATE ... WHERE status IN ('pending', 'viewed') tests the status again
\* once it has the row.
Revoked(targets) ==
    [l \in LinkId |-> IF l \in targets /\ Outstanding(l)
                      THEN [link[l] EXCEPT !.status = "revoked", !.revoked = TRUE]
                      ELSE link[l]]

BumpCommitKeepsStatus(r) ==                 \* mutant: the status of the song is left
    LET v == req[r].ver
    IN /\ req[r].at = "bumpCommit"
       /\ v + 1 \notin Existing
       /\ version' = [version EXCEPT ![v].status = "superseded",
                                     ![v + 1].status = "draft"]
       /\ shares'  = [shares EXCEPT ![v + 1] = shares[v]]
       /\ link'    = Revoked(req[r].targets)
       /\ song'    = [song EXCEPT !.current = v + 1]
       /\ Commit(r)
       /\ UNCHANGED <<answer, expired, agreements>>

BumpCommit(r) ==
    LET v == req[r].ver
    IN /\ req[r].at = "bumpCommit"
       /\ v + 1 \notin Existing
       /\ version' = [version EXCEPT ![v].status = "superseded",
                                     ![v + 1].status = "draft"]
       /\ shares'  = [shares EXCEPT ![v + 1] = shares[v]]
       /\ link'    = Revoked(req[r].targets)
       /\ song'    = [status |-> "draft", current |-> v + 1]
       /\ Commit(r)
       /\ UNCHANGED <<answer, expired, agreements>>

\* UNIQUE(song_id, version_number): another request has made that version.
BumpDuplicate(r) ==
    /\ req[r].at = "bumpCommit"
    /\ req[r].ver + 1 \in Existing
    /\ Rollback(r)

-------------------------------------------------------------------------------
(* POST /songs/:id/invitations *)

\* MaxLinks bounds the model: links that open transactions may still issue to
\* c count as issued.
MayInvite(c) ==
    Cardinality(Issued(c)) + Cardinality({r \in Requests : c \in req[r].who \union req[r].made})
        < MaxLinks[c]

\* Ids that are not of the workspace are skipped, so a list may come to nothing.
InviteRead(r) ==
    \E who \in SUBSET Contributors :
        /\ \A c \in who : MayInvite(c)
        /\ Begin(r, [Idle EXCEPT !.at = "inviteCheck", !.ver = Latest, !.who = who])

\* The loop over the contributors goes on until the list is empty.
NextInvitation(r) == IF req[r].who = {} THEN "inviteSong" ELSE "inviteNext"

\* getOwnershipValidation: 400 unless both totals are 100%.
InviteCheck(r) ==
    /\ req[r].at = "inviteCheck"
    /\ Balanced(shares[req[r].ver])
    /\ Goto(r, NextInvitation(r))
    /\ UNCHANGED <<db, locks>>

InviteRefused(r) ==
    /\ req[r].at = "inviteCheck"
    /\ ~Balanced(shares[req[r].ver])
    /\ Rollback(r)

InviteNextKeepsLinks(r) ==                  \* mutant: no revokePendingInvitations
    /\ req[r].at = "inviteNext"
    /\ \E c \in req[r].who :
         req' = [req EXCEPT ![r].at = "inviteIssue", ![r].who = @ \ {c},
                            ![r].made = @ \union {c}]
    /\ UNCHANGED <<db, locks>>

\* The next contributor of the list, in whatever order the caller gave it:
\* revokePendingInvitations picks the links to withdraw, of any version.
InviteNext(r) ==
    /\ req[r].at = "inviteNext"
    /\ \E c \in req[r].who :
         req' = [req EXCEPT ![r].at = "inviteIssue",
                            ![r].who = @ \ {c},
                            ![r].made = @ \union {c},
                            ![r].targets = @ \union {l \in LinkId : l[1] = c /\ Outstanding(l)}]
    /\ UNCHANGED <<db, locks>>

\* The UPDATE waits for the links it picked, the INSERT for its version row.
InviteIssue(r) ==
    /\ req[r].at = "inviteIssue"
    /\ Take(r)
    /\ Goto(r, NextInvitation(r))
    /\ UNCHANGED db

\* updateSongFields, before setVersionStatus.
InviteSong(r) ==
    /\ req[r].at = "inviteSong"
    /\ Take(r)
    /\ Goto(r, "inviteCommit")
    /\ UNCHANGED db

\* createInvitation, with a token of its own.
NewLink(l, made) ==
    /\ l[1] \in made
    /\ link[l].status = "none"
    /\ 1..(l[2] - 1) \subseteq Issued(l[1])

InviteCommit(r) ==
    LET v == req[r].ver
    IN /\ req[r].at = "inviteCommit"
       /\ link' = [l \in LinkId |->
                     IF NewLink(l, req[r].made)
                     THEN [status |-> "pending", version |-> v,
                           used |-> FALSE, revoked |-> FALSE]
                     ELSE Revoked(req[r].targets)[l]]
       /\ song'    = [song EXCEPT !.status = "proposed"]
       /\ version' = [version EXCEPT ![v].status = "proposed"]
       /\ Commit(r)
       /\ UNCHANGED <<shares, answer, expired, agreements>>

-------------------------------------------------------------------------------
(* POST /invitations/respond, and a WhatsApp button: processInvitationResponse *)

UsableRevoked(l) ==                         \* mutant: revoked_at is not tested
    link[l].status # "none" /\ l \notin expired

\* loadInvitationContext and the first test of used_at, before the transaction.
Usable(l) ==
    /\ link[l].status # "none"
    /\ ~link[l].revoked
    /\ l \notin expired

RespondLoad(r) ==
    \E l \in LinkId, action \in Actions :
        /\ Usable(l)
        /\ ~link[l].used
        /\ Begin(r, [Idle EXCEPT !.at = "respondLock", !.link = l,
                                 !.action = action, !.ver = link[l].version])

RespondLockNoRecheck(r) ==                  \* mutant: used_at is tested outside only
    req[r].at = "respondLock" /\ Take(r) /\ Goto(r, "respondRecord") /\ UNCHANGED db

\* SELECT used_at ... FOR UPDATE
RespondLock(r) ==
    /\ req[r].at = "respondLock"
    /\ ~link[req[r].link].used
    /\ Take(r)
    /\ Goto(r, "respondRecord")
    /\ UNCHANGED db

RespondUsed(r) ==
    /\ req[r].at = "respondLock"
    /\ link[req[r].link].used
    /\ Granted(r)
    /\ Rollback(r)

\* recordConfirmation: an INSERT checks its foreign key to the version, the
\* UPDATE of an answer already there does not.
RespondRecord(r) ==
    /\ req[r].at = "respondRecord"
    /\ Take(r)
    /\ Goto(r, IF req[r].action = "confirmed" THEN "respondValidate" ELSE "respondMark")
    /\ UNCHANGED db

\* The answers to version v as the transaction of r sees them.
AnswersSeen(r) ==
    [answer[req[r].ver] EXCEPT ![req[r].link[1]] = req[r].action]

RespondValidateOutside(r) ==                \* mutant: reads on another connection
    LET ok == Agreed(shares[req[r].ver], answer[req[r].ver])
    IN /\ req[r].at = "respondValidate"
       /\ req' = [req EXCEPT ![r].valid = ok,
                             ![r].at = IF ok THEN "respondMark" ELSE "respondCommit"]
       /\ UNCHANGED <<db, locks>>

RespondValidate(r) ==
    LET ok == Agreed(shares[req[r].ver], AnswersSeen(r))
    IN /\ req[r].at = "respondValidate"
       /\ req' = [req EXCEPT ![r].valid = ok,
                             ![r].at = IF ok THEN "respondMark" ELSE "respondCommit"]
       /\ UNCHANGED <<db, locks>>

\* setVersionStatus
RespondMark(r) ==
    /\ req[r].at = "respondMark"
    /\ Take(r)
    /\ Goto(r, "respondCommit")
    /\ UNCHANGED db

RespondCommit(r) ==
    LET q == req[r]
        v == q.ver
    IN /\ q.at = "respondCommit"
       /\ answer' = [answer EXCEPT ![v] = AnswersSeen(r)]
       /\ link'   = [link EXCEPT ![q.link].status = q.action, ![q.link].used = TRUE]
       /\ \/ /\ q.action = "change_requested"
             /\ song'    = [song EXCEPT !.status = "change_requested"]
             /\ version' = [version EXCEPT ![v].status = "draft"]
             /\ UNCHANGED agreements
          \/ /\ q.action = "confirmed" /\ q.valid
             /\ song'    = [song EXCEPT !.status = "confirmed"]
             /\ version' = [version EXCEPT ![v] = [status |-> "confirmed", confirmedAt |-> TRUE]]
             /\ agreements' = agreements \union {[version |-> v, status |-> "fully_confirmed"]}
          \/ /\ q.action = "confirmed" /\ ~q.valid
             /\ song'    = [song EXCEPT !.status = "proposed"]
             /\ UNCHANGED <<version, agreements>>
       /\ Commit(r)
       /\ UNCHANGED <<shares, expired>>

-------------------------------------------------------------------------------
(* POST /songs/:id/agreements *)

GenerateRead(r) ==
    Begin(r, [Idle EXCEPT !.at = "generateCommit", !.ver = Latest,
                          !.seen = version[Latest].status])

GenerateCommitEarly(r) ==                   \* mutant: a proposed version counts too
    LET confirmed == req[r].seen \in {"proposed", "confirmed"}
    IN /\ req[r].at = "generateCommit"
       /\ agreements' = agreements \union
            {[version |-> req[r].ver,
              status  |-> IF confirmed THEN "fully_confirmed" ELSE "pending_confirmations"]}
       /\ Commit(r)
       /\ UNCHANGED <<song, version, shares, answer, link, expired>>

GenerateCommit(r) ==
    LET confirmed == req[r].seen = "confirmed"
    IN /\ req[r].at = "generateCommit"
       /\ agreements' = agreements \union
            {[version |-> req[r].ver,
              status  |-> IF confirmed THEN "fully_confirmed" ELSE "pending_confirmations"]}
       /\ song' = IF confirmed THEN [song EXCEPT !.status = "completed"] ELSE song
       /\ Commit(r)
       /\ UNCHANGED <<version, shares, answer, link, expired>>

-------------------------------------------------------------------------------
(* Single statements, failures and the clock *)

\* GET /invitations/review/:rawToken marks a pending link as viewed.
View(l) ==
    /\ Usable(l)
    /\ link[l].status = "pending"
    /\ \A h \in locks : h.row # LinkRow(l)
    /\ link' = [link EXCEPT ![l].status = "viewed"]
    /\ UNCHANGED <<song, version, shares, answer, expired, agreements, req, locks>>

\* The clock passes expires_at; for a link that was answered or withdrawn this
\* changes nothing.
Expire(l) ==
    /\ Outstanding(l)
    /\ l \in Expiring \ expired
    /\ expired' = expired \union {l}
    /\ UNCHANGED <<song, version, shares, answer, link, agreements, req, locks>>

\* A statement fails, the connection is lost or the server restarts:
\* ROLLBACK.
Fail(r) == req[r].at # "idle" /\ Rollback(r)

\* PostgreSQL notices that requests are waiting for each other in a circle.
Deadlocked(r) ==
    \E S \in SUBSET Requests :
        r \in S /\ \A s \in S : Blockers(s) \intersect S # {}

-------------------------------------------------------------------------------
(* The specification *)

\* POST /songs has just created the song with a draft of its first version.
Init ==
    /\ song = [status |-> "draft", current |-> 1]
    /\ version = [v \in VersionNo |->
                    [status |-> IF v = 1 THEN "draft" ELSE "none", confirmedAt |-> FALSE]]
    /\ shares = [v \in VersionNo |-> [p \in Parts |-> 0]]
    /\ answer = [v \in VersionNo |-> [c \in Contributors |-> "none"]]
    /\ link = [l \in LinkId |-> [status |-> "none", version |-> 0,
                                 used |-> FALSE, revoked |-> FALSE]]
    /\ expired = {}
    /\ agreements = {}
    /\ req = [r \in Requests |-> Idle]
    /\ locks = {}
    /\ raced = {}

Start(r) == \/ SaveRead(r) \/ BumpRead(r) \/ InviteRead(r)
            \/ RespondLoad(r) \/ GenerateRead(r)

Step(r) == \/ SaveLock(r) \/ SaveRefused(r) \/ SaveCommit(r)
           \/ BumpLock(r) \/ BumpRevoke(r) \/ BumpCommit(r) \/ BumpDuplicate(r)
           \/ InviteCheck(r) \/ InviteRefused(r) \/ InviteNext(r) \/ InviteIssue(r)
           \/ InviteSong(r) \/ InviteCommit(r)
           \/ RespondLock(r) \/ RespondUsed(r) \/ RespondRecord(r)
           \/ RespondValidate(r) \/ RespondMark(r) \/ RespondCommit(r)
           \/ GenerateCommit(r)

Run == \/ \E r \in Requests : Start(r) \/ Step(r) \/ Fail(r)
       \/ \E l \in LinkId : View(l) \/ Expire(l)

SaveSteps    == {"saveLock", "saveCommit"}
BumpSteps    == {"bumpLock", "bumpRevoke", "bumpCommit"}
InviteSteps  == {"inviteCheck", "inviteNext", "inviteIssue", "inviteSong", "inviteCommit"}
AnswerSteps  == {"respondRecord", "respondValidate", "respondMark", "respondCommit"}
RespondSteps == {"respondLock"} \union AnswerSteps

Kinds == {"save", "bump", "invite", "respond", "generate"}
Pairs == {{j, k} : j, k \in Kinds}

Busy(r) == req[r].at # "idle"
\* Which handler a request runs, and which run beside each other.
Kind(r) == CASE req[r].at \in SaveSteps    -> "save"
             [] req[r].at \in BumpSteps    -> "bump"
             [] req[r].at \in InviteSteps  -> "invite"
             [] req[r].at \in RespondSteps -> "respond"
             [] OTHER                      -> "generate"

Overlaps == {p \in Pairs : \E r, q \in Requests :
                r # q /\ Busy(r) /\ Busy(q) /\ p = {Kind(r), Kind(q)}}

\* The history goes along with every step.
Track == raced' = raced \union Overlaps'

\* No two requests of these kinds have overlapped.
Apart(j, k) == {j, k} \notin raced

Next == Run /\ Track

Spec == Init /\ [][Next]_vars

\* A request that has begun goes on.  PostgreSQL queues the requests that wait
\* for a row, so one that could be granted its locks again and again gets them
\* (strong fairness), and it aborts a member of every circle of waiting ones.
Fairness ==
    \A r \in Requests : /\ SF_vars(Step(r) /\ Track)
                        /\ WF_vars(Deadlocked(r) /\ Fail(r) /\ Track)

FairSpec == Spec /\ Fairness

-------------------------------------------------------------------------------
(* Properties *)

Row == {SongRow} \union {VersionRow(v) : v \in VersionNo}
                 \union {LinkRow(l) : l \in LinkId}
                 \union {AnswerRow(v, c) : v \in VersionNo, c \in Contributors}

Places ==
    {"idle", "saveLock", "saveCommit", "bumpLock", "bumpRevoke", "bumpCommit",
     "inviteCheck", "inviteNext", "inviteIssue", "inviteSong", "inviteCommit",
     "respondLock", "respondRecord", "respondValidate", "respondMark",
     "respondCommit", "generateCommit"}

Request ==
    [at : Places, ver : {0} \union VersionNo, seen : VersionStatus, save : Saves \union {<<>>},
     link : LinkId \union {<<>>}, action : Actions \union {"none"}, valid : BOOLEAN,
     targets : SUBSET LinkId, who : SUBSET Contributors, made : SUBSET Contributors]

TablesTypeOK ==
    /\ song \in [status : SongStatus, current : VersionNo]
    /\ version \in [VersionNo -> [status : VersionStatus, confirmedAt : BOOLEAN]]
    /\ shares \in [VersionNo -> [Parts -> 0..Whole]]
    /\ answer \in [VersionNo -> [Contributors -> Actions \union {"none"}]]
    /\ link \in [LinkId -> [status : LinkStatus, version : {0} \union VersionNo,
                            used : BOOLEAN, revoked : BOOLEAN]]
    /\ expired \subseteq LinkId
    /\ agreements \subseteq [version : VersionNo,
                             status : {"pending_confirmations", "fully_confirmed"}]

RequestsTypeOK ==
    /\ req \in [Requests -> Request]
    /\ locks \subseteq [by : Requests, row : Row, mode : Modes]

\* The tables hold the rows that schema.sql allows (its CHECK constraints and
\* keys), and a request and a lock have the fields that their names say.
TypeOK == TablesTypeOK /\ RequestsTypeOK

\* However bumps race, the version numbers of the song are 1, 2, ... without a
\* gap, and the song's own current_version_number (shown on every screen and
\* export) is the version that getCurrentVersion finds.
CurrentVersionIsLatest ==
    /\ Existing = 1..song.current
    /\ song.current = Latest

\* An answer on file for a contributor and a version was given through a link
\* issued to that contributor for that version, and that link still shows it.
AnswersHaveLinks ==
    \A v \in VersionNo, c \in Contributors :
        answer[v][c] # "none" =>
            \E n \in 1..MaxLinks[c] : /\ link[<<c, n>>].version = v
                                   /\ link[<<c, n>>].used
                                   /\ link[<<c, n>>].status = answer[v][c]

\* confirmed_at and the fully confirmed agreement of a version are there
\* together or not at all, and a version shown as confirmed has both.
ConfirmationHasAgreement ==
    \A v \in VersionNo :
        /\ version[v].confirmedAt
             <=> [version |-> v, status |-> "fully_confirmed"] \in agreements
        /\ version[v].status = "confirmed" => version[v].confirmedAt

\* A link that has been answered never changes again: a double submit, a web
\* answer racing a WhatsApp button, a bump or a new invitation leave it alone.
AnsweredLinksAreFinal ==
    [][\A l \in LinkId : link[l].used => link'[l] = link[l]]_vars

\* What a review link promises, in terms of the tables.
LinkState(l) == CASE Outstanding(l)              -> "open"
                  [] link[l].status = "revoked" -> "withdrawn"
                  [] OTHER                      -> link[l].status

Links == INSTANCE ReviewLinks WITH
            Links    <- LinkId,
            Versions <- VersionNo,
            Owner    <- [l \in LinkId |-> l[1]],
            state    <- [l \in LinkId |-> LinkState(l)],
            about    <- [l \in LinkId |-> link[l].version],
            standing <- answer

\* The handlers, statement by statement, keep the promise of ReviewLinks, in
\* which issuing, withdrawing and answering are one step each.
KeepsLinkPromise == Links!Spec

\* Every request comes to its end: circles of requests that wait for each
\* other's rows (a bump and an answer, an invitation and a save) are broken.
RequestsFinish ==
    \A r \in Requests : req[r].at # "idle" ~> req[r].at = "idle"

-------------------------------------------------------------------------------
(* The inductive invariant behind these properties *)

\* What a request has read is about rows that exist, and still fits them.
ReadsFitOf(r) ==
    /\ req[r].at # "idle" => req[r].ver \in Existing
    /\ req[r].at \in BumpSteps => req[r].ver < MaxVersion
    /\ req[r].at \in RespondSteps =>
          /\ req[r].link \in LinkId
          /\ req[r].action \in Actions
          /\ link[req[r].link].status # "none"
          /\ link[req[r].link].version = req[r].ver
    /\ req[r].at = "generateCommit" /\ req[r].seen = "confirmed" =>
          version[req[r].ver].confirmedAt

ReadsFit == \A r \in Requests : ReadsFitOf(r)

\* No two transactions hold locks on a row that exclude each other.
LocksCompatible ==
    \A h, k \in locks :
        h.row = k.row /\ Conflicting(h.mode, k.mode) => h.by = k.by

\* A request that is recording an answer has locked its link, and the link is
\* still unanswered: nobody answers it in between.
AnswerIsExclusiveOf(r) ==
    req[r].at \in AnswerSteps =>
        /\ Lock(r, LinkRow(req[r].link), "forUpdate") \in locks
        /\ ~link[req[r].link].used

AnswerIsExclusive == \A r \in Requests : AnswerIsExclusiveOf(r)

\* used_at is set with the answer, and links are about versions that exist.
LinksConsistent ==
    \A l \in LinkId :
        /\ link[l].used <=> link[l].status \in Actions
        /\ link[l].status # "none" => link[l].version \in Existing

\* Everything above that holds in every state, strong enough to be preserved
\* by each step on its own.
IInv ==
    /\ TypeOK
    /\ CurrentVersionIsLatest
    /\ ReadsFit
    /\ LocksCompatible
    /\ AnswerIsExclusive
    /\ LinksConsistent
    /\ ConfirmationHasAgreement
    /\ AnswersHaveLinks

-------------------------------------------------------------------------------
(* Properties that the handlers keep until certain of them overlap *)

\* Each right adds up, and whoever has a share of either has confirmed.
EveryoneConfirmed(split, answers) ==
    /\ \A t \in RightTypes : Total(split, t) = Whole
    /\ \A p \in Parts : split[p] > 0 => answers[p[1]] = "confirmed"

\* Versions that are settled: the splits of one that is confirmed or superseded
\* stay as they are, unless a save has overlapped an answer or a bump.  One that
\* is superseded keeps its status too, unless a bump has overlapped a save, an
\* invitation or an answer.
SettledIsNotEdited ==
    [][\A v \in VersionNo :
          /\ /\ Apart("save", "respond") /\ Apart("save", "bump")
             /\ version[v].status \in {"confirmed", "superseded"}
             => shares'[v] = shares[v]
          /\ /\ \A k \in {"save", "invite", "respond"} : Apart("bump", k)
             /\ version[v].status = "superseded"
             => version'[v] = version[v]]_vars

\* A version becomes confirmed with splits that add up and that every
\* contributor with a share has confirmed, unless an answer has overlapped a
\* save or another answer.
ConfirmedByAll ==
    [][Apart("respond", "save") /\ Apart("respond", "respond") =>
          \A v \in VersionNo :
              version[v].status # "confirmed" /\ version'[v].status = "confirmed"
                 => EveryoneConfirmed(shares'[v], answer'[v])]_vars

AnsweredByAllIsConfirmed ==
    \A v \in VersionNo :
        /\ ~EveryoneConfirmed(shares[v], answer[v])
        /\ EveryoneConfirmed(shares'[v], answer'[v])
        /\ shares'[v] = shares[v]
        => version'[v].status = "confirmed"

\* The answer after which everyone with a share has confirmed also confirms
\* the version, with the same exceptions.
LastAnswerConfirms ==
    [][Apart("respond", "save") /\ Apart("respond", "respond")
          => AnsweredByAllIsConfirmed]_vars

\* Links that are still outstanding are for the current version, unless an
\* invitation has overlapped a bump: otherwise a bump leaves no link behind on
\* the version it supersedes.
LinksFollowCurrentVersion ==
    Apart("invite", "bump") =>
        \A l \in LinkId : Outstanding(l) => link[l].version = song.current

\* A contributor has at most one link outstanding, unless two invitations have
\* overlapped: inviting again withdraws the link sent before.
OneOutstandingLink ==
    Apart("invite", "invite") =>
        \A k, l \in LinkId : k[1] = l[1] /\ Outstanding(k) /\ Outstanding(l) => k = l

\* A link that was withdrawn is never used to answer, unless an answer has
\* overlapped what withdraws links, a bump or an invitation.
WithdrawnLinksAreUnused ==
    Apart("respond", "bump") /\ Apart("respond", "invite") =>
        \A l \in LinkId : ~(link[l].revoked /\ link[l].used)

\* A song that the dashboard counts as completed is one whose current version
\* is confirmed, unless an agreement was generated beside another handler.
CompletedIsConfirmed ==
    (\A k \in Kinds \ {"generate"} : Apart("generate", k)) =>
        (song.status = "completed" => version[song.current].status = "confirmed")

\* Two requests that are running are on record as having overlapped.
HistoryIsKept == Overlaps \subseteq raced

\* A withdrawn link says so twice, and only a version that has a successor is
\* superseded.
RowsAgree ==
    /\ \A l \in LinkId : link[l].status = "revoked" => link[l].revoked
    /\ \A v \in VersionNo : version[v].status = "superseded" => v < song.current

\* The rules about rows that overlaps can break.
TablesHold ==
    /\ LinksFollowCurrentVersion
    /\ OneOutstandingLink
    /\ WithdrawnLinksAreUnused
    /\ CompletedIsConfirmed

\* What request r has read or picked is still so when it acts on it, unless a
\* handler that changes it has overlapped.
SaveActsOnNow(r) ==
    LET q == req[r]
    IN /\ q.at \in SaveSteps /\ Apart("save", "bump") => q.ver = song.current
       /\ (q.at = "saveLock" /\ q.seen # "confirmed") \/ q.at = "saveCommit" =>
             (Apart("save", "respond") => version[q.ver].status # "confirmed")

BumpActsOnNow(r) ==
    LET q == req[r]
    IN q.at \in {"bumpRevoke", "bumpCommit"} /\ q.ver = song.current /\ Apart("invite", "bump") =>
          \A l \in LinkId : Outstanding(l) => l \in q.targets

InviteActsOnNow(r) ==
    LET q == req[r]
    IN q.at \in InviteSteps =>
          /\ Apart("invite", "bump") => q.ver = song.current
          /\ Apart("invite", "invite") =>
                \A l \in LinkId : l[1] \in q.made /\ Outstanding(l) => l \in q.targets

RespondActsOnNow(r) ==
    LET q == req[r]
    IN /\ q.at \in RespondSteps =>
             /\ Apart("respond", "bump") /\ Apart("invite", "bump") => q.ver = song.current
             /\ Apart("respond", "bump") /\ Apart("respond", "invite") => ~link[q.link].revoked
       /\ q.at \in {"respondMark", "respondCommit"} /\ q.action = "confirmed" =>
             (Apart("respond", "save") /\ Apart("respond", "respond") =>
                (q.valid <=> Agreed(shares[q.ver], AnswersSeen(r))))

GenerateActsOnNow(r) ==
    LET q == req[r]
    IN q.at = "generateCommit" /\ (\A k \in Kinds \ {"generate"} : Apart("generate", k)) =>
          /\ q.ver = song.current
          /\ q.seen = "confirmed" => version[q.ver].status = "confirmed"

ActsOnNow(r) ==
    /\ SaveActsOnNow(r)
    /\ BumpActsOnNow(r)
    /\ InviteActsOnNow(r)
    /\ RespondActsOnNow(r)
    /\ GenerateActsOnNow(r)

\* Why the properties above hold.
RaceInv ==
    /\ HistoryIsKept
    /\ RowsAgree
    /\ TablesHold
    /\ \A r \in Requests : ActsOnNow(r)

-------------------------------------------------------------------------------
(* What the documents of the repository say, and the code does not keep *)

\* README.md: changing agreed splits requires bumping to a new version. One
\* request at a time refutes this: a confirmed version is invited for again, which
\* makes it proposed, and is then saved over.
AgreedSplitsNeedBump ==
    [][\A v \in VersionNo :
          version[v].confirmedAt => shares'[v] = shares[v]]_vars

\* The version is confirmed with the last answer, also when two contributors
\* answer at the same time.
LastAnswersConfirm == [][AnsweredByAllIsConfirmed]_vars
=============================================================================
