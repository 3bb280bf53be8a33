# Formal model of Ospreyn

TLA+ modules, TLC configurations and TLAPS proofs about Ospreyn, the system that
keeps who owns what of a song, asks each contributor to confirm it through a
single-use review link, and keeps the agreement, documents and audit trail that
show it. The modules are about its API server (`server/`) and about those parts
of its browser application (`src/`) that keep state over several requests.

Paths below are relative to the repository, e.g. `server/routes.ts:1285`.

## 1. The system

One Node process serves an Express router over one PostgreSQL database. There
is no in-process state except the rate limiter (`server/rateLimit.ts`) and the
messages being sent: every handler reads and writes tables, through `repo.ts`,
either statement by statement on a pool (each statement its own transaction) or
inside `tx` (`server/db.ts:57-72`), which is `BEGIN ... COMMIT` at PostgreSQL's
default level, READ COMMITTED, with `ROLLBACK` on any error. What is hard on the
server comes from there: a handler awaits between statements, other handlers
(and other server processes on the same database) run in between, and a value
read before an await is used after it.

The browser application is one React tree under `App`. Its pages start async
functions that nothing cancels, set state when they end, and ask again for what
changed. `RequireAuth` and `RequireAdmin` are defined inside `App`
(`src/App.tsx:155`), so that every render of `App` gives them a new identity and
React mounts everything under them afresh: what is hard there is which mount an
answer still belongs to.

| component | state | operations | interacts with |
|---|---|---|---|
| rights record (`routes.ts` 4-9) | `songs`, `rights_record_versions`, `ownership_allocations`, `invitations`, `contributor_confirmations`, `agreements` | save splits, bump the version, invite, view a link, answer a link, generate an agreement | contributors, e-mail, WhatsApp, audit trail |
| songs and contributors (`routes.ts` 2-3) | `songs`, `contributors`, `song_contributors` | create and edit a song, add and remove contributors and roles | plans (song limit), rights record |
| review portal, WhatsApp webhook, notices (`ReviewPortalView.tsx`, `routes.ts` 6-7b, `whatsapp.ts`, `email.ts`) | the open page, messages being sent | show the splits, answer by page or by button, tell the owner | rights record |
| accounts (`routes.ts` 1, `auth.ts`) | `users`, `sessions`, `user_action_tokens` | sign in and out, change and reset the password, change and verify the address, delete the account | rate limiter, e-mail, team, document vault |
| team (`routes.ts` 1b, `LoginView.tsx`, `TeamAcceptView.tsx`) | `organisation_members`, `organisation_invitations` | invite, follow the link, accept, revoke, change a role, remove a member | plans (seats), accounts |
| document vault (`routes.ts` 10, `storage.ts`, `localStorage.ts`) | `documents` and the objects of the storage bucket | presign an upload, complete it, download, delete | plans (storage), accounts |
| billing (`routes.ts` 12, `paystack.ts`, `plans.ts`, `BillingReturnView.tsx`) | `organisations.plan` and its subscription columns, `payments`, the return page | checkout, verification, webhooks, plan set by an administrator | team and songs (limits) |
| rights record page (`App.tsx`, `RightsRecordView.tsx` and its tabs) | the loaded record, inputs, dialogs, busy flags | save, bump, add, remove, invite, agree, upload; refresh after each | rights record, vault |
| rate limiter (`rateLimit.ts`) | a `Map` of buckets in the process | count a request, sweep | accounts |
| evidence strength (`evidence.ts`) | none (a function of the stored documents) | score, label | document vault |
| audit trail, dashboard, admin reads | `audit_events` (insert only) | SELECTs | all |
| agreement texts, PDF and print | none | rendering | all |

What makes each correct:

* **rights record**: a version is confirmed only by everyone who has a share of
  it, with splits that add up to 100%; a confirmed version is not edited;
  a change needs a new version, which withdraws the links of the old one; a
  link is answered once, and its answer stays; whatever is on file (answers,
  `confirmed_at`, the fully confirmed agreement, the current version number)
  fits together; no request hangs.
* **review portal, webhook, notices**: what the contributor reads about their
  answer is what is on file; the owner hears of each answer, once; no page waits
  for ever.
* **accounts**: a reset or verification link works once and only the newest one
  works; after a password change or reset only sessions opened with the new
  password live; the verified mark is about the address on file.
* **team**: a workspace keeps its owner, does not exceed the seats of its plan,
  and a removed member is out; who follows an invitation joins.
* **document vault**: a document that is shown has its object, is there once and
  does not come back; the checksum is that of the bytes; no row outlives its
  workspace; the evidence score counts what is there.
* **billing**: a plan rests on a payment or is set by an administrator, every charge and
  every change of plan is on file, and what was paid for arrives.
* **rights record page**: once it is quiet it shows what was done from it, its
  label tells the truth about its inputs, and busy buttons come back.
* **rate limiter**: no more than `max` requests of a key in one window.

### How the modules fit together

| module | about | abstract specification | proofs |
|---|---|---|---|
| `RightsRecord` | one song's rights record on the server | `ReviewLinks` | `RightsRecord_proofs` |
| `Answering` | the way of a review link to the contributor and of the answer back; the transactions of `RightsRecord` are one step each | | `Answering_proofs` |
| `Accounts` | one user | | `Accounts_proofs` |
| `Workspace` | one workspace: members, invitations, limits | | `Workspace_proofs` |
| `JoinLink` | the way of a team invitation to the invited person's browser | | |
| `DocumentVault`, using `Evidence` | documents, objects, upload links | `Vault` | `DocumentVault_proofs` |
| `SongPage` | the page of a song and the shell around it; what a handler of `RightsRecord` does is a new revision | | `SongPage_proofs` |
| `Billing`, extending `Plans` | one workspace's plan | | `Billing_proofs` |

Each `MC...` module gives the constants of a module their values for TLC.

### One request, and two

Many rules of this server hold of each handler but not of two that overlap,
since what one reads is stale when it writes. Which two? A history variable,
`raced`, answers that: it collects the pairs of kinds of handler (`"save"` with
`"bump"`, `"invite"` with `"invite"`) that have been running at the same time,
and `Apart(j, k)` says that no two of these kinds have. A property `Apart(j, k)
=> P` says that `P` holds over any sequence of requests and any overlaps but
that one: it names exactly the pairs that can break `P`. In `Accounts`,
`cutShort` does the same for the two statements whose failure matters.

That the pairs named are enough is proved for all values of the constants:
`RaceInv` is the inductive invariant (what a request has read is still so when
it acts on it, and the rules on the rows hold, each except for the pairs that
disturb it), and `OneAtATime` draws the conclusion that with one request at a
time the rules hold without exception. That each pair named is needed was seen
with TLC: take it away and there is a counterexample, told in the section of the
component with its length in states.

## 2. The rights record

### Modules

| module | role |
|---|---|
| `RightsRecord` | the handlers of one song's rights record, statement by statement, with the row locks of PostgreSQL; properties and inductive invariant |
| `ReviewLinks` | the abstract specification of review links: issued once, answered at most once, the last answer is the one on file |
| `MCRightsRecord` | constants for TLC |
| `RightsRecord_proofs` | the theorems |

`song`, `version`, `shares`, `answer`, `link` and `agreements` are the tables
`songs`, `rights_record_versions`, `ownership_allocations`,
`contributor_confirmations`, `invitations` and `agreements` of one song, with
the columns that some handler tests. `expired` stands for the clock having
passed `expires_at`. `req[r]` is the program counter and the local variables of
request `r`, and `locks` the row locks of the open transactions.

**Steps.** A request takes one step per statement whose place among the
statements of other requests can be told apart: a read whose result is used
later (`SaveRead` reads the version and its status before it waits,
`RespondLoad` checks the link before the transaction opens), a statement that
can wait for a row lock, and `COMMIT`. Statements between two such points touch
only rows that the transaction has locked or that only it can see, so they are
part of the next step. What a transaction has written is invisible to others
until it commits, so its writes are made in its last step; the values it writes
are computed from what it read in the earlier ones. `Fail` is any error,
lost connection or restart: nothing of the transaction remains.

**Row locks.** `Wanted(r)` gives the rows and modes of the statement that `r` is
at: `SELECT ... FOR UPDATE`, the `FOR NO KEY UPDATE` of an `UPDATE`, and the
`FOR KEY SHARE` of a foreign-key check; `Conflicting` is PostgreSQL's table of
conflicts for these three. The key-share locks on the songs and contributors
rows conflict with nothing these handlers do and are left out. After waiting,
an `UPDATE` tests its `WHERE` again (`Revoked`), and a `SELECT ... FOR UPDATE`
followed by a test of a value read earlier does not (`SaveLock`): this is where
the code is right in one place and wrong in another. An `UPDATE` of several
links waits until it can have all of them, where PostgreSQL takes them one by
one; a circle that needs two links half taken is out of the model.

| code | actions |
|---|---|
| `POST /songs/:id/ownership` 1249-1345 | `SaveRead`, `SaveLock`, `SaveRefused`, `SaveCommit` |
| `POST /songs/:id/bump-version` 1351-1418 | `BumpRead`, `BumpLock`, `BumpRevoke`, `BumpCommit`, `BumpDuplicate` |
| `POST /songs/:id/invitations` 1424-1592 | `InviteRead`, `InviteCheck`, `InviteRefused`, `InviteNext`, `InviteIssue` (once per contributor), `InviteSong`, `InviteCommit` |
| `GET /invitations/review/:rawToken` 1633-1736 | `View` |
| `processInvitationResponse` 1748-1916, from the web or WhatsApp | `RespondLoad`, `RespondLock`, `RespondUsed`, `RespondRecord`, `RespondValidate`, `RespondMark`, `RespondCommit` |
| `POST /songs/:id/agreements` 2029-2089 | `GenerateRead`, `GenerateCommit` |
| `tx` in `db.ts`, PostgreSQL, the clock | `Begin`, `Commit`, `Rollback`, `Fail`, `Expire`, `Deadlocked` |

**Abstractions.** 100% is `Whole` units (10000 in the code). A body of
`POST /ownership` is a function from the (contributor, right) pairs it lists;
a body of `POST /invitations` is a set of contributors, in any order, where ids
of other workspaces have been skipped (so it may be empty). Agreements are kept
as (version, status) pairs: their text, and how often one was generated, are
left out. Names, comments, addresses, audit events and messages are left out:
they are written and never tested. `answer` has one row per version and
contributor, as `UNIQUE(version_id, contributor_id)` and the upsert in
`recordConfirmation` make it.

### What is checked

| run | states | shows |
|---|---|---|
| `rights_record` | 618 thousand | whatever overlaps: `IInv` (types, version numbering, answers backed by links, answered links final, confirmation and agreement together) and `KeepsLinkPromise`, the refinement of `ReviewLinks`. Except for the pairs of handlers named below: links follow the current version, one link outstanding per contributor, withdrawn links unused, settled versions unedited, confirmed by all holders, the last answer confirms, completed songs are confirmed |
| `rights_record_live` | 54 thousand | every request ends, although requests take their rows in different orders and deadlock; the view `WithoutHistory` leaves `raced`, which no step tests, out of the states |

Bounds: two contributors, because every property relates one contributor to
"the others"; two links for one of them and one for the other, because a link is
withdrawn by the next; two versions, because every rule is about a version and
the next; `Whole = 2`, enough for even, sole and unbalanced splits;
two requests, because every hazard listed is a pair. The constraint `Small` of
`MCRightsRecord` follows one pair of kinds at a time: once requests of two kinds
have overlapped, no others do, and the second link for one contributor, the
expiry and the partial saves are left to the sequences of requests one at a
time, in which a link expires or a save is partial, but not both. The proofs
need no bound.

**Fairness.** `rights_record_live` assumes, per request, `SF(Step)`: PostgreSQL
serves the waiters of a row in turn, so a statement that can have its row again
and again gets it; and `WF(Deadlocked /\ Fail)`: its deadlock detector aborts a
member of every circle. Nothing is assumed of `Start`, `View`, `Expire`, or of
failures without a circle.

### What happens when requests overlap

| property | pair | what happens | states |
|---|---|---|---|
| `SettledIsNotEdited` | save, answer | a save reads the status, waits for the row while the last confirmation commits, and then edits the confirmed version (`routes.ts:1285` tests the old value) | 19 |
| | save, bump | a save that read the version before a bump edits the superseded one | 8 |
| | bump with save, invitation, answer | the other handler read the version before the bump and writes its status after it | 8, 12, 19 |
| `LinksFollowCurrentVersion` | invitation, bump | an invitation that read the version before a bump issues its links after it | 14 |
| `OneOutstandingLink` | two invitations | neither revokes the link the other is inserting | 16 |
| `WithdrawnLinksAreUnused` | answer with bump, invitation | an answer that passed the `revoked_at` test (`routes.ts:1606`) before the withdrawal committed is recorded, since `routes.ts:1786` tests only `used_at` again | 19, 21 |
| `ConfirmedByAll` | answer with save, answer | an answer counts confirmations while another answer, or a save, commits | 30, 34 |
| `LastAnswerConfirms` | answer with save, answer | the same, and the last of the answers does not find the others | 39, 22 |
| `CompletedIsConfirmed` | agreement with save, bump, invitation, answer | an agreement for a confirmed version commits after the version has been left or has lost its confirmation (`routes.ts:2062`) | 21, 22, 22, 25 |

The gap is what the row locks of the code do not cover. Every pair that is not
in the table does no harm to these properties.

### What the documents say and the code does not do

| run (expected to be violated) | statement | what happens |
|---|---|---|
| `last_answers` | LandingPage: "Once everyone has confirmed, pull a complete package" | two last answers do not see each other, both leave the version `proposed`, and both links are used |

`README.md:88` says that changing agreed splits requires bumping to a new
version, which `AgreedSplitsNeedBump` states. No run is spent on it, since one
request at a time refutes it: inviting again for a confirmed version makes it
`proposed` (`routes.ts:1536` tests no status), after which its splits can be
saved over, with `confirmed_at` and the agreement left as they were. TLC finds
this when the definition is given as the PROPERTY of a configuration with one
request.

### What is proved

`RightsRecord_proofs`, for any sets of requests and contributors, any `Whole`,
bodies and bounds, from the assumptions `WholeAssumption`, `BoundsAssumption`
and `SavesAssumption` (a body has basis points from 0 to 100%, which the handler
checks):

| theorem | statement |
|---|---|
| `InvariantHolds` | `Spec => []IInv` |
| `TypeCorrect`, `CurrentVersionCorrect`, `AnswersCorrect`, `ConfirmationCorrect`, `AnsweredLinksFinal` | the parts of `IInv` a reader will want by name, and answered links stay as they are |
| `LinkPromiseKept` | `Spec => KeepsLinkPromise`: refinement of `ReviewLinks` |
| `AgreedMeansEveryone` | the handlers' count of confirmations says what `EveryoneConfirmed` says, for finitely many contributors |
| `RaceInvariantHolds` | `Spec => []RaceInv`: what a request has read is still so when it acts on it, unless one of the handlers that change it has overlapped |
| `LinksFollow`, `OneLinkEach`, `WithdrawnUnused`, `CompletedConfirmed`, `SettledStays`, `ConfirmedByEveryone`, `LastAnswerCounts` | the seven properties, each except for its pairs in the table above |
| `OneAtATime` | with one request at a time the seven hold without exception |
| `LocksReleased` | `Spec => []LocksAreFreed`: only requests that are running hold row locks |
| `StepsRunOut` | `Left`, at most five steps and two per contributor, decreases with every step of a request, and no other request sets it back |

Why `IInv` is what it is. `AnswersHaveLinks` is not inductive alone: an answer
must not be replaced through another link and a used link must not change, which
holds because a link being answered is locked and unused until the commit
(`AnswerIsExclusive`); that in turn needs that two transactions never hold
excluding locks (`LocksCompatible`), that the link a request has read is still
the one it was about (`ReadsFit`), and that `used_at` and the status of a link
agree, so that the re-tested `WHERE` of a revocation leaves used links alone
(`LinksConsistent`). `CurrentVersionIsLatest` needs that a bump works from a
version that exists and is still numbered below the bound (`ReadsFit`); the
unique constraint does the rest. `ConfirmationHasAgreement` needs that a request
that saw "confirmed" works on a version whose `confirmed_at` is set (`ReadsFit`).
`RaceInv` adds what holds of rows that are not locked, and is a conjunction of
implications, each from its own pairs: for a save, that its version is current
and not confirmed; for a bump, that the links it is about to revoke are all
there are; for an invitation, that the links outstanding of those it has already
invited are among the ones it revokes; for an answer, that its link is not
withdrawn and that the count of confirmations it saw is the one there is; for an
agreement, that the version it saw confirmed is. Each action is a lemma of its
own, for its own request and for the others, and the preservation proof is split
by the groups save, bump, invite, respond, generate, view, expire and failure.

`StepsRunOut` and `LocksReleased` are the safety side of `RequestsFinish`: a
request that goes on finishes, and leaves no lock behind for which another one
waits. What remains of it is liveness: that the request does go on, which is the
fairness above.

Only model-checked: `RequestsFinish`, which is liveness, and the two runs
expected to be violated.

## 3. Accounts

### Modules

| module | role |
|---|---|
| `Accounts` | one user: address, passwords, sessions, single-use links; properties and inductive invariant |
| `MCAccounts` | constants for TLC |
| `Accounts_proofs` | the theorems |

`user` is the users row, `session` and `token` the rows of `sessions` and
`user_action_tokens`. A password is the number of its choice (1 at registration),
so "the password on file" is the latest number and a session remembers the
number it was opened with; the strings and hashes are left out, and a request
may give any password the user ever had. `proven`, `honoured`, `cutShort` and
`raced` are history: the mailbox a verification came from, how often a link had
its effect, the statements before which a request failed that changes the
password (`"revoke"`, of the sessions) or the address (`"invalidate"`, of the
links), and the pairs of handlers that have overlapped.

**Steps.** None of these handlers opens a transaction, except the creation and
the deletion of an account: every statement is a step (`ChangeCheck`,
`ChangeUpdate`, `Revoke`; `Invalidate`, `Insert`), other requests run in
between, and `Fail` leaves behind what was done. The request carries what it
read: the session it came with, the address that `requireAuth` saw, the link it
consumed. `DeleteRevoke` and `DeleteCommit` are one transaction; the first is
the point at which its `UPDATE` of the sessions chooses its rows.

| code | actions |
|---|---|
| `POST /auth/register`, `/auth/login`, `/auth/logout` 98-222 | `RegisterRead`, `RegisterCommit`, `RegisterDuplicate`, `LoginRead`, `OpenSession`, `Logout` |
| `POST /auth/forgot-password`, `/auth/reset-password` 414-468 | `ForgotRead`, `Invalidate`, `Insert`, `ResetConsume`, `ResetUpdate`, `Revoke` |
| `POST /account/password` 363-406 | `ChangeBegin`, `ChangeCheck`, `ChangeUpdate`, `Revoke` |
| `POST /account/email`, `/account/resend-verification`, `/auth/verify-email` 312-358, 470-495 | `EmailBegin`, `EmailCheck`, `EmailUpdate`, `ResendBegin`, `VerifyConsume`, `VerifyMark` |
| `DELETE /account` 610-674, the user's part | `DeleteBegin`, `DeleteCheck`, `DeleteRevoke`, `DeleteCommit` |
| a wrong password; expiry; errors | `CheckRefused`, `ExpireSession`, `ExpireToken`, `Fail` |

A second user, the profile and the avatar are not modelled; the uniqueness of
addresses shows in `RegisterDuplicate` only.

### What is checked

| run | states | shows |
|---|---|---|
| `accounts` | 1.0 million | two requests that may fail anywhere: links have their effect at most once, and sessions open at a change of the password end with it, unless the request failed just before. Except for the pairs of handlers and the failures named below: only sessions of the current password are left after a change, one live link per purpose, the verified mark belongs to the address on file, a deleted account keeps no address |

Bounds: three passwords (a change and a change over it), two sessions (the one
that changes the password and another), two links (a link and the one that
replaces it, of both purposes), two addresses. The constraint `Small` of
`MCAccounts` follows one pair of kinds at a time, and after it neither expiries
nor the failures above; one request at a time is not cut. A deleted account and the bounds
stop the model, so the run does not look for deadlock; no handler waits for
another here.

No transaction or lock keeps the statements of two handlers apart:

| property | pair, or failure | what happens | states |
|---|---|---|---|
| `SessionsEndWithPassword` | sign-in with reset, change | a sign-in that has compared the old password opens its session after the revocation | 12, 10 |
| | failure before "revoke" | the password has changed, and the sessions of the old one go on | 10 |
| `NewestLinkOnly` | two requests to reset; two changes of the address, two resends, one of each | both requests invalidate before either inserts | 10; 14, 10, 12 |
| `VerifiedAddressIsProven` | change of the address with verification | a click on a link to the old address marks the new one | 12 |
| | with another change, resend | a link to the address of before is inserted after the invalidation, and marks the new one | 16, 14 |
| | failure before "invalidate" | links to the old address go on to work for the new one | 13 |
| `DeletionIsFinal` | change of the address, deletion | a change under way writes to the anonymised row | 11 |

### What is proved

`Accounts_proofs`, for any requests, addresses and bounds, from
`AccountsAssumption`:

| theorem | statement |
|---|---|
| `InvariantHolds` | `Spec => []IInv` |
| `LinksOnce` | needs that a link a request has consumed is used, held by that request alone and has had no effect yet (`LinksHeldOnce`) |
| `PriorSessionsCut` | the request that changes the password is left with the sessions to revoke, and only its failure at that point can leave one open (`cutShort`), because the revocation is a statement after the `UPDATE` and not in one transaction with it |
| `RaceInvariantHolds` | `Spec => []RaceInv` |
| `SessionsCut`, `OnlyNewestLink`, `VerifiedIsProven`, `DeletedForGood` | the four properties, each except for its pairs and failures in the table above |
| `OneAtATime` | with one request at a time the four hold without exception, but for the two failures |

`RaceInv` says what the handlers count on: a sign-in, that the password it
compared is the one on file; a request that inserts a link, that no other of the
purpose works; one that mails a link, that the address is still the one it read;
a verification, that the link it consumed was sent to the address on file; a
change of the address, that the account is not deleted. On the rows:
each session was opened with the password there was (`SessionsFit`), and a
verification link that works was sent to the address on file, or a change of the
address is about to invalidate it (`LiveLinksFit`). Each is an implication from
the pairs that disturb it.

## 4. The workspace

### Modules

| module | role |
|---|---|
| `Workspace` | members, invitations, songs counted, and the end of one workspace; properties and inductive invariant |
| `MCWorkspace` | constants for TLC |
| `Workspace_proofs` | the theorems |

`member[u]` is the row of `organisation_members` of user `u`, with the
invitation that made it as its identity (a person who is removed and comes back
has another row, which a request about the old one does not find). An address is
the user it belongs to. `songs` is how many there are. Other workspaces are left
out: a user signs in whether or not they are a member of this one. Only plans
with limits are modelled; where a limit is null the counts are skipped.

| code | actions |
|---|---|
| `POST /team/invitations` 704-781 | `InviteBegin`, `CountMembers`, `CountPending`, `InviteAllowed`, `InviteRefused`, `InviteCheck`, `InviteInsert` |
| `DELETE /team/invitations/:id` 783-791 | `RevokeBegin`, `RevokeUpdate` |
| `POST /team/invitations/token/:rawToken/accept` 804-829 | `AcceptBegin`, `AcceptCommit`, `AcceptGone` |
| `PATCH`, `DELETE /team/members/:id` 831-863 | `RoleBegin`, `RoleUpdate`, `RemoveBegin`, `RemoveRead`, `RemoveDelete` |
| `POST /songs` 974-1046, the limit | `SongCount`, `SongCreate` |
| `DELETE /account` 610-674, the workspace's part | `DeleteRead`, `DeleteCommit` |
| rows of a workspace that is gone; errors; the clock | `WorkspaceGone`, `Fail`, `Expire` |

The two counts of an invitation are the two branches of a `Promise.all` on
connections of their own and come in either order. Acceptance is one
transaction whose first statement locks the invitation and tests its status
again; the deletion of the workspace locks the row that the insert of a member
refers to. Each of them shows in one step.

### What is checked

| run | states | shows |
|---|---|---|
| `workspace` | 366 thousand | two requests that may fail: joining uses up a pending invitation, invitations are answered once. Except for the pairs of handlers named below: seats and songs stay within the plan, the owner keeps a seat, closed accounts hold none, a workspace with other members is not deleted |

Bounds: three people and two invitations for two seats, so that one invitation
is too many and a removed person can come back; one song, at the limit. The
constraint `Small` of `MCWorkspace` follows one pair of kinds at a time, and
after it neither expiries nor, unless it is two creations, songs; one request at
a time is not cut. The deletion of the workspace ends the model, so the run does
not look for deadlock.

With one request already, the owner can stop being one: `PATCH
/team/members/:id` (`routes.ts:831`) takes the owner's own row and makes it an
admin's or a member's, after which nobody can change roles, remove members or
see to the billing. `OwnerIsMember` is therefore about the seat and not the
role.

| property | pair | what happens | states |
|---|---|---|---|
| `SeatsWithinPlan` | two invitations; invitation, acceptance | two invitations count before either is stored; an acceptance between the two counts of an invitation shows in neither | 17; 17 |
| `SongsWithinPlan` | two creations | two songs are counted before either is stored | 5 |
| `OwnerIsMember` | change of role, removal | the owner's row is made a member's, and then removed like any other | 6 |
| `NoOrphans` | deletion, acceptance | a person joins between the count and the deletion | 11 |
| | change of role, removal | the owner was removed, so one member does not mean the owner | 16 |
| `ClosedHoldNoSeat` | acceptance, deletion | a person accepts an invitation while deleting their account | 11 |

### What is proved

`Workspace_proofs`, for any requests, any finite set of users and any limits,
from `WorkspaceAssumption`: `InvariantHolds`, `OnlyInvitedMembers`,
`JoiningIsInvited`, `InvitationsFinal`. `MembersWereInvited` needs that whoever
accepts is the person the invitation was sent to, also when the request read it
some time ago (`AcceptsAreAddressed`), and that nothing is left of a workspace
that is gone (`DeletedIsEmpty`), so that a pending invitation means that the
workspace is there. That joining uses up a pending invitation then follows from
the status tested again in the `UPDATE` of `acceptTeamInvitation`.

`RaceInvariantHolds` is the invariant behind the other five. The seats taken
*and promised* stay within the plan (`Taken`; members alone would not be
inductive, since accepting does not count again); only the owner has the owner's
role, and no invitation is addressed to the owner, so that accepting one cannot
make a member of them; what an invitation has counted may meanwhile have become
less, since people are removed and invitations revoked beside it, which is why
these pairs are not in the table. `SeatsKept`, `SongsKept`, `OwnerStays`, `ClosedLeave` and
`NotOrphaned` follow, and `OneAtATime`: with one request at a time the five hold
without exception.

### Following an invitation

`JoinLink` is about what `Workspace` takes for granted: that the invited person
reaches the page that accepts. Its actions are those of the mail (`Invite`,
`Deliver`), of the shell (`OpenLink`, `WorkspaceLoaded`, `WorkspaceFails`,
`Leave`), of `LoginView` and of `TeamAcceptView`. A `<Navigate>` takes effect in
the step that renders it.

| run (expected to be violated) | statement | what happens |
|---|---|---|
| `join_link` | email.ts and `routes.ts:803`: who has no account registers first, and then joins | a link loads the application with `authState` "checking", in which the route `/team/accept/:token` redirects to `/login` (`App.tsx:220`) and the token is lost; once signed in, `/login` goes on to the dashboard and the invitation stays pending |

It is so for a person with a session too. In this model `AskAccept`, `Accepted`,
`AcceptFails` and `TimerFires` are never taken: `TeamAcceptView` cannot be
reached from a fresh document, and `GET /team/invitations/token/:rawToken` is
asked for by no page. The model has 125 states and no bounds.

## 5. The document vault

### Modules

| module | role |
|---|---|
| `Evidence` | the evidence score of a set of documents and its label |
| `Vault` | abstract: a document is shown, and then taken away for good |
| `DocumentVault` | rows, objects, upload links and the requests about them; properties, inductive invariant, refinement of `Vault` |
| `MCDocumentVault` | constants for TLC |
| `DocumentVault_proofs` | the theorems |

`row` is the table `documents`, `object` what the store has under the key of
each document, `link` the upload link with the digest it was signed for and, on
local disk, the write in progress. The content of a file also stands for its
digest; `torn` is a file that was opened and not yet written. `mode` is the
store the server was configured with, which `server/storage.ts` fixes at
start-up. `halfDeleted` is history: the deletions that failed between the object
and the row. The workspace is there or not (`exists`); songs are not deleted
otherwise.

| code | actions |
|---|---|
| `POST /songs/:id/documents/upload-url` 2112-2176 | `ReserveRead`, `ReserveInsert`, `ReserveRefused` (the foreign key) |
| PUT to S3; `PUT /objects` in `localStorage.ts` | `Put`; `WriteOpen`, `WriteBytes`, `WriteFails`; `ExpireLink` |
| `POST .../:documentId/complete` 2183-2224 | `CompleteRead`, `CompleteHead`, `CompleteDrop`, `CompleteMark` |
| `DELETE .../:documentId` 2258-2287 | `DeleteRead`, `DeleteObject`, `DeleteRow` |
| `DELETE /account` 610-674, the documents' part | `EraseRead`, `EraseCommit`, `EraseObject`, `EraseDone` |
| errors, a server that stops | `Fail` |

Each statement and each call of the store is a step, because they share no
transaction; uploads through a link come at any time until it expires, also
after completion and after deletion. S3 is modelled by what `createUploadUrl`
relies on: an object is replaced as a whole, an upload through a link signed
for a digest has that digest, and only then does `HeadObject` report one. Names,
types and sizes are left out, and so is `GET .../download`, which changes
nothing. The loss of local files at a restart, of which `localStorage.ts` warns,
is not modelled.

### What is checked

| run | states | shows |
|---|---|---|
| `document_vault` | 204 thousand | three requests that may fail anywhere, and uploads: a shown document has its object but for a deletion half-way; the checksum is that of the bytes; nothing outlives the workspace; the routes implement `Vault` |

Bounds: one document, because no statement is about two; two contents, the one
the link was signed for and another; three requests, so that a completion, a
deletion and the deletion of the account can all overlap. Every request ends by
itself, and documents and links run out, so the run does not look for deadlock.

What the code leaves open, and the properties say so: a deletion that fails
after the object is gone leaves a row whose download fails (`halfDeleted`);
where no digest was signed, or on local disk, the checksum is what the caller of
`complete` claims (`routes.ts:2202`), which is why `ChecksumIsOfBytes` is about
links with a digest; an upload or a reservation that races with a deletion
leaves an object without a row, the orphan that `routes.ts:664-667` accepts; and
`complete` drops the row of a stored document whose object is missing.

### What is proved

`DocumentVault_proofs`, for any requests, any contents and finitely many
documents of any categories, from `DocumentsAssumption` and `VaultAssumption`:

| theorem | statement |
|---|---|
| `InvariantHolds` | `Spec => []IInv` |
| `NoDangling`, `ChecksumCorrect`, `ErasureComplete` | the invariants of `document_vault` |
| `EvidenceBacked` | the score of a song counts no document whose object is missing, but for a deletion half-way |
| `ScoreMonotone` | a document more never lowers the score |
| `CopiesAreStrong`, `CompleteIsVaried` | four documents of one group are "strong" already; "complete" needs three groups |
| `VaultPromiseKept` | `Spec => KeepsVaultPromise`: refinement of `Vault` |

`NoDanglingRow` is not inductive alone: a request that has seen the object marks
the row later, so until then the object must stay or the row be on its way out
(`MarksLanded`). An object goes only by a deletion, which is then half-way, or
with the workspace, which is then gone with its rows (`CommitBeforeObjects`,
`ErasedInFull`). `ChecksumIsOfBytes` follows from `PledgeKept`: object, row and
requests under way can have no other digest than that of the link. All of it
needs that an id without a row is known to one request only (`FreshIds`).
`EvidenceBacked` is `NoDanglingRow` and `ScoreMonotone`. `CopiesAreStrong` is
for the reader of `evidence.ts:73-74`, which says that copies of one kind of
document alone do not make the evidence strong: with four, the score is 55.

## 6. The rights record page

### Modules

| module | role |
|---|---|
| `SongPage` | `App` with its guard, `SongRoute`, `RightsRecordView` and its tabs; properties and inductive invariant |
| `MCSongPage` | constants for TLC |
| `SongPage_proofs` | the theorems |

`record` is the rights record as the server holds it: a revision number, and
whether the current version is confirmed (`locked`). `page` is what is mounted:
the loaded detail, the tab, the dialogs, the inputs (`typed`: they differ from
what was loaded; `dirty`: the page says so) and the busy flags. `handlers` are
the async functions that run, with what they have read and whether the tab
(`onTab`) and the page (`onPage`) they were started on are still mounted. `own`
and `lost` are history.

**Steps.** One step for each click, and for each request a step on the server
and one when its answer arrives. A handler posts, reloads the record
(`SongRoute.load`) and then the workspace (`App.loadWorkspace`), which renders
`App`: everything under `RequireAuth` mounts again (`Remounted`), and what a
handler of an earlier mount still sets is thrown away (`Detached`). When `GET
/me` fails, for whatever reason, `App` counts the user as signed out.

| code | actions |
|---|---|
| `App.tsx` 80-112, 135-165 | `Authenticated`, `SignOut`, `OpenCreateModal` |
| `SongRoute` 385-480: load, refresh, the posts | `MountRead`, `MountAnswered`, `MountLost`; `Committed`, `Refused`, `PostAnswered`, `PostLost`, `RecordRead`, `LoadAnswered`, `LoadLost`, `WorkspaceAnswered`, `WorkspaceFails` |
| `RightsRecordView.tsx` | `SwitchTab`, `MetadataForm`, `SaveMetadata` |
| `OwnershipTab.tsx` | `TypeSplit`, `Save`, `BumpDialog`, `TriggerBump` |
| `ContributorsTab.tsx` | `AddDialog`, `AddContributor`, `RemoveContributor`, `InviteDialog`, `DispatchInvites` |
| `AgreementsTab.tsx`, `DocumentVaultTab.tsx` | `GenerateAgreement`; `UploadDialog`, `Upload`, `Stored` |
| other people | `ChangedElsewhere` |

### What is checked

| run | states | shows |
|---|---|---|
| `song_page` | 304 thousand | a quiet page shows every change made from it; "Allocations Saved" is said only of what was loaded; busy buttons come back |

Bounds: two handlers, because what can go wrong is the order of two answers, of
which one may be any operation and the other one that goes through each
different path (a save, whose flag and dirty mark differ; a bump, in a dialog;
an upload, in several posts); three revisions, so that a third can be loaded
over the second. The user may stop, so the run does not look for deadlock.

**Fairness.** `WF(Progress(h))`: the API answers or refuses each request in the
end, and a promise that is settled goes on. Nothing is assumed of the user, of
mounts, or of other people.

What holds only because of the remount, or fails because of it: a button comes
back to life and a dialog closes since the tab is mounted again, also when its
handler ran on a tab that is gone; and the panel with the links just dispatched
(`ContributorsTab.tsx:218-260`), which asks the user to copy each link now
because it is not shown again, is set in the same step that mounts a new tab
without it. TLC refutes `DispatchedLinksAreShown` when it is given as a
PROPERTY to `song_page`; no run lists it.

### What is proved

`SongPage_proofs`, for any handlers, kinds and bound, from `KindsAssumption` and
`RevisionAssumption`: `Inductive` (`Spec => []IInv`), `QuietPageIsCurrent` and
`LabelIsTrue`. `SettledPageIsCurrent` is not inductive: while handlers run, the
change is in what the page shows, in what it is loading, or in a refresh still
on its way (`ChangesReachPage`), and the last of these ends with a new mount
that asks again. `BusyEnds` is liveness and stays with TLC.

## 7. Billing

### Modules

| module | role |
|---|---|
| `Plans` | prices, limits and order of the plans |
| `Billing` | checkout, the return page, verification, webhook and the administrator; properties and inductive invariant |
| `MCBilling` | constants for TLC |
| `Billing_proofs` | the theorems |

`org` has the columns of the organisation that a handler reads, `payments` the
rows that are different from one another (the same event twice is one row).
`checkout` and `events` are the provider's: Paystack is external, a checkout is
paid or not, a paid one may start a subscription whose events repeat our
metadata or not, and an event is sent until it is answered with 200. `tab` and
`timer` are the owner's browser. `granted` and `applied` are history, and
`bundled` says which server runs: the bundle of `npm start` or the source that
`start:tsx` and `dev:api` run.

**References.** The address of the return page may have any reference
(`App.tsx:326`), and `GET /billing/verify/:reference` asks the provider about
whatever it is given. `Checkouts` are the checkouts of this workspace and
`Elsewhere` the other references: a payment for another workspace, or one
without our metadata, by the owner or by somebody else, paid or not, or a
reference that the provider does not know and refuses. `verifyTransaction`
returns the organisation of the metadata (`paystack.ts:150`), and the route does
not compare it (`routes.ts:2461-2483`): `VerifyApply` gives the plan to the
workspace that asks, without metadata a month of professional (`Bought`,
`routes.ts:2480-2481`), and takes over the customer of that payment, by which
later events are resolved.

**Steps.** No handler here has a transaction: each statement and each call of
the provider is a step, after which the request may be lost. The return page is
mounted again by each render of `App` (section 6), and each mount asks for the
verification again.

| code | actions |
|---|---|
| `POST /billing/checkout` 2407-2452, `App.handleCheckout` | `StartCheckout`, `RecordCheckout`, `CheckoutFails` |
| `BillingReturnRoute` (`App.tsx` 318-377) | `Return`, `AskVerify`, `VerifyRefused`, `WorkspaceAnswered`, `WorkspaceFails`, `TimerFires`, `LeaveForDashboard` |
| `GET /billing/verify/:reference` 2459-2505 | `VerifyRead`, `VerifyRecord`, `VerifyApply`, `VerifyLost` |
| `POST /billing/webhook` 2512-2605 | `Receive`, `Resolve`, `RecordEvent`, `ApplyEvent`, `Acknowledge`, `DeliveryLost` |
| `PATCH /admin/organisations/:id/plan` 2635-2661 | `AdminSetsPlan` |
| Paystack (external) | `Pay`, `PayElsewhere`, `Renew`, `Lapse` |

Subscription codes and dates are written and never tested, and are left out.

### What is checked

| run | states | shows |
|---|---|---|
| `billing` | 753 thousand | a plan above free was set by an administrator, or a checkout of the workspace for it was paid, or a payment made elsewhere succeeded, was verified for the workspace and is on its file; every charge of a checkout is on file with its amount; a step that changes the plan finds its reason on file; a paid checkout is applied in the end by a server that can test signatures; the return page ends |
| `webhook_bundled` (expected to be violated) | 320 | `paystack.ts:13-15`, "the webhook is what keeps the plan correct if they close the tab before the redirect": not on the server that `DEPLOYMENT.md:66-67` describes |

Bounds: one checkout and one other reference, one verification and one delivery
at a time, all against each other: the order of events is in `events`, which is
a set; two visits to the return page, or one and a fault between any two statements
(`NotBoth`, which cuts off no fair step, since none changes those counts); either a subscription or a payment elsewhere
in one behaviour (`MaxExtras`), which the proofs do not need. The owner may
stop, so the run does not look for deadlock. Both builds are initial states.

**The bundled server.** `verifyPaystackSignature` calls `require('crypto')`
(`paystack.ts:168`). In the ES module that `build:server` makes of the server
(`package.json:15`, `--format=esm`) and `npm start` runs, `require` is not
defined: the handler throws before it reads the event and the answer is 500.
`Receive` has `~bundled` as a guard for that. `WebhookKeepsPlan` is the claim of
the comment for whichever server runs, and TLC refutes it: the owner pays and
closes the tab, and the plan stays as it was. `PaidIsApplied` is what
remains true, and says `~bundled`. The other properties hold of both.

**Fairness.** The server and the browser go on with what they have started;
and `SF` of the arrival of a paid checkout's charge: Paystack sends an event
again until it is answered with 200. Nothing is assumed of the owner, of the
subscription's events, or of faults.

What the code leaves open:

* A verification repeated after the subscription has ended gives the plan back:
  it is idempotent (`routes.ts:2454-2458`) only while nothing else has changed
  the plan, since it asks whether that charge once succeeded. `PlanIsBacked` is
  therefore about a paid checkout and not about the present period.
* A subscription that ends sets the plan to free although a newer checkout may
  have been paid: the webhook does not compare subscriptions.
* An event without metadata that comes before the customer is known finds no
  workspace, is answered with 200 and not sent again.
* The return page never shows that the payment succeeded: the state is set in
  the step in which its mount goes away; the timer alone leads on, and until
  then each mount verifies again, against the comment at `App.tsx:342`.
* Whose payment it was is not compared. `PlanIsBacked` is therefore weaker for
  payments elsewhere: there has to be one, it succeeded, and its reference is on
  the file of the workspace, where support can find it; not that it was made for
  this workspace or by its owner, which TLC refutes in six steps. One payment
  can so be verified by several workspaces, and one that has nothing to do with
  this application gives a month of professional.
* Once the customer has been taken over from a payment elsewhere, an event
  without metadata of that customer is resolved to this workspace, or to any
  other with the same customer (`getOrganisationByPaystackCustomerCode` takes
  the first row): `Resolve` leaves open which.

### What is proved

`Billing_proofs`, for any checkouts, references in the address, calls,
deliveries, offers, grants and bounds, of either server:

| theorem | statement |
|---|---|
| `Inductive` | `Spec => []IInv` |
| `PaidPlansAreBacked`, `EveryChargeIsOnFile`, `ChangesAreExplained` | the safety properties of `billing` |
| `NextPlanIsRoomier` | the plan offered next has room for the songs and members of the one before |
| `AnnualIsCheaper` | for every monthly price, a year costs at most twelve months, after rounding to ten rand |

`PlanIsBacked` needs that what a verification or a delivery has read is so
(`CallsAreTrue`: a verification that was put on file is of a successful payment,
whose row is there; `EventsAreTrue`: an event with our metadata is of a checkout
of this workspace), that events and subscriptions are of paid references
(`SubscriptionsArePaid`), and that the offer and amount of a checkout stay as
they were (`CheckoutsAsOffered`). `ChargesAreOnFile` needs that the
browser is sent to the provider only after the row is written
(`TabHasCheckout`). `PaidIsApplied` and `BillingReturnEnds` are liveness.

## 8. Answers and notices

### Modules

`Answering` is about one version of a song: the messages of an invitation, the
page of the review link, the buttons of the WhatsApp message,
`processInvitationResponse` around its transaction, and the notices to the
owner. `MCAnswering` has its constants. A transaction is one step here, at its
`COMMIT`; `RightsRecord` has its statements. What it adds is what the code does
before and after transactions: messages are started without waiting for them
(`void send...`), from the memory of a process that may stop.

`terms` counts the contents that the splits have had, and `seen` the content a
page or a message showed. `outbox` and `notices` are what the process is
sending; `mailbox`, `told` and `copied` what has arrived; `dropped` is history.

| code | actions |
|---|---|
| `POST /songs/:id/invitations` 1424-1592 | `Invite`, `IssueCommit`, `IssueAnswered` |
| `email.ts`, `whatsapp.ts` | `DeliverMail`, `MailFails`, `DeliverWhatsApp`, `WhatsAppFails` |
| `ReviewPortalView.tsx`, `GET /invitations/review/:rawToken` | `Open`, `LoadCheck`, `LoadRead`, `Submit`, `ShortNote` |
| `POST /webhooks/whatsapp` 1958-2023 | `Tap`, `TapCheck` |
| `processInvitationResponse` 1748-1916 | `Check`, `Record`, `Respond`, `NoticeOwner`, `NoticeMailed`, `NoticeTexted`, `NoticeFails` |
| saves, bumps, the clock | `Save`, `Withdraw`, `Expire` |
| errors; the server stops | `RequestFails`, `Restart` |

### What is checked

| run | states | shows |
|---|---|---|
| `answering` | 317 thousand | who reads that the answer was registered has it on file; the owner hears of an answer once per channel and only of one on file; pages leave their spinners; a tap is recorded, and the owner told, unless a failure loses it |
| `answered_unseen` | violated | `repo.ts:600` puts on file that the information shown was agreed to; a save while the page is open leaves the link valid (`routes.ts:1302`), and the confirmation, and the agreement generated from it, are of other splits |

Bounds: one contributor with one link, because the channels that race are those
of one link; two requests, a page and a tap, or a tap and a tap; one reload and
one fault, so that it can hit any step. `answered_unseen` has two contents.

**Fairness.** The event loop goes on with each request and each notice it has
started, until it fails or the process stops (both bounded by `MaxFaults`).

What the code leaves open: a link that was answered still shows its form, and
submitting it then says "Review Invitation Unavailable"; a tap whose request
fails half-way is answered with 200 and not sent again (`dropped`); a note of
fewer than five letters passes the page and is refused by the server; the
notices of a process that stops are lost, since nothing keeps them. The
signature of the WhatsApp webhook is tested with `require` as well, so the bundle
takes no tap (section 7).

### What is proved

`Answering_proofs`, for any contributors, links, requests and bounds, from
`LinksAssumption`, `PhonesAssumption` and `AnsweringBounds`:

| theorem | statement |
|---|---|
| `Inductive` | `Spec => []IInv` |
| `SuccessIsOnFile` | `Spec => []SuccessScreenIsTrue` |
| `OwnerHearsTheTruth` | `Spec => []NoticesAreTrue` |

`SuccessScreenIsTrue` needs that a page waits for one request at most, and for
what it asked (`PagesWait`): the answer of a page that was loaded again is thrown
away. `NoticesAreTrue` needs that an answer that was recorded is on file and
unannounced, by one request (`RecordedOnce`: the lock and the second test of
`used_at`), and that there is one notice of it, which was not sent where it still
has to go (`NoticesOnce`). Both need that whatever is on its way or open is about
a link that was issued (`LinksAreIssued`), or issuing it would undo its answer.
`PortalSettles`, `TapsAreCounted` and `OwnerIsTold` are liveness and stay with
TLC.

## 9. Plan

What is left, the most important first:

1. `Answering` and `RightsRecord` composed, with the transaction of an answer
   refined into its statements, so that the notices are about answers that
   committed after a wait for a row.
2. `Billing` with the rows of two workspaces, of which one has the payments
   made elsewhere verified (section 7 has the other workspace as payments only).
3. The pages for the team and the account, composed with their handlers.
4. The safety side of the other liveness properties, as `StepsRunOut` is that of
   `RequestsFinish`: a variant for a billing return and for a notice on its way.

## 10. Not modelled

* The rate limiter: a fixed window per key in the memory of one process, of
  which every request makes one synchronous step. Nothing interleaves with it
  and nothing else reads it.
* The rendering of e-mails, WhatsApp messages and agreements, PDF and print:
  output only. Delivery is in `Answering`, for review links.
* The audit trail: an insert with each change, never tested. The WhatsApp
  message log is inserted into and never read (`findWhatsAppMessageBySid` has no
  caller).
* Song metadata, contributor rows and roles on the server: feed texts and lists.
* Dashboard, evidence roll-ups, team and administration lists, the export
  dialog, downloads: SELECTs and what shows them.
* Settings, profile and avatar: one `UPDATE` each, of columns nobody tests.
* Start-up, migration and hosting (`index.ts`, `db.ts` but for `tx`,
  `migrate.ts`), and `server.ts`, which no script runs.
* The landing page and the legal texts.
* `server/store.ts`, the in-memory store that `repo.ts` replaced, and
  `src/lib/pdfGenerator.ts`: nothing imports them.
