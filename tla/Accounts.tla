------------------------------- MODULE Accounts -------------------------------
(***************************************************************************)
(* One user account: its address, its password, its sessions and the       *)
(* single-use links that reset the password and verify the address         *)
(* (server/routes.ts, section 1, over server/auth.ts and server/repo.ts).  *)
(*                                                                         *)
(* These handlers open no transaction, but for the creation and the        *)
(* deletion of the account: each statement commits on its own, a request   *)
(* takes one step per statement, and one that fails leaves behind what its *)
(* earlier statements did.                                                 *)
(***************************************************************************)
EXTENDS Integers, FiniteSets, FiniteSetsExt

CONSTANTS
    Requests,       \* request handlers that may be running at the same time
    Addresses,      \* e-mail addresses the user may give
    MaxPasswords,   \* bound on the passwords chosen, numbered in that order
    MaxSessions,    \* bound on the sessions opened
    MaxTokens,      \* bound on the links sent
    MayFail         \* the requests that may fail between two statements

ASSUME AccountsAssumption ==
    /\ MaxPasswords \in Nat /\ MaxSessions \in Nat /\ MaxTokens \in Nat
    /\ MayFail \subseteq Requests
    /\ {"none", "deleted"} \intersect Addresses = {}

Tombstone  == "deleted"         \* deleted-...@deleted.ospreyn.invalid
PasswordNo == 1..MaxPasswords
SessionId  == 1..MaxSessions
TokenId    == 1..MaxTokens
Purposes   == {"password_reset", "email_verification"}

VARIABLES
    user,       \* the users row; status "none" before registration
    session,    \* sessions, with the password each was opened with and, as a
                \* history, the password there was when it was opened
    token,      \* user_action_tokens, with the address each was mailed to
    proven,     \* history: the mailbox behind email_verified_at
    honoured,   \* history: how often each link has had its effect
    cutShort,   \* history: before which statements that matter a request failed
    req,        \* what each request is doing, with what it has read
    raced       \* history: which handlers were running at the same time

tables  == <<user, session, token>>
history == <<proven, honoured, cutShort>>
vars    == <<user, session, token, history, req, raced>>

-------------------------------------------------------------------------------
(* Requests *)

Idle == [at |-> "idle", session |-> 0, token |-> 0, password |-> 0,
         email |-> "none", purpose |-> "none", revoke |-> {}]

Begin(r, q)   == req[r].at = "idle" /\ req' = [req EXCEPT ![r] = q]
Goto(r, step) == req' = [req EXCEPT ![r].at = step]
Finish(r)     == req' = [req EXCEPT ![r] = Idle]

\* The bounds count what open requests may still use up.
Opening  == {"registerCommit", "openSession"}
Choosing == {"registerCommit", "resetUpdate", "changeCheck", "changeUpdate",
             "deleteCheck", "deleteRevoke", "deleteCommit"}
Mailing  == {"emailCheck", "emailUpdate", "invalidate", "insert"}

\* Of the two handlers that mail a verification link only the change of address
\* asks for the password.
ChangesAddress(r) ==
    \/ req[r].at \in {"emailCheck", "emailUpdate"}
    \/ /\ req[r].at \in {"invalidate", "insert"}
       /\ req[r].purpose = "email_verification" /\ req[r].password # 0

InFlight(steps) == Cardinality({r \in Requests : req[r].at \in steps})

Opened == {s \in SessionId : session[s].status # "none"}
Mailed == {t \in TokenId : token[t].status # "none"}
RoomForSession  == Cardinality(Opened) + InFlight(Opening) < MaxSessions
RoomForPassword == user.password + InFlight(Choosing) < MaxPasswords
RoomForToken    == Cardinality(Mailed) + InFlight(Mailing) < MaxTokens

\* resolveAuth: a deleted user is a member of no workspace.
SignedIn(s) == session[s].status = "live" /\ user.status = "active"

\* requireAuth, then a handler that asks for the password again.
Authenticate(r, s, step, email) ==
    /\ SignedIn(s)
    /\ \E p \in 1..user.password :
         Begin(r, [Idle EXCEPT !.at = step, !.session = s, !.email = email, !.password = p])
    /\ UNCHANGED <<tables, history>>

\* SELECT password_hash: the password given, which may be an earlier one, is
\* the one on file.
CheckPassword(r, step, next) ==
    /\ req[r].at = step
    /\ req[r].password = user.password
    /\ Goto(r, next)

CheckSteps == {"emailCheck", "changeCheck", "deleteCheck"}

CheckRefused(r) ==
    /\ req[r].at \in CheckSteps
    /\ req[r].password # user.password
    /\ Finish(r)
    /\ UNCHANGED <<tables, history>>

-------------------------------------------------------------------------------
(* POST /auth/register, /auth/login and /auth/logout *)

RegisterRead(r) ==
    /\ user.status = "none"
    /\ RoomForSession /\ RoomForPassword
    /\ \E a \in Addresses :
         Begin(r, [Idle EXCEPT !.at = "registerCommit", !.email = a])
    /\ UNCHANGED <<tables, history>>

RegisterCommit(r) ==
    /\ req[r].at = "registerCommit"
    /\ user.status = "none"
    /\ user' = [status |-> "active", email |-> req[r].email, password |-> 1,
                verified |-> FALSE]
    /\ req' = [req EXCEPT ![r].at = "openSession", ![r].password = 1]
    /\ UNCHANGED <<session, token, history>>

\* users.email is UNIQUE: the same address has been registered meanwhile.
RegisterDuplicate(r) ==
    /\ req[r].at = "registerCommit"
    /\ user.status # "none"
    /\ Finish(r)
    /\ UNCHANGED <<tables, history>>

\* SELECT the user by address, and the password fits.
LoginRead(r) ==
    /\ user.email \in Addresses
    /\ RoomForSession
    /\ Begin(r, [Idle EXCEPT !.at = "openSession", !.password = user.password])
    /\ UNCHANGED <<tables, history>>

OpenSession(r) ==
    /\ req[r].at = "openSession"
    /\ \E s \in SessionId \ Opened :
         /\ 1..(s - 1) \subseteq Opened
         /\ session' = [session EXCEPT ![s] = [status |-> "live",
                                               password |-> req[r].password,
                                               asOf |-> user.password]]
    /\ Finish(r)
    /\ UNCHANGED <<user, token, history>>

Logout(s) ==
    /\ session[s].status = "live"
    /\ session' = [session EXCEPT ![s].status = "revoked"]
    /\ UNCHANGED <<user, token, history, req>>

\* UPDATE sessions SET revoked_at = now() WHERE ... revoked_at IS NULL
RevokedIn(S) ==
    [s \in SessionId |-> IF s \in S /\ session[s].status = "live"
                         THEN [session[s] EXCEPT !.status = "revoked"]
                         ELSE session[s]]

-------------------------------------------------------------------------------
(* createActionToken and consumeActionToken *)

InvalidateOther(r) ==                       \* mutant: WHERE purpose <> $2
    /\ req[r].at = "invalidate"
    /\ token' = [t \in TokenId |->
                   IF token[t].status = "live" /\ token[t].purpose # req[r].purpose
                   THEN [token[t] EXCEPT !.status = "used"] ELSE token[t]]
    /\ Goto(r, "insert")
    /\ UNCHANGED <<user, session, history>>

Invalidate(r) ==
    /\ req[r].at = "invalidate"
    /\ token' = [t \in TokenId |->
                   IF token[t].status = "live" /\ token[t].purpose = req[r].purpose
                   THEN [token[t] EXCEPT !.status = "used"] ELSE token[t]]
    /\ Goto(r, "insert")
    /\ UNCHANGED <<user, session, history>>

\* INSERT, after which the link is mailed to the address the request holds.
Insert(r) ==
    /\ req[r].at = "insert"
    /\ \E t \in TokenId \ Mailed :
         /\ 1..(t - 1) \subseteq Mailed
         /\ token' = [token EXCEPT ![t] = [status |-> "live", purpose |-> req[r].purpose,
                                           to |-> req[r].email]]
    /\ Finish(r)
    /\ UNCHANGED <<user, session, history>>

ConsumeUnguarded(t, purpose) ==             \* mutant: WHERE used_at IS NULL is dropped
    /\ token[t].status \in {"live", "used"} /\ token[t].purpose = purpose
    /\ token' = [token EXCEPT ![t].status = "used"]

\* One UPDATE ... WHERE used_at IS NULL AND expires_at > now() RETURNING.
Consume(t, purpose) ==
    /\ token[t].status = "live" /\ token[t].purpose = purpose
    /\ token' = [token EXCEPT ![t].status = "used"]

Honour(t) == honoured' = [honoured EXCEPT ![t] = @ + 1]

-------------------------------------------------------------------------------
(* POST /auth/forgot-password and /auth/reset-password *)

ForgotRead(r) ==
    /\ user.email \in Addresses
    /\ RoomForToken
    /\ Begin(r, [Idle EXCEPT !.at = "invalidate", !.purpose = "password_reset",
                             !.email = user.email])
    /\ UNCHANGED <<tables, history>>

ResetConsume(r) ==
    /\ RoomForPassword
    /\ \E t \in TokenId :
         /\ Consume(t, "password_reset")
         /\ Begin(r, [Idle EXCEPT !.at = "resetUpdate", !.token = t])
    /\ UNCHANGED <<user, session, history>>

ResetUpdate(r) ==
    /\ req[r].at = "resetUpdate"
    /\ user' = [user EXCEPT !.password = @ + 1]
    /\ Honour(req[r].token)
    /\ req' = [req EXCEPT ![r].at = "revoke", ![r].revoke = SessionId, ![r].token = 0]
    /\ UNCHANGED <<session, token, proven, cutShort>>

\* The last statement of a reset and of a change of password.
Revoke(r) ==
    /\ req[r].at = "revoke"
    /\ session' = RevokedIn(req[r].revoke)
    /\ Finish(r)
    /\ UNCHANGED <<user, token, history>>

-------------------------------------------------------------------------------
(* POST /account/password *)

ChangeBegin(r) ==
    /\ RoomForPassword
    /\ \E s \in SessionId : Authenticate(r, s, "changeCheck", "none")

ChangeCheck(r) ==
    /\ CheckPassword(r, "changeCheck", "changeUpdate")
    /\ UNCHANGED <<tables, history>>

ChangeUpdateKeepsAll(r) ==                  \* mutant: other sessions are left alone
    /\ req[r].at = "changeUpdate"
    /\ user' = [user EXCEPT !.password = @ + 1]
    /\ session' = [session EXCEPT ![req[r].session].password = user.password + 1,
                                  ![req[r].session].asOf = user.password + 1]
    /\ req' = [req EXCEPT ![r].at = "revoke", ![r].revoke = {}]
    /\ UNCHANGED <<token, history>>

\* The password changes, and with it what the holder of this session knows.
ChangeUpdate(r) ==
    /\ req[r].at = "changeUpdate"
    /\ user' = [user EXCEPT !.password = @ + 1]
    /\ session' = [session EXCEPT ![req[r].session].password = user.password + 1,
                                  ![req[r].session].asOf = user.password + 1]
    /\ req' = [req EXCEPT ![r].at = "revoke", ![r].revoke = SessionId \ {req[r].session}]
    /\ UNCHANGED <<token, history>>

-------------------------------------------------------------------------------
(* POST /account/email, /account/resend-verification and /auth/verify-email *)

EmailBegin(r) ==
    /\ RoomForToken
    /\ \E s \in SessionId, a \in Addresses : Authenticate(r, s, "emailCheck", a)

EmailCheck(r) ==
    /\ CheckPassword(r, "emailCheck", "emailUpdate")
    /\ UNCHANGED <<tables, history>>

EmailUpdateKeepsMark(r) ==                  \* mutant: email_verified_at is left
    /\ req[r].at = "emailUpdate"
    /\ user' = [user EXCEPT !.email = req[r].email]
    /\ req' = [req EXCEPT ![r].at = "invalidate", ![r].purpose = "email_verification"]
    /\ UNCHANGED <<session, token, history>>

EmailUpdate(r) ==
    /\ req[r].at = "emailUpdate"
    /\ user' = [user EXCEPT !.email = req[r].email, !.verified = FALSE]
    /\ req' = [req EXCEPT ![r].at = "invalidate", ![r].purpose = "email_verification"]
    /\ UNCHANGED <<session, token, history>>

\* The address is the one that requireAuth read.
ResendBegin(r) ==
    /\ RoomForToken
    /\ \E s \in SessionId :
         /\ SignedIn(s)
         /\ Begin(r, [Idle EXCEPT !.at = "invalidate", !.purpose = "email_verification",
                                  !.session = s, !.email = user.email])
    /\ UNCHANGED <<tables, history>>

VerifyConsume(r) ==
    /\ \E t \in TokenId :
         /\ Consume(t, "email_verification")
         /\ Begin(r, [Idle EXCEPT !.at = "verifyMark", !.token = t])
    /\ UNCHANGED <<user, session, history>>

VerifyMark(r) ==
    /\ req[r].at = "verifyMark"
    /\ user' = [user EXCEPT !.verified = TRUE]
    /\ proven' = token[req[r].token].to
    /\ Honour(req[r].token)
    /\ Finish(r)
    /\ UNCHANGED <<session, token, cutShort>>

-------------------------------------------------------------------------------
(* DELETE /account, whose workspaces are deleted in module Workspace *)

DeleteBegin(r) ==
    /\ RoomForPassword
    /\ \E s \in SessionId : Authenticate(r, s, "deleteCheck", "none")

DeleteCheck(r) ==
    /\ CheckPassword(r, "deleteCheck", "deleteRevoke")
    /\ UNCHANGED <<tables, history>>

\* In the transaction: the UPDATE of the sessions picks its rows ...
DeleteRevoke(r) ==
    /\ req[r].at = "deleteRevoke"
    /\ req' = [req EXCEPT ![r].at = "deleteCommit", ![r].revoke = Opened]
    /\ UNCHANGED <<tables, history>>

DeleteCommitKeepsAddress(r) ==              \* mutant: no tombstone
    /\ req[r].at = "deleteCommit"
    /\ session' = RevokedIn(req[r].revoke)
    /\ user' = [user EXCEPT !.status = "deleted", !.password = @ + 1]
    /\ Finish(r)
    /\ UNCHANGED <<token, history>>

\* ... and the user is made anonymous, with a password that nobody knows.
DeleteCommit(r) ==
    /\ req[r].at = "deleteCommit"
    /\ session' = RevokedIn(req[r].revoke)
    /\ user' = [user EXCEPT !.status = "deleted", !.email = Tombstone, !.password = @ + 1]
    /\ Finish(r)
    /\ UNCHANGED <<token, history>>

-------------------------------------------------------------------------------
(* Failures and the clock *)

\* What a request leaves undone that fails here: the sessions of the earlier
\* password, or the links to the earlier address.
LeftUndone(r) ==
    {step \in {"revoke", "invalidate"} :
        req[r].at = step /\ (step = "invalidate" => ChangesAddress(r))}

\* A statement fails, or the server stops between two statements.
Fail(r) ==
    /\ r \in MayFail
    /\ req[r].at # "idle"
    /\ cutShort' = cutShort \union LeftUndone(r)
    /\ Finish(r)
    /\ UNCHANGED <<tables, proven, honoured>>

ExpireSession(s) ==
    /\ session[s].status = "live"
    /\ session' = [session EXCEPT ![s].status = "expired"]
    /\ UNCHANGED <<user, token, history, req>>

ExpireToken(t) ==
    /\ token[t].status = "live"
    /\ token' = [token EXCEPT ![t].status = "expired"]
    /\ UNCHANGED <<user, session, history, req>>

-------------------------------------------------------------------------------
(* The specification *)

Init ==
    /\ user = [status |-> "none", email |-> "none", password |-> 0, verified |-> FALSE]
    /\ session = [s \in SessionId |-> [status |-> "none", password |-> 0, asOf |-> 0]]
    /\ token = [t \in TokenId |-> [status |-> "none", purpose |-> "none", to |-> "none"]]
    /\ proven = "none"
    /\ honoured = [t \in TokenId |-> 0]
    /\ cutShort = {}
    /\ req = [r \in Requests |-> Idle]
    /\ raced = {}

Public(r) == \/ RegisterRead(r) \/ LoginRead(r) \/ ForgotRead(r)
             \/ ResetConsume(r) \/ VerifyConsume(r)

Private(r) == ChangeBegin(r) \/ EmailBegin(r) \/ ResendBegin(r) \/ DeleteBegin(r)

Step(r) == \/ RegisterCommit(r) \/ RegisterDuplicate(r) \/ OpenSession(r)
           \/ Invalidate(r) \/ Insert(r) \/ CheckRefused(r)
           \/ ResetUpdate(r) \/ Revoke(r)
           \/ ChangeCheck(r) \/ ChangeUpdate(r)
           \/ EmailCheck(r) \/ EmailUpdate(r) \/ VerifyMark(r)
           \/ DeleteCheck(r) \/ DeleteRevoke(r) \/ DeleteCommit(r)

Run == \/ \E r \in Requests : Public(r) \/ Private(r) \/ Step(r) \/ Fail(r)
       \/ \E s \in SessionId : Logout(s) \/ ExpireSession(s)
       \/ \E t \in TokenId : ExpireToken(t)

Kinds == {"signIn", "forgot", "reset", "change", "email", "resend", "verify", "delete"}
Pairs == {{j, k} : j, k \in Kinds}

Busy(r) == req[r].at # "idle"

\* Which handler a request runs, and which run beside each other.
Kind(r) == CASE req[r].at \in Opening        -> "signIn"
             [] ChangesAddress(r)             -> "email"
             [] req[r].at \in {"invalidate", "insert"} /\ ~ChangesAddress(r) ->
                   IF req[r].purpose = "email_verification" THEN "resend" ELSE "forgot"
             [] req[r].at = "verifyMark"      -> "verify"
             [] req[r].at = "resetUpdate"     -> "reset"
             [] req[r].at = "revoke"          -> IF req[r].session = 0 THEN "reset" ELSE "change"
             [] req[r].at \in {"deleteCheck", "deleteRevoke", "deleteCommit"} -> "delete"
             [] OTHER                         -> "change"

Overlaps == {p \in Pairs : \E r, q \in Requests :
                r # q /\ Busy(r) /\ Busy(q) /\ p = {Kind(r), Kind(q)}}

\* The history goes along with every step.
Track == raced' = raced \union Overlaps'

\* No two requests of these kinds have overlapped.
Apart(j, k) == {j, k} \notin raced

Next == Run /\ Track

Spec == Init /\ [][Next]_vars

-------------------------------------------------------------------------------
(* Properties *)

UserStatus    == {"none", "active", "deleted"}
SessionStatus == {"none", "live", "revoked", "expired"}
TokenStatus   == {"none", "live", "used", "expired"}
Mailboxes     == Addresses \union {"none", Tombstone}

Places ==
    {"idle", "registerCommit", "openSession", "invalidate", "insert", "emailCheck",
     "emailUpdate", "verifyMark", "resetUpdate", "changeCheck", "changeUpdate",
     "revoke", "deleteCheck", "deleteRevoke", "deleteCommit"}

Request ==
    [at : Places, session : {0} \union SessionId, token : {0} \union TokenId,
     password : Nat, email : Mailboxes, purpose : Purposes \union {"none"},
     revoke : SUBSET SessionId]

\* The tables hold the rows that schema.sql allows, and a request what its
\* fields say.
TypeOK ==
    /\ user \in [status : UserStatus, email : Mailboxes, password : Nat, verified : BOOLEAN]
    /\ session \in [SessionId -> [status : SessionStatus, password : Nat, asOf : Nat]]
    /\ token \in [TokenId -> [status : TokenStatus, purpose : Purposes \union {"none"},
                              to : Mailboxes]]
    /\ proven \in Mailboxes
    /\ honoured \in [TokenId -> Nat]
    /\ cutShort \subseteq {"revoke", "invalidate"}
    /\ req \in [Requests -> Request]

\* Before registration there is nothing but attempts to register.
Unregistered ==
    user.status = "none" =>
        /\ user.email = "none"
        /\ Opened = {} /\ Mailed = {}
        /\ \A r \in Requests : req[r].at \in {"idle", "registerCommit"}

\* A reset or verification link has its effect at most once, however often it
\* is clicked and whatever fails in between.
LinksHonouredOnce == \A t \in TokenId : honoured[t] <= 1

\* A session that was open when the password changed ends with that change:
\* once the request that changed it is done, only sessions of the new password
\* are left, unless a request failed before it revoked them.  Sign-ins that
\* overlap the change are excepted here (the password there was when they opened
\* is not the one they gave).
PriorSessionsEnd ==
    user.status = "active" /\ "revoke" \notin cutShort =>
        \A s \in SessionId :
            session[s].status = "live" /\ session[s].asOf = session[s].password =>
                \/ session[s].password = user.password
                \/ \E r \in Requests : req[r].at = "revoke" /\ s \in req[r].revoke

\* The same of every session, which is what routes.ts says of a change of
\* password: a stolen session elsewhere is cut off the moment it changes.  The
\* exceptions are a request that failed before it revoked them and a sign-in
\* that overlapped a reset or a change.
SessionsEndWithPassword ==
    /\ user.status = "active" /\ "revoke" \notin cutShort
    /\ Apart("signIn", "reset") /\ Apart("signIn", "change")
    => \A s \in SessionId : session[s].status = "live" =>
            \/ session[s].password = user.password
            \/ \E r \in Requests : req[r].at = "revoke" /\ s \in req[r].revoke

\* Which requests mail links of one purpose.
Mailers(purpose) == IF purpose = "email_verification" THEN {"email", "resend"} ELSE {"forgot"}

MailedApart(purpose) == \A j, k \in Mailers(purpose) : Apart(j, k)

\* auth.ts: only the most recently requested reset or verification link works,
\* unless two requests for links of that purpose have overlapped.  Failures do
\* not matter here.
NewestLinkOnly ==
    \A t, u \in TokenId :
        /\ token[t].status = "live" /\ token[u].status = "live"
        /\ token[t].purpose = token[u].purpose
        /\ MailedApart(token[t].purpose)
        => t = u

\* No change of address failed before it invalidated the links to the earlier
\* one, or overlapped another change, a resend or a verification.
AddressChangedApart ==
    /\ "invalidate" \notin cutShort
    /\ \A k \in {"email", "resend", "verify"} : Apart("email", k)

\* routes.ts: a new address is unverified until its owner clicks the link sent
\* to it, with the exceptions just named.
VerifiedAddressIsProven ==
    AddressChangedApart /\ user.status = "active" /\ user.verified => proven = user.email

\* routes.ts: a deleted account has its address replaced and its login disabled,
\* unless a change of address has overlapped the deletion.
DeletionIsFinal ==
    Apart("email", "delete") /\ user.status = "deleted" => user.email = Tombstone

-------------------------------------------------------------------------------
(* The inductive invariant behind these properties *)

Holding(r) == req[r].at \in {"resetUpdate", "verifyMark"}

\* A request that has consumed a link is the only one that holds it, and the
\* link has not had its effect yet; nor has any link that nobody consumed.
LinksHeldOnce ==
    /\ \A r \in Requests : Holding(r) => /\ req[r].token \in TokenId
                                         /\ token[req[r].token].status = "used"
                                         /\ honoured[req[r].token] = 0
    /\ \A r, q \in Requests : Holding(r) /\ Holding(q) /\ r # q
                                 => req[r].token # req[q].token
    /\ \A t \in TokenId : token[t].status # "used" => honoured[t] = 0

IInv == TypeOK /\ Unregistered /\ LinksHeldOnce /\ LinksHonouredOnce

\* Two requests that are running are on record as having overlapped.
HistoryIsKept == Overlaps \subseteq raced

SignedInApart == Apart("signIn", "reset") /\ Apart("signIn", "change")

\* Each session was opened with the password there was at the time.
SessionsFit ==
    SignedInApart /\ user.status = "active" =>
        \A s \in SessionId :
            session[s].status = "live" => session[s].asOf = session[s].password

\* A verification link that still works was sent to the address there is, or is
\* about to be invalidated.
LiveLinksFit ==
    AddressChangedApart /\ user.status = "active" =>
        \A t \in TokenId :
            token[t].status = "live" /\ token[t].purpose = "email_verification" =>
                \/ token[t].to = user.email
                \/ \E r \in Requests : req[r].at = "invalidate" /\ ChangesAddress(r)

\* The rules about rows that overlaps can break.
TablesHold ==
    /\ SessionsFit
    /\ LiveLinksFit
    /\ NewestLinkOnly
    /\ VerifiedAddressIsProven
    /\ DeletionIsFinal

\* What request r has read is still so when it acts on it, unless a handler that
\* changes it has overlapped.
ActsOnNow(r) ==
    LET q == req[r]
    IN /\ q.at = "openSession" /\ user.status = "active" /\ SignedInApart =>
             q.password = user.password
       /\ q.at = "insert" /\ MailedApart(q.purpose) =>
             \A t \in TokenId : ~(token[t].status = "live" /\ token[t].purpose = q.purpose)
       /\ /\ q.at \in {"invalidate", "insert"} /\ q.purpose = "email_verification"
          /\ user.status = "active" /\ AddressChangedApart
          => q.email = user.email
       /\ q.at = "verifyMark" /\ user.status = "active" /\ AddressChangedApart =>
             token[q.token].to = user.email
       /\ q.at \in {"emailCheck", "emailUpdate"} => q.password # 0
       /\ ChangesAddress(r) /\ Apart("email", "delete") => user.status # "deleted"

\* Why the properties above hold.
RaceInv ==
    /\ HistoryIsKept
    /\ TablesHold
    /\ \A r \in Requests : ActsOnNow(r)
=============================================================================
