---------------------------- MODULE Accounts_proofs ----------------------------
(***************************************************************************)
(* Proofs about Accounts for any requests, addresses and bounds: the       *)
(* inductive invariant, that a link has its effect at most once, that the  *)
(* sessions that were open when the password changed end with the change,  *)
(* but for a request that fails before its last statement, and what holds  *)
(* but for the pairs of handlers that have overlapped.                     *)
(***************************************************************************)
EXTENDS Accounts, TLAPS

USE AccountsAssumption DEF history

-------------------------------------------------------------------------------
(* Requests *)

LEMMA IdleType == Idle \in Request
  BY DEF Idle, Request, Places, Mailboxes

\* The state of the requests after one of them moved to q.
LEMMA MoveType ==
    ASSUME TypeOK, NEW r \in Requests, NEW q \in Request, req' = [req EXCEPT ![r] = q]
    PROVE  /\ req' \in [Requests -> Request]
           /\ req'[r] = q
           /\ \A s \in Requests \ {r} : req'[s] = req[s]
  BY DEF TypeOK

-------------------------------------------------------------------------------
(* Types *)

LEMMA RevokedType ==
    ASSUME TypeOK, NEW S
    PROVE  RevokedIn(S) \in [SessionId -> [status : SessionStatus, password : Nat, asOf : Nat]]
<1>1. \A s \in SessionId : [session[s] EXCEPT !.status = "revoked"]
                              \in [status : SessionStatus, password : Nat, asOf : Nat]
  BY DEF TypeOK, SessionStatus
<1>2. session \in [SessionId -> [status : SessionStatus, password : Nat, asOf : Nat]]
  BY DEF TypeOK
<1>3. QED
  BY <1>1, <1>2 DEF RevokedIn

LEMMA PublicType ==
    ASSUME IInv, NEW r \in Requests, Public(r)
    PROVE  TypeOK'
<1> USE DEF IInv
<1>1. CASE RegisterRead(r)
  <2>1. PICK a \in Addresses : Begin(r, [Idle EXCEPT !.at = "registerCommit", !.email = a])
    BY <1>1 DEF RegisterRead
  <2>2. [Idle EXCEPT !.at = "registerCommit", !.email = a] \in Request
    BY <2>1 DEF Idle, Request, Places, Mailboxes
  <2>3. QED
    BY <1>1, <2>1, <2>2, MoveType DEF RegisterRead, Begin, TypeOK, tables
<1>2. CASE LoginRead(r)
  <2>1. user.password \in Nat
    BY DEF TypeOK
  <2>2. [Idle EXCEPT !.at = "openSession", !.password = user.password] \in Request
    BY <2>1 DEF Idle, Request, Places, Mailboxes
  <2>3. QED
    BY <1>2, <2>2, MoveType DEF LoginRead, Begin, TypeOK, tables
<1>3. CASE ForgotRead(r)
  <2>1. user.email \in Mailboxes
    BY DEF TypeOK
  <2>2. [Idle EXCEPT !.at = "invalidate", !.purpose = "password_reset",
                     !.email = user.email] \in Request
    BY <2>1 DEF Idle, Request, Places, Mailboxes, Purposes
  <2>3. QED
    BY <1>3, <2>2, MoveType DEF ForgotRead, Begin, TypeOK, tables
<1>4. CASE ResetConsume(r)
  <2>1. PICK t \in TokenId : /\ Consume(t, "password_reset")
                             /\ Begin(r, [Idle EXCEPT !.at = "resetUpdate", !.token = t])
    BY <1>4 DEF ResetConsume
  <2>2. [Idle EXCEPT !.at = "resetUpdate", !.token = t] \in Request
    BY <2>1 DEF Idle, Request, Places, Mailboxes
  <2>3. token' \in [TokenId -> [status : TokenStatus, purpose : Purposes \union {"none"},
                                to : Mailboxes]]
    BY <2>1 DEF TypeOK, Consume, TokenStatus
  <2>4. QED
    BY <1>4, <2>1, <2>2, <2>3, MoveType DEF ResetConsume, Begin, TypeOK
<1>5. CASE VerifyConsume(r)
  <2>1. PICK t \in TokenId : /\ Consume(t, "email_verification")
                             /\ Begin(r, [Idle EXCEPT !.at = "verifyMark", !.token = t])
    BY <1>5 DEF VerifyConsume
  <2>2. [Idle EXCEPT !.at = "verifyMark", !.token = t] \in Request
    BY <2>1 DEF Idle, Request, Places, Mailboxes
  <2>3. token' \in [TokenId -> [status : TokenStatus, purpose : Purposes \union {"none"},
                                to : Mailboxes]]
    BY <2>1 DEF TypeOK, Consume, TokenStatus
  <2>4. QED
    BY <1>5, <2>1, <2>2, <2>3, MoveType DEF VerifyConsume, Begin, TypeOK
<1>6. QED
  BY <1>1, <1>2, <1>3, <1>4, <1>5 DEF Public

LEMMA PrivateType ==
    ASSUME IInv, NEW r \in Requests, Private(r)
    PROVE  TypeOK'
<1> USE DEF IInv
<1>1. ASSUME NEW s \in SessionId, NEW step \in Places, NEW email \in Mailboxes,
             Authenticate(r, s, step, email)
      PROVE  TypeOK'
  <2>1. PICK p \in 1..user.password :
           Begin(r, [Idle EXCEPT !.at = step, !.session = s, !.email = email, !.password = p])
    BY <1>1 DEF Authenticate
  <2>2. p \in Nat
    BY DEF TypeOK
  <2>3. [Idle EXCEPT !.at = step, !.session = s, !.email = email, !.password = p] \in Request
    BY <1>1, <2>2 DEF Idle, Request, Mailboxes
  <2>4. QED
    BY <1>1, <2>1, <2>3, MoveType DEF Authenticate, Begin, TypeOK, tables
<1>2. {"changeCheck", "emailCheck", "deleteCheck"} \subseteq Places
      /\ "none" \in Mailboxes /\ Addresses \subseteq Mailboxes
  BY DEF Places, Mailboxes
<1>3. CASE ChangeBegin(r) \/ EmailBegin(r) \/ DeleteBegin(r)
  BY <1>1, <1>2, <1>3 DEF ChangeBegin, EmailBegin, DeleteBegin
<1>4. CASE ResendBegin(r)
  <2>1. PICK s \in SessionId :
           Begin(r, [Idle EXCEPT !.at = "invalidate", !.purpose = "email_verification",
                                 !.session = s, !.email = user.email])
    BY <1>4 DEF ResendBegin
  <2>2. user.email \in Mailboxes
    BY DEF TypeOK
  <2>3. [Idle EXCEPT !.at = "invalidate", !.purpose = "email_verification",
                     !.session = s, !.email = user.email] \in Request
    BY <2>1, <2>2 DEF Idle, Request, Places, Purposes
  <2>4. QED
    BY <1>4, <2>1, <2>3, MoveType DEF ResendBegin, Begin, TypeOK, tables
<1>5. QED
  BY <1>3, <1>4 DEF Private

LEMMA StepType ==
    ASSUME IInv, NEW r \in Requests, Step(r) \/ Fail(r)
    PROVE  TypeOK'
<1> USE DEF IInv
<1> DEFINE q == req[r]
           UserRow    == [status : UserStatus, email : Mailboxes, password : Nat,
                          verified : BOOLEAN]
           SessionRow == [status : SessionStatus, password : Nat, asOf : Nat]
           TokenRow   == [status : TokenStatus, purpose : Purposes \union {"none"},
                          to : Mailboxes]
<1>1. /\ q \in Request /\ user \in UserRow /\ session \in [SessionId -> SessionRow]
      /\ token \in [TokenId -> TokenRow] /\ proven \in Mailboxes
      /\ honoured \in [TokenId -> Nat] /\ cutShort \subseteq {"revoke", "invalidate"}
  BY DEF TypeOK
<1>2. \A step \in Places : [q EXCEPT !.at = step] \in Request
  BY <1>1 DEF Request
<1>3. CASE Finish(r) /\ UNCHANGED <<tables, history>>
  BY <1>3, IdleType, MoveType DEF Finish, TypeOK, tables
<1>4. ASSUME NEW step \in Places, Goto(r, step), UNCHANGED <<tables, history>>
      PROVE  TypeOK'
  BY <1>2, <1>4, MoveType DEF Goto, TypeOK, tables
<1>5. CASE RegisterCommit(r)
  <2>1. [q EXCEPT !.at = "openSession", !.password = 1] \in Request
    BY <1>1 DEF Request, Places
  <2>2. user' \in UserRow
    BY <1>1, <1>5 DEF RegisterCommit, UserStatus, Request
  <2>3. QED
    BY <1>1, <1>5, <2>1, <2>2, MoveType DEF RegisterCommit, TypeOK
<1>6. CASE OpenSession(r)
  <2>1. PICK s \in SessionId :
           session' = [session EXCEPT ![s] = [status |-> "live", password |-> q.password,
                                              asOf |-> user.password]]
    BY <1>6 DEF OpenSession
  <2>2. session' \in [SessionId -> SessionRow]
    BY <1>1, <2>1 DEF Request, SessionStatus
  <2>3. QED
    BY <1>1, <1>6, <2>2, IdleType, MoveType DEF OpenSession, Finish, TypeOK
<1>7. CASE Invalidate(r)
  <2>1. \A t \in TokenId : [token[t] EXCEPT !.status = "used"] \in TokenRow
    BY <1>1 DEF TokenStatus
  <2>2. token' \in [TokenId -> TokenRow]
    BY <1>1, <1>7, <2>1 DEF Invalidate
  <2>3. [q EXCEPT !.at = "insert"] \in Request
    BY <1>2 DEF Places
  <2>4. QED
    BY <1>1, <1>7, <2>2, <2>3, MoveType DEF Invalidate, Goto, TypeOK
<1>8. CASE Insert(r)
  <2>1. PICK t \in TokenId :
           token' = [token EXCEPT ![t] = [status |-> "live", purpose |-> q.purpose,
                                          to |-> q.email]]
    BY <1>8 DEF Insert
  <2>2. token' \in [TokenId -> TokenRow]
    BY <1>1, <2>1 DEF Request, TokenStatus
  <2>3. QED
    BY <1>1, <1>8, <2>2, IdleType, MoveType DEF Insert, Finish, TypeOK
<1>9. CASE ResetUpdate(r)
  <2>1. [q EXCEPT !.at = "revoke", !.revoke = SessionId, !.token = 0] \in Request
    BY <1>1 DEF Request, Places
  <2>2. user' \in UserRow /\ honoured' \in [TokenId -> Nat]
    <3>1. user' = [user EXCEPT !.password = user.password + 1] /\ Honour(q.token)
      BY <1>9 DEF ResetUpdate
    <3>2. user' \in UserRow
      BY <1>1, <3>1
    <3>3. \A t \in TokenId : honoured[t] + 1 \in Nat
      BY <1>1
    <3>4. honoured' \in [TokenId -> Nat]
      BY <1>1, <3>1, <3>3 DEF Honour
    <3>5. QED
      BY <3>2, <3>4
  <2>3. QED
    BY <1>1, <1>9, <2>1, <2>2, MoveType DEF ResetUpdate, TypeOK
<1>10. CASE ChangeUpdate(r)
  <2>1. [q EXCEPT !.at = "revoke", !.revoke = SessionId \ {q.session}] \in Request
    BY <1>1 DEF Request, Places
  <2>2. user' \in UserRow /\ session' \in [SessionId -> SessionRow]
    <3> DEFINE next == user.password + 1
    <3>1. /\ user' = [user EXCEPT !.password = next]
          /\ session' = [session EXCEPT ![q.session].password = next,
                                        ![q.session].asOf = next]
      BY <1>10 DEF ChangeUpdate
    <3>2. next \in Nat
      BY <1>1
    <3> HIDE DEF next
    <3>3. user' \in UserRow
      BY <1>1, <3>1, <3>2
    <3>4. session' \in [SessionId -> SessionRow]
      BY <1>1, <3>1, <3>2
    <3>5. QED
      BY <3>3, <3>4
  <2>3. QED
    BY <1>1, <1>10, <2>1, <2>2, MoveType DEF ChangeUpdate, TypeOK
<1>11. CASE EmailUpdate(r)
  <2>1. [q EXCEPT !.at = "invalidate", !.purpose = "email_verification"] \in Request
    BY <1>1 DEF Request, Places, Purposes
  <2>2. user' \in UserRow
    BY <1>1, <1>11 DEF EmailUpdate, Request
  <2>3. QED
    BY <1>1, <1>11, <2>1, <2>2, MoveType DEF EmailUpdate, TypeOK
<1>12. CASE VerifyMark(r)
  <2>1. q.token \in TokenId
    BY <1>12 DEF VerifyMark, LinksHeldOnce, Holding
  <2>2. /\ user' \in UserRow /\ proven' \in Mailboxes
        /\ honoured' \in [TokenId -> Nat]
    <3>1. /\ user' = [user EXCEPT !.verified = TRUE]
          /\ proven' = token[q.token].to
          /\ Honour(q.token)
      BY <1>12 DEF VerifyMark
    <3>2. user' \in UserRow
      BY <1>1, <3>1
    <3>3. proven' \in Mailboxes
      BY <1>1, <2>1, <3>1
    <3>4. \A t \in TokenId : honoured[t] + 1 \in Nat
      BY <1>1
    <3>5. honoured' \in [TokenId -> Nat]
      BY <1>1, <3>1, <3>4 DEF Honour
    <3>6. QED
      BY <3>2, <3>3, <3>5
  <2>3. QED
    BY <1>1, <1>12, <2>2, IdleType, MoveType DEF VerifyMark, Finish, TypeOK
<1>13. CASE DeleteRevoke(r)
  <2>1. [q EXCEPT !.at = "deleteCommit", !.revoke = Opened] \in Request
    BY <1>1 DEF Request, Places, Opened
  <2>2. QED
    BY <1>13, <2>1, MoveType DEF DeleteRevoke, TypeOK, tables
<1>14. CASE DeleteCommit(r)
  <2>1. user' \in UserRow
    <3> DEFINE next == user.password + 1
    <3>1. user' = [user EXCEPT !.status = "deleted", !.email = Tombstone, !.password = next]
      BY <1>14 DEF DeleteCommit
    <3>2. next \in Nat /\ "deleted" \in UserStatus /\ Tombstone \in Mailboxes
      BY <1>1 DEF UserStatus, Mailboxes
    <3> HIDE DEF next
    <3>3. QED
      BY <1>1, <3>1, <3>2
  <2>2. QED
    BY <1>1, <1>14, <2>1, RevokedType, IdleType, MoveType DEF DeleteCommit, Finish, TypeOK
<1>15. CASE Revoke(r)
  BY <1>1, <1>15, RevokedType, IdleType, MoveType DEF Revoke, Finish, TypeOK
<1>16. CASE RegisterDuplicate(r) \/ CheckRefused(r)
  BY <1>3, <1>16 DEF RegisterDuplicate, CheckRefused
<1>17. CASE ChangeCheck(r) \/ EmailCheck(r) \/ DeleteCheck(r)
  <2>1. {"changeUpdate", "emailUpdate", "deleteRevoke"} \subseteq Places
    BY DEF Places
  <2>2. QED
    BY <1>4, <1>17, <2>1 DEF ChangeCheck, EmailCheck, DeleteCheck, CheckPassword
<1>18. CASE Fail(r)
  BY <1>1, <1>18, IdleType, MoveType DEF Fail, LeftUndone, Finish, TypeOK, tables
<1>19. QED
  BY <1>5, <1>6, <1>7, <1>8, <1>9, <1>10, <1>11, <1>12, <1>13, <1>14, <1>15, <1>16, <1>17,
     <1>18 DEF Step

LEMMA ClockType ==
    ASSUME IInv, \/ \E s \in SessionId : Logout(s) \/ ExpireSession(s)
                 \/ \E t \in TokenId : ExpireToken(t)
    PROVE  TypeOK'
<1>1. TypeOK
  BY DEF IInv
<1>2. CASE \E s \in SessionId : Logout(s) \/ ExpireSession(s)
  BY <1>1, <1>2 DEF TypeOK, Logout, ExpireSession, SessionStatus
<1>3. CASE \E t \in TokenId : ExpireToken(t)
  BY <1>1, <1>3 DEF TypeOK, ExpireToken, TokenStatus
<1>4. QED
  BY <1>2, <1>3

-------------------------------------------------------------------------------
(* The links *)

\* A step that consumes no link and honours none: the request that takes it
\* holds no link afterwards, and a used link stays used.
LEMMA LinksKept ==
    ASSUME IInv, NEW r \in Requests,
           \A s \in Requests \ {r} : req'[s] = req[s],
           ~Holding(r)',
           \A t \in TokenId : token[t].status = "used" => token'[t].status = "used",
           honoured' = honoured
    PROVE  LinksHeldOnce' /\ LinksHonouredOnce'
  BY DEF IInv, LinksHeldOnce, LinksHonouredOnce, Holding

\* A step that consumes link t for request r, which held none.
LEMMA LinksConsumed ==
    ASSUME IInv, NEW r \in Requests, NEW t \in TokenId, NEW purpose,
           Consume(t, purpose), honoured' = honoured,
           req[r].at = "idle",
           req'[r].token = t,
           \A s \in Requests \ {r} : req'[s] = req[s]
    PROVE  LinksHeldOnce' /\ LinksHonouredOnce'
<1>1. token[t].status = "live" /\ token[t].status # "used" /\ honoured[t] = 0
  BY DEF IInv, LinksHeldOnce, Consume
<1>2. /\ token'[t].status = "used"
      /\ \A u \in TokenId \ {t} : token'[u] = token[u]
  BY DEF IInv, TypeOK, Consume
<1>3. \A s \in Requests : Holding(s) => s # r /\ req[s].token # t
  BY <1>1 DEF IInv, LinksHeldOnce, Holding
<1>4. \A s \in Requests \ {r} : Holding(s)' <=> Holding(s)
  BY DEF Holding
<1>5. LinksHeldOnce'
  BY <1>1, <1>2, <1>3, <1>4 DEF IInv, LinksHeldOnce
<1>6. LinksHonouredOnce'
  BY DEF IInv, LinksHonouredOnce
<1>7. QED
  BY <1>5, <1>6

\* A step that honours the link that request r holds.
LEMMA LinksHonoured ==
    ASSUME IInv, NEW r \in Requests, Holding(r), Honour(req[r].token),
           token' = token, ~Holding(r)',
           \A s \in Requests \ {r} : req'[s] = req[s]
    PROVE  LinksHeldOnce' /\ LinksHonouredOnce'
<1> DEFINE t == req[r].token
<1>1. t \in TokenId /\ token[t].status = "used" /\ honoured[t] = 0
  BY DEF IInv, LinksHeldOnce
<1>2. honoured \in [TokenId -> Nat]
  BY DEF IInv, TypeOK
<1> HIDE DEF t
<1>3. honoured'[t] = 1 /\ \A u \in TokenId \ {t} : honoured'[u] = honoured[u]
  BY <1>1, <1>2 DEF Honour, t
<1>4. \A s \in Requests : Holding(s)' => s # r /\ Holding(s) /\ req[s].token # t
  BY DEF IInv, LinksHeldOnce, Holding, t
<1>5. LinksHeldOnce'
  BY <1>1, <1>3, <1>4 DEF IInv, LinksHeldOnce
<1>6. LinksHonouredOnce'
  BY <1>3 DEF IInv, LinksHonouredOnce
<1>7. QED
  BY <1>5, <1>6

LEMMA LinksStep ==
    ASSUME IInv, [Next]_vars
    PROVE  LinksHeldOnce' /\ LinksHonouredOnce'
<1>1. TypeOK
  BY DEF IInv
<1>2. CASE UNCHANGED vars
  BY <1>2 DEF IInv, LinksHeldOnce, LinksHonouredOnce, Holding, vars
<1>3. ASSUME NEW s \in SessionId, Logout(s) \/ ExpireSession(s)
      PROVE  LinksHeldOnce' /\ LinksHonouredOnce'
  BY <1>3 DEF IInv, LinksHeldOnce, LinksHonouredOnce, Holding, Logout, ExpireSession
<1>4. ASSUME NEW t \in TokenId, ExpireToken(t)
      PROVE  LinksHeldOnce' /\ LinksHonouredOnce'
  <2>1. token[t].status = "live" /\ honoured' = honoured /\ req' = req
    BY <1>4 DEF ExpireToken
  <2>2. /\ token'[t].status = "expired"
        /\ \A u \in TokenId \ {t} : token'[u] = token[u]
    BY <1>1, <1>4 DEF ExpireToken, TypeOK
  <2>3. QED
    BY <2>1, <2>2 DEF IInv, LinksHeldOnce, LinksHonouredOnce, Holding
<1>5. ASSUME NEW r \in Requests, Public(r) \/ Private(r) \/ Step(r) \/ Fail(r)
      PROVE  LinksHeldOnce' /\ LinksHonouredOnce'
  <2>1. \A s \in Requests \ {r} : req'[s] = req[s]
    BY <1>1, <1>5 DEF TypeOK, Public, Private, Step, Fail, Begin, Goto, Finish, RegisterRead,
       LoginRead, ForgotRead, ResetConsume, VerifyConsume, ChangeBegin, EmailBegin,
       DeleteBegin, Authenticate, ResendBegin, RegisterCommit, RegisterDuplicate,
       OpenSession, Invalidate, Insert, CheckRefused, ResetUpdate, Revoke, ChangeCheck,
       CheckPassword, ChangeUpdate, EmailCheck, EmailUpdate, VerifyMark, DeleteCheck,
       DeleteRevoke, DeleteCommit
  <2>2. CASE ResetConsume(r) \/ VerifyConsume(r)
    <3>1. PICK t \in TokenId, purpose \in Purposes, step \in Places :
             /\ Consume(t, purpose)
             /\ Begin(r, [Idle EXCEPT !.at = step, !.token = t])
             /\ honoured' = honoured
      BY <2>2 DEF ResetConsume, VerifyConsume, Purposes, Places
    <3>2. req[r].at = "idle" /\ req'[r].token = t
      BY <1>1, <3>1 DEF Begin, Idle, TypeOK
    <3>3. QED
      BY <2>1, <3>1, <3>2, LinksConsumed
  <2>3. CASE ResetUpdate(r) \/ VerifyMark(r)
    <3>1. Holding(r) /\ Honour(req[r].token) /\ token' = token
      BY <2>3 DEF ResetUpdate, VerifyMark, Holding
    <3>2. req'[r].at \in {"revoke", "idle"}
      BY <1>1, <2>3 DEF ResetUpdate, VerifyMark, Finish, Idle, TypeOK, Request
    <3>3. QED
      BY <2>1, <3>1, <3>2, LinksHonoured DEF Holding
  <2>4. ASSUME honoured' = honoured, token' = token, ~Holding(r)'
        PROVE  LinksHeldOnce' /\ LinksHonouredOnce'
    BY <2>1, <2>4, LinksKept
  <2>5. CASE RegisterRead(r) \/ LoginRead(r) \/ ForgotRead(r) \/ Private(r)
    <3>1. honoured' = honoured /\ token' = token
      BY <2>5 DEF RegisterRead, LoginRead, ForgotRead, Private, ChangeBegin, EmailBegin,
         DeleteBegin, ResendBegin, Authenticate, tables
    <3>2. CASE RegisterRead(r) \/ LoginRead(r) \/ ForgotRead(r) \/ ResendBegin(r)
      <4>1. req'[r].at \in {"registerCommit", "openSession", "invalidate"}
        <5>1. CASE RegisterRead(r)
          BY <1>1, <5>1 DEF RegisterRead, Begin, Idle, TypeOK
        <5>2. CASE LoginRead(r)
          BY <1>1, <5>2 DEF LoginRead, Begin, Idle, TypeOK
        <5>3. CASE ForgotRead(r)
          BY <1>1, <5>3 DEF ForgotRead, Begin, Idle, TypeOK
        <5>4. CASE ResendBegin(r)
          BY <1>1, <5>4 DEF ResendBegin, Begin, Idle, TypeOK
        <5>5. QED
          BY <3>2, <5>1, <5>2, <5>3, <5>4
      <4>2. QED
        BY <2>4, <3>1, <4>1 DEF Holding
    <3>3. CASE ChangeBegin(r) \/ EmailBegin(r) \/ DeleteBegin(r)
      <4>1. PICK s \in SessionId, email \in Addresses \union {"none"},
                 step \in {"changeCheck", "emailCheck", "deleteCheck"} :
               Authenticate(r, s, step, email)
        BY <3>3 DEF ChangeBegin, EmailBegin, DeleteBegin
      <4>2. req'[r].at = step
        BY <1>1, <4>1 DEF Authenticate, Begin, Idle, TypeOK
      <4>3. QED
        BY <2>4, <3>1, <4>1, <4>2 DEF Holding
    <3>4. QED
      BY <2>5, <3>2, <3>3 DEF Private
  <2>6. CASE Invalidate(r)
    <3>1. \A t \in TokenId : token[t].status = "used" => token'[t].status = "used"
      BY <2>6 DEF Invalidate
    <3>2. ~Holding(r)' /\ honoured' = honoured
      BY <1>1, <2>6 DEF Invalidate, Goto, Holding, TypeOK, Request
    <3>3. QED
      BY <2>1, <3>1, <3>2, LinksKept
  <2>7. CASE Insert(r)
    <3>1. PICK t \in TokenId \ Mailed : \A u \in TokenId \ {t} : token'[u] = token[u]
      BY <1>1, <2>7 DEF Insert, TypeOK
    <3>2. \A u \in TokenId : token[u].status = "used" => token'[u].status = "used"
      BY <3>1 DEF Mailed
    <3>3. ~Holding(r)' /\ honoured' = honoured
      BY <1>1, <2>7 DEF Insert, Finish, Idle, Holding, TypeOK
    <3>4. QED
      BY <2>1, <3>2, <3>3, LinksKept
  <2>8. CASE Fail(r) \/ RegisterCommit(r) \/ RegisterDuplicate(r) \/ OpenSession(r)
             \/ CheckRefused(r) \/ Revoke(r) \/ ChangeCheck(r) \/ ChangeUpdate(r)
             \/ EmailCheck(r) \/ EmailUpdate(r) \/ DeleteCheck(r) \/ DeleteRevoke(r)
             \/ DeleteCommit(r)
    <3>1. honoured' = honoured /\ token' = token
      BY <2>8 DEF Fail, RegisterCommit, RegisterDuplicate, OpenSession, CheckRefused, Revoke,
         ChangeCheck, ChangeUpdate, EmailCheck, EmailUpdate, DeleteCheck, DeleteRevoke,
         DeleteCommit, tables
    <3>2. req'[r].at \in {"idle", "openSession", "changeUpdate", "revoke", "emailUpdate",
                          "invalidate", "deleteRevoke", "deleteCommit"}
      BY <1>1, <2>8 DEF Fail, RegisterCommit, RegisterDuplicate, OpenSession, CheckRefused,
         Revoke, ChangeCheck, ChangeUpdate, EmailCheck, EmailUpdate, DeleteCheck,
         DeleteRevoke, DeleteCommit, CheckPassword, Goto, Finish, Idle, TypeOK, Request
    <3>3. QED
      BY <2>4, <3>1, <3>2 DEF Holding
  <2>9. QED
    BY <1>5, <2>2, <2>3, <2>5, <2>6, <2>7, <2>8 DEF Public, Step
<1>6. QED
  BY <1>2, <1>3, <1>4, <1>5 DEF Next, Run

-------------------------------------------------------------------------------
(* Before registration, and the inductive invariant *)

LEMMA UnregisteredStep ==
    ASSUME IInv, [Next]_vars
    PROVE  Unregistered'
<1>1. TypeOK /\ Unregistered /\ LinksHeldOnce
  BY DEF IInv
<1>2. CASE user.status # "none"
  <2>1. user'.status # "none"
    <3>1. CASE UNCHANGED vars
      BY <1>2, <3>1 DEF vars
    <3>2. CASE user' = user
      BY <1>2, <3>2
    <3>3. ASSUME NEW r \in Requests, \/ RegisterCommit(r) \/ ResetUpdate(r)
                                     \/ ChangeUpdate(r) \/ EmailUpdate(r)
                                     \/ VerifyMark(r) \/ DeleteCommit(r)
          PROVE  user'.status # "none"
      BY <1>1, <1>2, <3>3 DEF RegisterCommit, ResetUpdate, ChangeUpdate, EmailUpdate,
         VerifyMark, DeleteCommit, TypeOK
    <3>4. QED
      BY <3>1, <3>2, <3>3 DEF Next, Run, Public, Private, Step, Fail, RegisterRead, LoginRead,
         ForgotRead, ResetConsume, VerifyConsume, ChangeBegin, EmailBegin, DeleteBegin,
         Authenticate, ResendBegin, RegisterDuplicate, OpenSession, Invalidate, Insert,
         CheckRefused, Revoke, ChangeCheck, EmailCheck, DeleteCheck, DeleteRevoke, Logout,
         ExpireSession, ExpireToken, tables
  <2>2. QED
    BY <2>1 DEF Unregistered
<1>3. CASE user.status = "none"
  <2>1. /\ user.email \notin Addresses
        /\ \A s \in SessionId : session[s].status = "none"
        /\ \A t \in TokenId : token[t].status = "none"
        /\ \A r \in Requests : req[r].at \in {"idle", "registerCommit"}
    BY <1>1, <1>3 DEF Unregistered, Opened, Mailed
  <2>2. CASE UNCHANGED vars
    BY <1>1, <1>3, <2>2 DEF Unregistered, Opened, Mailed, vars
  <2>3. ASSUME NEW r \in Requests, RegisterCommit(r)
        PROVE  Unregistered'
    BY <2>3 DEF RegisterCommit, Unregistered
  <2>4. ASSUME NEW r \in Requests, RegisterRead(r) \/ Fail(r) \/ RegisterDuplicate(r)
        PROVE  Unregistered'
    <3>1. UNCHANGED tables
      BY <2>4 DEF RegisterRead, Fail, RegisterDuplicate
    <3>2. req'[r].at \in {"idle", "registerCommit"}
          /\ \A s \in Requests \ {r} : req'[s] = req[s]
      <4>1. CASE RegisterRead(r)
        BY <1>1, <4>1 DEF RegisterRead, Begin, Idle, TypeOK
      <4>2. CASE Fail(r) \/ RegisterDuplicate(r)
        BY <1>1, <4>2 DEF Fail, RegisterDuplicate, Finish, Idle, TypeOK
      <4>3. QED
        BY <2>4, <4>1, <4>2
    <3>3. QED
      BY <1>1, <1>3, <2>1, <3>1, <3>2 DEF Unregistered, Opened, Mailed, tables
  <2>5. ASSUME NEW r \in Requests
        PROVE  /\ ~LoginRead(r) /\ ~ForgotRead(r)
               /\ ~ResetConsume(r) /\ ~VerifyConsume(r) /\ ~Private(r)
    BY <2>1 DEF LoginRead, ForgotRead, ResetConsume, VerifyConsume, Consume, Private,
       ChangeBegin, EmailBegin, DeleteBegin, ResendBegin, Authenticate, SignedIn
  <2>6. ASSUME NEW r \in Requests, Step(r)
        PROVE  RegisterCommit(r) \/ RegisterDuplicate(r)
    BY <2>1, <2>6 DEF Step, OpenSession, Invalidate, Insert, CheckRefused, CheckSteps,
       ResetUpdate, Revoke, ChangeCheck, CheckPassword, ChangeUpdate, EmailCheck,
       EmailUpdate, VerifyMark, DeleteCheck, DeleteRevoke, DeleteCommit
  <2>7. /\ \A s \in SessionId : ~Logout(s) /\ ~ExpireSession(s)
        /\ \A t \in TokenId : ~ExpireToken(t)
    BY <2>1 DEF Logout, ExpireSession, ExpireToken
  <2>8. QED
    BY <2>2, <2>3, <2>4, <2>5, <2>6, <2>7 DEF Next, Run, Public
<1>4. QED
  BY <1>2, <1>3

\* IInv holds in every state: tables and requests are well formed, nothing
\* precedes registration, and no link has or will have its effect twice.
THEOREM InvariantHolds == Spec => []IInv
<1>1. Init => IInv
  <2> SUFFICES ASSUME Init PROVE IInv
    OBVIOUS
  <2>1. /\ user = [status |-> "none", email |-> "none", password |-> 0, verified |-> FALSE]
        /\ session = [s \in SessionId |-> [status |-> "none", password |-> 0, asOf |-> 0]]
        /\ token = [t \in TokenId |-> [status |-> "none", purpose |-> "none", to |-> "none"]]
        /\ proven = "none" /\ honoured = [t \in TokenId |-> 0] /\ cutShort = {}
        /\ req = [r \in Requests |-> Idle]
    BY DEF Init
  <2>2. TypeOK
    BY <2>1, IdleType DEF TypeOK, UserStatus, SessionStatus, TokenStatus, Mailboxes
  <2>3. Unregistered
    BY <2>1 DEF Unregistered, Opened, Mailed, Idle
  <2>4. LinksHeldOnce /\ LinksHonouredOnce
    BY <2>1 DEF LinksHeldOnce, LinksHonouredOnce, Holding, Idle
  <2>5. QED
    BY <2>2, <2>3, <2>4 DEF IInv
<1>2. IInv /\ [Next]_vars => IInv'
  <2> SUFFICES ASSUME IInv, [Next]_vars PROVE IInv'
    OBVIOUS
  <2>1. TypeOK'
    <3>1. CASE UNCHANGED vars
      BY <3>1 DEF IInv, TypeOK, vars
    <3>2. CASE Next
      BY <3>2, PublicType, PrivateType, StepType, ClockType DEF Next, Run
    <3>3. QED
      BY <3>1, <3>2
  <2>2. QED
    BY <2>1, UnregisteredStep, LinksStep DEF IInv
<1>3. QED
  BY <1>1, <1>2, PTL DEF Spec

\* A reset or verification link has its effect at most once, whatever requests
\* overlap or fail.
THEOREM LinksOnce == Spec => []LinksHonouredOnce
<1>1. IInv => LinksHonouredOnce
  BY DEF IInv
<1>2. QED
  BY <1>1, InvariantHolds, PTL

-------------------------------------------------------------------------------
(* Sessions and the change of password *)

\* A step that opens no session, changes no password and ends no request that
\* is about to revoke sessions.
LEMMA PriorKept ==
    ASSUME PriorSessionsEnd,
           user'.status = "active" => user.status = "active",
           user'.password = user.password,
           \A s \in SessionId : session'[s].status = "live" => session'[s] = session[s],
           cutShort' = cutShort,
           \A r \in Requests : req[r].at = "revoke" => req'[r] = req[r]
    PROVE  PriorSessionsEnd'
  BY DEF PriorSessionsEnd

\* A step in which the password changes and request r is left to revoke every
\* session but one, whose holder knows the new password.
LEMMA PriorChanged ==
    ASSUME NEW r \in Requests, NEW own,
           req'[r].at = "revoke",
           req'[r].revoke = SessionId \ {own},
           own \in SessionId => session'[own].password = user'.password
    PROVE  PriorSessionsEnd'
  BY DEF PriorSessionsEnd

LEMMA PriorStep ==
    ASSUME IInv, PriorSessionsEnd, [Next]_vars
    PROVE  PriorSessionsEnd'
<1>1. TypeOK /\ Unregistered
  BY DEF IInv
<1>2. CASE UNCHANGED vars
  BY <1>2 DEF PriorSessionsEnd, vars
<1>3. ASSUME NEW s \in SessionId, Logout(s) \/ ExpireSession(s)
      PROVE  PriorSessionsEnd'
  <2>1. \A t \in SessionId : session'[t].status = "live" => session'[t] = session[t]
    BY <1>1, <1>3 DEF Logout, ExpireSession, TypeOK
  <2>2. UNCHANGED <<user, req, cutShort>>
    BY <1>3 DEF Logout, ExpireSession
  <2>3. QED
    BY <2>1, <2>2, PriorKept
<1>4. CASE \E t \in TokenId : ExpireToken(t)
  BY <1>4 DEF ExpireToken, PriorSessionsEnd
<1>5. ASSUME NEW r \in Requests, Public(r) \/ Private(r) \/ Step(r) \/ Fail(r)
      PROVE  PriorSessionsEnd'
  <2>1. ASSUME user'.password = user.password,
               user'.status = "active" => user.status = "active",
               session' = session, cutShort' = cutShort, req[r].at # "revoke",
               \A s \in Requests \ {r} : req'[s] = req[s]
        PROVE  PriorSessionsEnd'
    BY <2>1, PriorKept
  <2>2. \A s \in Requests \ {r} : req'[s] = req[s]
    BY <1>1, <1>5 DEF TypeOK, Public, Private, Step, Fail, Begin, Goto, Finish, RegisterRead,
       LoginRead, ForgotRead, ResetConsume, VerifyConsume, ChangeBegin, EmailBegin,
       DeleteBegin, Authenticate, ResendBegin, RegisterCommit, RegisterDuplicate,
       OpenSession, Invalidate, Insert, CheckRefused, ResetUpdate, Revoke, ChangeCheck,
       CheckPassword, ChangeUpdate, EmailCheck, EmailUpdate, VerifyMark, DeleteCheck,
       DeleteRevoke, DeleteCommit
  <2>3. CASE Fail(r)
    <3>1. /\ cutShort \subseteq cutShort'
          /\ "revoke" \in cutShort' \/ req[r].at # "revoke"
      BY <1>1, <2>3 DEF Fail, LeftUndone, TypeOK
    <3>2. UNCHANGED <<user, session>>
      BY <2>3 DEF Fail, tables
    <3>3. QED
      BY <2>2, <3>1, <3>2 DEF PriorSessionsEnd
  <2>4. CASE Public(r) \/ Private(r)
    <3>1. UNCHANGED <<user, session, cutShort>> /\ req[r].at = "idle"
      BY <2>4 DEF Public, Private, RegisterRead, LoginRead, ForgotRead, ResetConsume,
         VerifyConsume, ChangeBegin, EmailBegin, DeleteBegin, Authenticate, ResendBegin,
         Begin, tables
    <3>2. QED
      BY <2>1, <2>2, <3>1
  <2>5. CASE RegisterDuplicate(r) \/ Invalidate(r) \/ Insert(r) \/ CheckRefused(r)
             \/ ChangeCheck(r) \/ EmailCheck(r) \/ DeleteCheck(r) \/ DeleteRevoke(r)
    <3>1. UNCHANGED <<user, session, cutShort>> /\ req[r].at # "revoke"
      BY <2>5 DEF RegisterDuplicate, Invalidate, Insert, CheckRefused, CheckSteps,
         ChangeCheck, EmailCheck, DeleteCheck, CheckPassword, DeleteRevoke, tables
    <3>2. QED
      BY <2>1, <2>2, <3>1
  <2>6. CASE EmailUpdate(r) \/ VerifyMark(r)
    <3>1. /\ user'.password = user.password /\ user'.status = user.status
          /\ session' = session /\ cutShort' = cutShort /\ req[r].at # "revoke"
      BY <1>1, <2>6 DEF EmailUpdate, VerifyMark, TypeOK
    <3>2. QED
      BY <2>1, <2>2, <3>1
  <2>7. CASE RegisterCommit(r)
    BY <1>1, <2>7 DEF RegisterCommit, Unregistered, Opened, PriorSessionsEnd
  <2>8. CASE DeleteCommit(r)
    BY <1>1, <2>8 DEF DeleteCommit, TypeOK, PriorSessionsEnd
  <2>9. CASE OpenSession(r)
    <3>1. PICK s \in SessionId :
             session' = [session EXCEPT ![s] = [status |-> "live", password |-> req[r].password,
                                                asOf |-> user.password]]
      BY <2>9 DEF OpenSession
    <3>2. /\ session'[s].asOf = user.password
          /\ \A t \in SessionId \ {s} : session'[t] = session[t]
      BY <1>1, <3>1 DEF TypeOK
    <3>3. user' = user /\ cutShort' = cutShort /\ req[r].at # "revoke"
      BY <2>9 DEF OpenSession
    <3>4. QED
      BY <2>2, <3>2, <3>3 DEF PriorSessionsEnd
  <2>10. CASE ResetUpdate(r)
    <3>1. req'[r].at = "revoke" /\ req'[r].revoke = SessionId \ {0}
      BY <1>1, <2>10 DEF ResetUpdate, TypeOK, Request, SessionId
    <3>2. QED
      BY <3>1, PriorChanged DEF SessionId
  <2>11. CASE ChangeUpdate(r)
    <3> DEFINE own == req[r].session
    <3>1. req'[r].at = "revoke" /\ req'[r].revoke = SessionId \ {own}
      BY <1>1, <2>11 DEF ChangeUpdate, TypeOK, Request
    <3>2. user'.password = user.password + 1
      BY <1>1, <2>11 DEF ChangeUpdate, TypeOK
    <3>3. own \in SessionId => session'[own].password = user.password + 1
      BY <1>1, <2>11 DEF ChangeUpdate, TypeOK
    <3>4. QED
      BY <3>1, <3>2, <3>3, PriorChanged
  <2>12. CASE Revoke(r)
    <3>1. /\ user' = user /\ cutShort' = cutShort
          /\ \A s \in SessionId : session'[s].status = "live" =>
                session'[s] = session[s] /\ s \notin req[r].revoke
      BY <1>1, <2>12 DEF Revoke, RevokedIn, TypeOK
    <3>2. QED
      BY <2>2, <3>1 DEF PriorSessionsEnd
  <2>13. QED
    BY <1>5, <2>3, <2>4, <2>5, <2>6, <2>7, <2>8, <2>9, <2>10, <2>11, <2>12 DEF Step
<1>6. QED
  BY <1>2, <1>3, <1>4, <1>5 DEF Next, Run

\* The sessions that were open when the password changed end with the request
\* that changed it, until one such request fails before it revokes them.
THEOREM PriorSessionsCut == Spec => []PriorSessionsEnd
<1>1. Init => PriorSessionsEnd
  BY DEF Init, PriorSessionsEnd
<1>2. IInv /\ PriorSessionsEnd /\ [Next]_vars => PriorSessionsEnd'
  BY PriorStep
<1>3. QED
  BY <1>1, <1>2, InvariantHolds, PTL DEF Spec

-------------------------------------------------------------------------------
(* Which steps change what *)

\* Which steps of a request change which table.
LEMMA Changes ==
    ASSUME NEW r \in Requests, Public(r) \/ Private(r) \/ Step(r)
    PROVE  /\ \/ user' = user
              \/ RegisterCommit(r) \/ ResetUpdate(r) \/ ChangeUpdate(r) \/ EmailUpdate(r)
              \/ VerifyMark(r) \/ DeleteCommit(r)
           /\ token' = token \/ Invalidate(r) \/ Insert(r) \/ ResetConsume(r) \/ VerifyConsume(r)
           /\ session' = session \/ OpenSession(r) \/ ChangeUpdate(r) \/ Revoke(r) \/ DeleteCommit(r)
           /\ proven' = proven \/ VerifyMark(r)
           /\ req[r].at = "invalidate" => Invalidate(r)
           /\ req[r].at = "revoke" => Revoke(r)
<1>1. \/ user' = user
      \/ RegisterCommit(r) \/ ResetUpdate(r) \/ ChangeUpdate(r) \/ EmailUpdate(r)
      \/ VerifyMark(r) \/ DeleteCommit(r)
  BY DEF Public, Private, Step, RegisterRead, LoginRead, ForgotRead, ResetConsume,
     VerifyConsume, ChangeBegin, EmailBegin, DeleteBegin, Authenticate, ResendBegin,
     RegisterDuplicate, OpenSession, Invalidate, Insert, CheckRefused, Revoke, ChangeCheck,
     EmailCheck, DeleteCheck, DeleteRevoke, tables
<1>2. token' = token \/ Invalidate(r) \/ Insert(r) \/ ResetConsume(r) \/ VerifyConsume(r)
  BY DEF Public, Private, Step, RegisterRead, LoginRead, ForgotRead, ChangeBegin, EmailBegin,
     DeleteBegin, Authenticate, ResendBegin, RegisterCommit, RegisterDuplicate, OpenSession,
     CheckRefused, ResetUpdate, Revoke, ChangeCheck, ChangeUpdate, EmailCheck, EmailUpdate,
     VerifyMark, DeleteCheck, DeleteRevoke, DeleteCommit, tables
<1>3. session' = session \/ OpenSession(r) \/ ChangeUpdate(r) \/ Revoke(r) \/ DeleteCommit(r)
  BY DEF Public, Private, Step, RegisterRead, LoginRead, ForgotRead, ResetConsume,
     VerifyConsume, ChangeBegin, EmailBegin, DeleteBegin, Authenticate, ResendBegin,
     RegisterCommit, RegisterDuplicate, Invalidate, Insert, CheckRefused, ResetUpdate,
     ChangeCheck, EmailCheck, EmailUpdate, VerifyMark, DeleteCheck, DeleteRevoke, tables
<1>4. proven' = proven \/ VerifyMark(r)
  BY DEF Public, Private, Step, RegisterRead, LoginRead, ForgotRead, ResetConsume,
     VerifyConsume, ChangeBegin, EmailBegin, DeleteBegin, Authenticate, ResendBegin,
     RegisterCommit, RegisterDuplicate, OpenSession, Invalidate, Insert, CheckRefused,
     ResetUpdate, Revoke, ChangeCheck, ChangeUpdate, EmailCheck, EmailUpdate, DeleteCheck,
     DeleteRevoke, DeleteCommit
<1>5. req[r].at \in {"invalidate", "revoke"} => Invalidate(r) \/ Revoke(r)
  BY DEF Public, Private, Step, Begin, RegisterRead, LoginRead, ForgotRead, ResetConsume,
     VerifyConsume, ChangeBegin, EmailBegin, DeleteBegin, Authenticate, ResendBegin,
     RegisterCommit, RegisterDuplicate, OpenSession, Insert, CheckRefused, CheckSteps,
     ResetUpdate, ChangeCheck, CheckPassword, ChangeUpdate, EmailCheck, EmailUpdate,
     VerifyMark, DeleteCheck, DeleteRevoke, DeleteCommit
<1>6. QED
  BY <1>1, <1>2, <1>3, <1>4, <1>5 DEF Invalidate, Revoke

\* A consumed link is no longer live, and the others stay.
LEMMA Consumed ==
    ASSUME TypeOK, NEW r \in Requests, ResetConsume(r) \/ VerifyConsume(r)
    PROVE  \A t \in TokenId : token'[t].status = "live" => token'[t] = token[t]
<1>1. PICK t \in TokenId : token' = [token EXCEPT ![t].status = "used"]
  BY DEF ResetConsume, VerifyConsume, Consume
<1>2. QED
  BY <1>1 DEF TypeOK

\* The row that a request inserts.
LEMMA Inserted ==
    ASSUME TypeOK, NEW r \in Requests, Insert(r)
    PROVE  \E t \in TokenId :
              /\ token'[t] = [status |-> "live", purpose |-> req[r].purpose, to |-> req[r].email]
              /\ \A u \in TokenId \ {t} : token'[u] = token[u]
  BY DEF TypeOK, Insert

-------------------------------------------------------------------------------
(* Requests that overlap, and the history of it *)

\* The history only grows.
LEMMA HistoryGrows == TypeOK /\ [Next]_vars => raced \subseteq raced' /\ cutShort \subseteq cutShort'
<1> SUFFICES ASSUME TypeOK, [Next]_vars PROVE raced \subseteq raced' /\ cutShort \subseteq cutShort'
  OBVIOUS
<1>1. CASE UNCHANGED vars
  BY <1>1 DEF vars
<1>2. CASE Next
  <2>1. raced \subseteq raced'
    BY <1>2 DEF Next, Track
  <2>2. ASSUME NEW r \in Requests, Public(r) \/ Private(r) \/ Step(r)
        PROVE  cutShort' = cutShort
    BY <2>2 DEF Public, Private, Step, RegisterRead, LoginRead, ForgotRead, ResetConsume,
       VerifyConsume, ChangeBegin, EmailBegin, DeleteBegin, Authenticate, ResendBegin,
       RegisterCommit, RegisterDuplicate, OpenSession, Invalidate, Insert, CheckRefused,
       ResetUpdate, Revoke, ChangeCheck, ChangeUpdate, EmailCheck, EmailUpdate, VerifyMark,
       DeleteCheck, DeleteRevoke, DeleteCommit
  <2>3. ASSUME NEW r \in Requests, Fail(r)
        PROVE  cutShort \subseteq cutShort'
    BY <2>3 DEF Fail
  <2>4. ASSUME \/ \E s \in SessionId : Logout(s) \/ ExpireSession(s)
               \/ \E t \in TokenId : ExpireToken(t)
        PROVE  cutShort' = cutShort
    BY <2>4 DEF Logout, ExpireSession, ExpireToken
  <2>5. QED
    BY <1>2, <2>1, <2>2, <2>3, <2>4 DEF Next, Run
<1>3. QED
  BY <1>1, <1>2

\* What is apart after a step was apart before it.
LEMMA ApartBefore ==
    ASSUME raced \subseteq raced', cutShort \subseteq cutShort'
    PROVE  /\ \A j, k : Apart(j, k)' => Apart(j, k)
           /\ SignedInApart' => SignedInApart
           /\ AddressChangedApart' => AddressChangedApart
           /\ \A purpose : MailedApart(purpose)' => MailedApart(purpose)
  BY DEF Apart, SignedInApart, AddressChangedApart, MailedApart, Mailers

\* Which handlers the steps belong to.
LEMMA KindOf ==
    ASSUME NEW r \in Requests
    PROVE  /\ Kind(r) \in Kinds
           /\ req[r].at = "openSession" => Busy(r) /\ Kind(r) = "signIn"
           /\ ChangesAddress(r) => Busy(r) /\ Kind(r) = "email"
           /\ req[r].at \in {"emailCheck", "emailUpdate"} => Busy(r) /\ Kind(r) = "email"
           /\ req[r].at \in {"invalidate", "insert"} =>
                 Busy(r) /\ Kind(r) \in Mailers(req[r].purpose)
           /\ req[r].at = "verifyMark" => Busy(r) /\ Kind(r) = "verify"
           /\ req[r].at = "resetUpdate" => Busy(r) /\ Kind(r) = "reset"
           /\ req[r].at = "changeUpdate" => Busy(r) /\ Kind(r) = "change"
           /\ req[r].at = "deleteCommit" => Busy(r) /\ Kind(r) = "delete"
<1>1. req[r].at \in Opening => Kind(r) = "signIn"
  BY DEF Kind, Opening, ChangesAddress
<1>2. req[r].at \notin Opening /\ ChangesAddress(r) => Kind(r) = "email"
  BY DEF Kind, Opening, ChangesAddress
<1>3. ChangesAddress(r) => req[r].at \notin Opening
  BY DEF Opening, ChangesAddress
<1>4. req[r].at \in {"invalidate", "insert"} /\ ~ChangesAddress(r) =>
         Kind(r) = IF req[r].purpose = "email_verification" THEN "resend" ELSE "forgot"
  BY DEF Kind, Opening
<1>5. req[r].at = "verifyMark" => Kind(r) = "verify"
  BY DEF Kind, Opening, ChangesAddress
<1>6. req[r].at = "resetUpdate" => Kind(r) = "reset"
  BY DEF Kind, Opening, ChangesAddress
<1>7. req[r].at = "changeUpdate" => Kind(r) = "change"
  BY DEF Kind, Opening, ChangesAddress
<1>8. req[r].at = "deleteCommit" => Kind(r) = "delete"
  BY DEF Kind, Opening, ChangesAddress
<1>9. Kind(r) \in Kinds
  BY DEF Kind, Kinds
<1>10. ChangesAddress(r) => Busy(r) /\ Kind(r) = "email"
  BY <1>2, <1>3 DEF Busy, ChangesAddress
<1>11. req[r].at \in {"emailCheck", "emailUpdate"} => ChangesAddress(r)
  BY DEF ChangesAddress
<1>12. req[r].at \in {"invalidate", "insert"} => Kind(r) \in Mailers(req[r].purpose)
  BY <1>4, <1>10 DEF Mailers, ChangesAddress
<1>13. QED
  BY <1>1, <1>5, <1>6, <1>7, <1>8, <1>9, <1>10, <1>11, <1>12 DEF Busy, Opening

\* Two requests that are running have overlapped.
LEMMA Beside ==
    ASSUME HistoryIsKept, NEW r \in Requests, NEW s \in Requests \ {r}, Busy(r), Busy(s)
    PROVE  ~Apart(Kind(r), Kind(s)) /\ ~Apart(Kind(s), Kind(r))
<1>1. {Kind(r), Kind(s)} \in Pairs
  BY KindOf DEF Pairs
<1>2. {Kind(r), Kind(s)} \in Overlaps
  BY <1>1 DEF Overlaps
<1>3. {Kind(r), Kind(s)} = {Kind(s), Kind(r)}
  OBVIOUS
<1>4. QED
  BY <1>2, <1>3 DEF HistoryIsKept, Apart

LEMMA HistoryStep == HistoryIsKept /\ [Next]_vars => HistoryIsKept'
<1>1. CASE UNCHANGED vars
  <2>1. Overlaps' = Overlaps
    BY <1>1 DEF vars, Overlaps, Busy, Kind, ChangesAddress
  <2>2. QED
    BY <1>1, <2>1 DEF vars, HistoryIsKept
<1>2. CASE Next
  BY <1>2 DEF Next, Track, HistoryIsKept
<1>3. QED
  BY <1>1, <1>2

\* A step of one request leaves the others where they are.
LEMMA OthersStay ==
    ASSUME TypeOK, NEW r \in Requests, Public(r) \/ Private(r) \/ Step(r) \/ Fail(r)
    PROVE  \A s \in Requests \ {r} : req'[s] = req[s]
  BY DEF TypeOK, Public, Private, Step, Fail, Begin, Goto, Finish, RegisterRead,
     LoginRead, ForgotRead, ResetConsume, VerifyConsume, ChangeBegin, EmailBegin,
     DeleteBegin, Authenticate, ResendBegin, RegisterCommit, RegisterDuplicate,
     OpenSession, Invalidate, Insert, CheckRefused, ResetUpdate, Revoke, ChangeCheck,
     CheckPassword, ChangeUpdate, EmailCheck, EmailUpdate, VerifyMark, DeleteCheck,
     DeleteRevoke, DeleteCommit

-------------------------------------------------------------------------------
(* What the other requests have read stays so *)

\* The conditions under which it does.
LEMMA StillSo ==
    ASSUME raced \subseteq raced', cutShort \subseteq cutShort',
           NEW s \in Requests, req'[s] = req[s], ActsOnNow(s),
           req[s].at = "openSession" /\ SignedInApart /\ user'.status = "active" =>
              user.status = "active" /\ user'.password = user.password,
           req[s].at = "insert" /\ MailedApart(req[s].purpose) =>
              \A t \in TokenId : token'[t].status = "live" /\ token'[t].purpose = req[s].purpose
                                    => token'[t] = token[t],
           /\ \/ req[s].at \in {"invalidate", "insert"} /\ req[s].purpose = "email_verification"
              \/ req[s].at = "verifyMark"
           /\ AddressChangedApart /\ user'.status = "active"
           => user.status = "active" /\ user'.email = user.email,
           req[s].at = "verifyMark" => token'[req[s].token].to = token[req[s].token].to,
           ChangesAddress(s) /\ Apart("email", "delete") /\ user'.status = "deleted" =>
              user.status = "deleted"
    PROVE  ActsOnNow(s)'
<1>1. /\ \A j, k : Apart(j, k)' => Apart(j, k)
      /\ SignedInApart' => SignedInApart
      /\ AddressChangedApart' => AddressChangedApart
      /\ \A purpose : MailedApart(purpose)' => MailedApart(purpose)
  BY ApartBefore
<1>2. ChangesAddress(s)' <=> ChangesAddress(s)
  BY DEF ChangesAddress
<1>3. req[s].at = "openSession" /\ user'.status = "active" /\ SignedInApart' =>
         req[s].password = user'.password
  BY <1>1 DEF ActsOnNow
<1>4. req[s].at = "insert" /\ MailedApart(req[s].purpose)' =>
         \A t \in TokenId : ~(token'[t].status = "live" /\ token'[t].purpose = req[s].purpose)
  BY <1>1 DEF ActsOnNow
<1>5. /\ req[s].at \in {"invalidate", "insert"} /\ req[s].purpose = "email_verification"
      /\ user'.status = "active" /\ AddressChangedApart'
      => req[s].email = user'.email
  BY <1>1 DEF ActsOnNow
<1>6. req[s].at = "verifyMark" /\ user'.status = "active" /\ AddressChangedApart' =>
         token'[req[s].token].to = user'.email
  BY <1>1 DEF ActsOnNow
<1>7. ChangesAddress(s) /\ Apart("email", "delete")' => user'.status # "deleted"
  BY <1>1 DEF ActsOnNow
<1>8. req[s].at \in {"emailCheck", "emailUpdate"} => req[s].password # 0
  BY DEF ActsOnNow
<1>9. QED
  BY <1>2, <1>3, <1>4, <1>5, <1>6, <1>7, <1>8 DEF ActsOnNow

\* A step of request r leaves what another has read as it is, unless the two
\* have overlapped in a way that the properties except.
LEMMA OthersAct ==
    ASSUME IInv, HistoryIsKept, raced \subseteq raced', cutShort \subseteq cutShort',
           NEW r \in Requests, Public(r) \/ Private(r) \/ Step(r) \/ Fail(r),
           NEW s \in Requests \ {r}, ActsOnNow(s)
    PROVE  ActsOnNow(s)'
<1>1. TypeOK /\ Unregistered /\ LinksHeldOnce
  BY DEF IInv
<1>2. req'[s] = req[s]
  BY <1>1, OthersStay
<1>3. req[s].at = "verifyMark" => /\ req[s].token \in TokenId
                                  /\ token[req[s].token].status = "used"
  BY <1>1 DEF LinksHeldOnce, Holding
<1>4. CASE user' = user /\ token' = token
  BY <1>2, <1>4, StillSo
<1>5. CASE user' = user /\ \A t \in TokenId : /\ token'[t].status = "live" => token'[t] = token[t]
                                             /\ token'[t].to = token[t].to
  BY <1>2, <1>3, <1>5, StillSo
<1>6. CASE Insert(r)
  <2>1. PICK t \in TokenId \ Mailed :
           /\ token'[t].purpose = req[r].purpose
           /\ \A u \in TokenId \ {t} : token'[u] = token[u]
    BY <1>1, <1>6 DEF Insert, TypeOK
  <2>2. user' = user /\ req[r].at = "insert"
    BY <1>6 DEF Insert
  <2>3. req[s].at = "verifyMark" => req[s].token # t
    BY <1>3 DEF Mailed
  <2>4. req[s].at = "insert" /\ req[s].purpose = req[r].purpose => ~MailedApart(req[s].purpose)
    BY <2>2, KindOf, Beside DEF MailedApart
  <2>5. QED
    BY <1>2, <1>3, <2>1, <2>2, <2>3, <2>4, StillSo
<1>7. CASE RegisterCommit(r)
  <2>1. req[s].at \in {"idle", "registerCommit"} /\ token' = token
    BY <1>1, <1>7 DEF RegisterCommit, Unregistered
  <2>2. ~ChangesAddress(s)
    BY <2>1 DEF ChangesAddress
  <2>3. QED
    BY <1>2, <2>1, <2>2, StillSo
<1>8. CASE ResetUpdate(r) \/ ChangeUpdate(r)
  <2>1. token' = token /\ user'.status = user.status /\ user'.email = user.email
    BY <1>1, <1>8 DEF ResetUpdate, ChangeUpdate, TypeOK
  <2>2. req[r].at \in {"resetUpdate", "changeUpdate"}
    BY <1>8 DEF ResetUpdate, ChangeUpdate
  <2>3. req[s].at = "openSession" => ~SignedInApart
    BY <2>2, KindOf, Beside DEF SignedInApart
  <2>4. QED
    BY <1>2, <2>1, <2>3, StillSo
<1>9. CASE EmailUpdate(r)
  <2>1. /\ token' = token /\ user'.status = user.status /\ user'.password = user.password
        /\ req[r].at = "emailUpdate"
    BY <1>1, <1>9 DEF EmailUpdate, TypeOK
  <2>2. req[s].at = "verifyMark" => ~Apart("email", "verify")
    BY <2>1, KindOf, Beside
  <2>3. req[s].at \in {"invalidate", "insert"} /\ req[s].purpose = "email_verification"
           => ~Apart("email", "email") \/ ~Apart("email", "resend")
    BY <2>1, KindOf, Beside DEF Mailers
  <2>4. QED
    BY <1>2, <2>1, <2>2, <2>3, StillSo DEF AddressChangedApart
<1>10. CASE VerifyMark(r)
  <2>1. /\ token' = token /\ user'.status = user.status /\ user'.password = user.password
        /\ user'.email = user.email
    BY <1>1, <1>10 DEF VerifyMark, TypeOK
  <2>2. QED
    BY <1>2, <2>1, StillSo
<1>11. CASE DeleteCommit(r)
  <2>1. token' = token /\ user'.status = "deleted" /\ req[r].at = "deleteCommit"
    BY <1>1, <1>11 DEF DeleteCommit, TypeOK
  <2>2. ChangesAddress(s) => ~Apart("email", "delete")
    BY <2>1, KindOf, Beside
  <2>3. QED
    BY <1>2, <2>1, <2>2, StillSo
<1>12. CASE Invalidate(r)
  <2>1. user' = user /\ \A t \in TokenId : /\ token'[t].status = "live" => token'[t] = token[t]
                                           /\ token'[t].to = token[t].to
    BY <1>1, <1>12 DEF Invalidate, TypeOK
  <2>2. QED
    BY <1>5, <2>1
<1>13. CASE ResetConsume(r) \/ VerifyConsume(r)
  <2>1. PICK t \in TokenId : token' = [token EXCEPT ![t].status = "used"] /\ user' = user
    BY <1>13 DEF ResetConsume, VerifyConsume, Consume
  <2>2. \A u \in TokenId : /\ token'[u].status = "live" => token'[u] = token[u]
                           /\ token'[u].to = token[u].to
    BY <1>1, <2>1 DEF TypeOK
  <2>3. QED
    BY <1>5, <2>1, <2>2
<1>14. CASE Fail(r)
  BY <1>4, <1>14 DEF Fail, tables
<1>15. QED
  <2>1. CASE Public(r) \/ Private(r) \/ Step(r)
    <3>1. user' = user \/ token' = token
      BY <2>1, Changes DEF Invalidate, Insert, ResetConsume, VerifyConsume
    <3>2. QED
      BY <1>4, <1>6, <1>7, <1>8, <1>9, <1>10, <1>11, <1>12, <1>13, <2>1, <3>1, Changes
  <2>2. QED
    BY <1>14, <2>1

-------------------------------------------------------------------------------
(* What a request has read stays so from one of its steps to the next *)

LEMMA OwnAct ==
    ASSUME IInv, HistoryIsKept', TablesHold, raced \subseteq raced', cutShort \subseteq cutShort',
           NEW r \in Requests, ActsOnNow(r), Public(r) \/ Private(r) \/ Step(r) \/ Fail(r)
    PROVE  ActsOnNow(r)'
<1>1. TypeOK
  BY DEF IInv
<1>2. \A q : Begin(r, q) => req'[r] = q /\ req[r].at = "idle"
  BY <1>1 DEF Begin, TypeOK
<1>3. \A step : Goto(r, step) => req'[r] = [req[r] EXCEPT !.at = step]
  BY <1>1 DEF Goto, TypeOK
<1>4. req[r] \in Request
  BY <1>1 DEF TypeOK
<1>5. ASSUME req'[r].at \notin {"openSession", "invalidate", "insert", "verifyMark",
                                "emailCheck", "emailUpdate"}
      PROVE  ActsOnNow(r)'
  BY <1>5 DEF ActsOnNow, ChangesAddress
<1>6. CASE RegisterRead(r) \/ ResetConsume(r)
  <2>1. CASE RegisterRead(r)
    <3>1. PICK a : req'[r] = [Idle EXCEPT !.at = "registerCommit", !.email = a]
      BY <1>2, <2>1 DEF RegisterRead
    <3>2. QED
      BY <1>5, <3>1 DEF Idle
  <2>2. CASE ResetConsume(r)
    <3>1. PICK t : req'[r] = [Idle EXCEPT !.at = "resetUpdate", !.token = t]
      BY <1>2, <2>2 DEF ResetConsume
    <3>2. QED
      BY <1>5, <3>1 DEF Idle
  <2>3. QED
    BY <1>6, <2>1, <2>2
<1>7. CASE ForgotRead(r)
  <2>1. req'[r].at = "invalidate" /\ req'[r].purpose = "password_reset"
    BY <1>1, <1>7 DEF ForgotRead, Begin, Idle, TypeOK
  <2>2. QED
    BY <2>1 DEF ActsOnNow, ChangesAddress
<1>8. CASE LoginRead(r)
  <2>1. req'[r].at = "openSession" /\ req'[r].password = user.password /\ user' = user
    BY <1>1, <1>8 DEF LoginRead, Begin, Idle, tables, TypeOK
  <2>2. QED
    BY <2>1 DEF ActsOnNow, ChangesAddress
<1>9. CASE VerifyConsume(r)
  <2>1. PICK t \in TokenId : /\ Consume(t, "email_verification")
                             /\ Begin(r, [Idle EXCEPT !.at = "verifyMark", !.token = t])
    BY <1>9 DEF VerifyConsume
  <2>2. user' = user /\ req'[r].at = "verifyMark" /\ req'[r].token = t /\ req[r].at = "idle"
    BY <1>1, <1>9, <2>1 DEF VerifyConsume, Begin, Idle, TypeOK
  <2>3. token'[t].to = token[t].to
    BY <1>1, <2>1 DEF Consume, TypeOK
  <2>4. ASSUME user.status = "active", AddressChangedApart'
        PROVE  token[t].to = user.email
    <3>1. AddressChangedApart /\ Apart("email", "verify")'
      BY <2>4, ApartBefore DEF AddressChangedApart
    <3>2. ASSUME NEW s \in Requests, req[s].at = "invalidate", ChangesAddress(s)
          PROVE  FALSE
      <4>1. s # r /\ req'[s] = req[s]
        BY <1>1, <1>9, <2>2, <3>2, OthersStay DEF Public
      <4>2. Busy(r)' /\ Kind(r)' = "verify"
        BY <2>2 DEF Busy, Kind, Opening, ChangesAddress
      <4>3. Busy(s)' /\ Kind(s)' = "email"
        <5>1. Busy(s) /\ Kind(s) = "email"
          BY <3>2, KindOf
        <5>2. QED
          BY <4>1, <5>1 DEF Busy, Kind, ChangesAddress
      <4>4. {"email", "verify"} \in Overlaps'
        <5>1. {"email", "verify"} \in Pairs
          BY DEF Pairs, Kinds
        <5>2. QED
          BY <4>1, <4>2, <4>3, <5>1 DEF Overlaps
      <4>5. QED
        BY <3>1, <4>4 DEF HistoryIsKept, Apart
    <3>3. QED
      BY <2>1, <2>4, <3>1, <3>2 DEF TablesHold, LiveLinksFit, Consume
  <2>5. QED
    BY <2>2, <2>3, <2>4 DEF ActsOnNow, ChangesAddress
<1>10. CASE ChangeBegin(r) \/ EmailBegin(r) \/ DeleteBegin(r)
  <2>1. ASSUME NEW s \in SessionId, NEW step \in CheckSteps, NEW email \in Mailboxes,
               Authenticate(r, s, step, email)
        PROVE  ActsOnNow(r)'
    <3>1. PICK p \in 1..user.password :
             Begin(r, [Idle EXCEPT !.at = step, !.session = s, !.email = email, !.password = p])
      BY <2>1 DEF Authenticate
    <3>2. req'[r] = [Idle EXCEPT !.at = step, !.session = s, !.email = email, !.password = p]
      BY <1>2, <3>1
    <3>3. req'[r].at \in CheckSteps /\ req'[r].password # 0
      BY <3>2 DEF Idle
    <3>4. user' = user /\ user.status = "active"
      BY <2>1 DEF Authenticate, SignedIn, tables
    <3>5. QED
      BY <3>3, <3>4 DEF ActsOnNow, CheckSteps
  <2>2. /\ {"changeCheck", "emailCheck", "deleteCheck"} \subseteq CheckSteps
        /\ "none" \in Mailboxes /\ Addresses \subseteq Mailboxes
    BY DEF CheckSteps, Mailboxes
  <2>3. QED
    BY <1>10, <2>1, <2>2 DEF ChangeBegin, EmailBegin, DeleteBegin
<1>11. CASE ResendBegin(r)
  <2>1. /\ req'[r].at = "invalidate" /\ req'[r].email = user.email /\ req'[r].password = 0
        /\ user' = user
    BY <1>1, <1>11 DEF ResendBegin, Begin, Idle, tables, TypeOK
  <2>2. QED
    BY <2>1 DEF ActsOnNow, ChangesAddress
<1>12. CASE RegisterDuplicate(r) \/ OpenSession(r) \/ Insert(r) \/ CheckRefused(r)
           \/ Revoke(r) \/ VerifyMark(r) \/ DeleteCommit(r) \/ Fail(r)
  <2>1. req'[r].at = "idle"
    BY <1>1, <1>12 DEF RegisterDuplicate, OpenSession, Insert, CheckRefused, Revoke,
       VerifyMark, DeleteCommit, Fail, Finish, Idle, TypeOK
  <2>2. QED
    BY <1>5, <2>1
<1>13. CASE RegisterCommit(r)
  <2>1. req'[r].at = "openSession" /\ req'[r].password = 1 /\ user'.password = 1
    BY <1>1, <1>13 DEF RegisterCommit, TypeOK
  <2>2. QED
    BY <2>1 DEF ActsOnNow, ChangesAddress
<1>14. CASE Invalidate(r)
  <2>1. user' = user /\ req'[r] = [req[r] EXCEPT !.at = "insert"] /\ req[r].at = "invalidate"
    BY <1>3, <1>14 DEF Invalidate
  <2>2. /\ req'[r].at = "insert" /\ req'[r].purpose = req[r].purpose
        /\ req'[r].email = req[r].email /\ req'[r].password = req[r].password
    BY <1>4, <2>1 DEF Request
  <2>3. \A t \in TokenId : ~(token'[t].status = "live" /\ token'[t].purpose = req[r].purpose)
    BY <1>1, <1>14 DEF Invalidate, TypeOK
  <2>4. ChangesAddress(r)' => ChangesAddress(r)
    BY <2>1, <2>2 DEF ChangesAddress
  <2>5. QED
    BY <2>1, <2>2, <2>3, <2>4, ApartBefore DEF ActsOnNow
<1>15. CASE ResetUpdate(r) \/ ChangeUpdate(r)
  <2>1. req'[r].at = "revoke"
    <3>1. CASE ResetUpdate(r)
      BY <1>1, <3>1 DEF ResetUpdate, TypeOK, Request
    <3>2. CASE ChangeUpdate(r)
      BY <1>1, <3>2 DEF ChangeUpdate, TypeOK, Request
    <3>3. QED
      BY <1>15, <3>1, <3>2
  <2>2. QED
    BY <1>5, <2>1
<1>16. CASE ChangeCheck(r) \/ DeleteCheck(r) \/ DeleteRevoke(r)
  <2>1. req'[r].at \in {"changeUpdate", "deleteRevoke", "deleteCommit"}
    <3>1. ASSUME NEW step, NEW next, CheckPassword(r, step, next)
          PROVE  req'[r].at = next
      <4>1. req'[r] = [req[r] EXCEPT !.at = next]
        BY <1>3, <3>1 DEF CheckPassword
      <4>2. QED
        BY <1>4, <4>1 DEF Request
    <3>2. CASE DeleteRevoke(r)
      BY <1>1, <3>2 DEF DeleteRevoke, TypeOK
    <3>3. QED
      BY <1>16, <3>1, <3>2 DEF ChangeCheck, DeleteCheck
  <2>2. QED
    BY <1>5, <2>1
<1>17. CASE EmailCheck(r)
  <2>1. user' = user /\ req[r].at = "emailCheck" /\ req'[r] = [req[r] EXCEPT !.at = "emailUpdate"]
    BY <1>3, <1>17 DEF EmailCheck, CheckPassword, tables
  <2>2. req'[r].at = "emailUpdate" /\ req'[r].password = req[r].password
    BY <1>4, <2>1 DEF Request
  <2>3. ChangesAddress(r)
    BY <2>1 DEF ChangesAddress
  <2>4. QED
    BY <2>1, <2>2, <2>3, ApartBefore DEF ActsOnNow
<1>18. CASE EmailUpdate(r)
  <2>1. /\ req[r].at = "emailUpdate" /\ user'.email = req[r].email /\ user'.status = user.status
    BY <1>1, <1>18 DEF EmailUpdate, TypeOK
  <2>2. req'[r].at = "invalidate" /\ req'[r].email = req[r].email
    BY <1>1, <1>4, <1>18 DEF EmailUpdate, TypeOK, Request
  <2>3. ChangesAddress(r)
    BY <2>1 DEF ChangesAddress
  <2>4. QED
    BY <2>1, <2>2, <2>3, ApartBefore DEF ActsOnNow
<1>19. QED
  BY <1>6, <1>7, <1>8, <1>9, <1>10, <1>11, <1>12, <1>13, <1>14, <1>15, <1>16, <1>17, <1>18
     DEF Public, Private, Step

-------------------------------------------------------------------------------
(* The rules about rows *)

LEMMA SessionsFitStep ==
    ASSUME IInv, TablesHold, raced \subseteq raced', NEW r \in Requests, ActsOnNow(r),
           Public(r) \/ Private(r) \/ Step(r)
    PROVE  SessionsFit'
<1>1. TypeOK /\ Unregistered /\ SessionsFit /\ (SignedInApart' => SignedInApart)
  BY DEF IInv, TablesHold, SignedInApart, Apart
<1>2. ASSUME user'.status = "active" => user.status = "active",
             \A s \in SessionId : session'[s].status = "live" => session'[s] = session[s]
      PROVE  SessionsFit'
  BY <1>1, <1>2 DEF SessionsFit
<1>3. CASE RegisterCommit(r)
  BY <1>1, <1>3 DEF RegisterCommit, Unregistered, Opened, SessionsFit
<1>4. CASE OpenSession(r)
  <2>1. PICK s \in SessionId :
           session' = [session EXCEPT ![s] = [status |-> "live", password |-> req[r].password,
                                              asOf |-> user.password]]
    BY <1>4 DEF OpenSession
  <2>2. /\ session'[s].password = req[r].password /\ session'[s].asOf = user.password
        /\ \A t \in SessionId \ {s} : session'[t] = session[t]
    BY <1>1, <2>1 DEF TypeOK
  <2>3. user' = user /\ req[r].at = "openSession"
    BY <1>4 DEF OpenSession
  <2>4. user.status = "active" /\ SignedInApart => req[r].password = user.password
    BY <2>3 DEF ActsOnNow
  <2>5. QED
    BY <1>1, <2>2, <2>3, <2>4 DEF SessionsFit
<1>5. CASE ChangeUpdate(r)
  <2> DEFINE own == req[r].session
             next == user.password + 1
  <2>1. /\ session' = [session EXCEPT ![own].password = next, ![own].asOf = next]
        /\ user'.status = user.status
    BY <1>1, <1>5 DEF ChangeUpdate, TypeOK
  <2> HIDE DEF own, next
  <2>2. \A s \in SessionId : \/ session'[s] = session[s]
                             \/ session'[s].asOf = session'[s].password
    BY <1>1, <2>1 DEF TypeOK
  <2>3. QED
    BY <1>1, <2>1, <2>2 DEF SessionsFit
<1>6. CASE Revoke(r) \/ DeleteCommit(r)
  <2>1. \A s \in SessionId : session'[s].status = "live" => session'[s] = session[s]
    BY <1>1, <1>6 DEF Revoke, DeleteCommit, RevokedIn, TypeOK
  <2>2. user' = user \/ user'.status = "deleted"
    BY <1>1, <1>6 DEF Revoke, DeleteCommit, TypeOK
  <2>3. QED
    BY <1>2, <2>1, <2>2
<1>7. CASE ResetUpdate(r) \/ EmailUpdate(r) \/ VerifyMark(r)
  <2>1. user'.status = user.status /\ session' = session
    BY <1>1, <1>7 DEF ResetUpdate, EmailUpdate, VerifyMark, TypeOK
  <2>2. QED
    BY <1>2, <2>1
<1>8. QED
  <2>1. CASE user' = user /\ session' = session
    BY <1>2, <2>1
  <2>2. QED
    BY <1>3, <1>4, <1>5, <1>6, <1>7, <2>1, Changes

LEMMA NewestLinkStep ==
    ASSUME IInv, NewestLinkOnly, raced \subseteq raced', NEW r \in Requests, ActsOnNow(r),
           Public(r) \/ Private(r) \/ Step(r)
    PROVE  NewestLinkOnly'
<1>1. TypeOK /\ \A purpose : MailedApart(purpose)' => MailedApart(purpose)
  BY DEF IInv, MailedApart, Mailers, Apart
<1>2. ASSUME \A t \in TokenId : token'[t].status = "live" => token'[t] = token[t]
      PROVE  NewestLinkOnly'
  BY <1>1, <1>2 DEF NewestLinkOnly
<1>3. CASE Insert(r)
  <2>1. PICK t \in TokenId :
              /\ token'[t] = [status |-> "live", purpose |-> req[r].purpose, to |-> req[r].email]
              /\ \A u \in TokenId \ {t} : token'[u] = token[u]
    BY <1>1, <1>3, Inserted
  <2>2. MailedApart(req[r].purpose) =>
           \A u \in TokenId : ~(token[u].status = "live" /\ token[u].purpose = req[r].purpose)
    BY <1>3 DEF ActsOnNow, Insert
  <2>3. QED
    BY <1>1, <2>1, <2>2 DEF NewestLinkOnly
<1>4. CASE Invalidate(r)
  <2>1. \A t \in TokenId : token'[t].status = "live" => token'[t] = token[t]
    BY <1>1, <1>4 DEF Invalidate, TypeOK
  <2>2. QED
    BY <1>2, <2>1
<1>5. QED
  BY <1>1, <1>2, <1>3, <1>4, Changes, Consumed

LEMMA LiveLinksStep ==
    ASSUME IInv, TablesHold, raced \subseteq raced', cutShort \subseteq cutShort',
           NEW r \in Requests, ActsOnNow(r), Public(r) \/ Private(r) \/ Step(r)
    PROVE  LiveLinksFit'
<1>1. /\ TypeOK /\ Unregistered /\ LiveLinksFit
      /\ AddressChangedApart' => AddressChangedApart
  BY ApartBefore DEF IInv, TablesHold
<1>2. \A s \in Requests \ {r} : /\ req'[s] = req[s]
                                /\ ChangesAddress(s) => ChangesAddress(s)'
  BY <1>1, OthersStay DEF ChangesAddress
<1>3. ASSUME user'.status = "active" => user.status = "active" /\ user'.email = user.email,
             \A t \in TokenId : token'[t].status = "live" => token'[t] = token[t],
             req[r].at # "invalidate"
      PROVE  LiveLinksFit'
  BY <1>1, <1>2, <1>3 DEF LiveLinksFit
<1>4. CASE Invalidate(r)
  <2>1. /\ user' = user
        /\ \A t \in TokenId :
              token'[t].status = "live" => token'[t] = token[t] /\ token[t].purpose # req[r].purpose
    BY <1>1, <1>4 DEF Invalidate, TypeOK
  <2>2. ASSUME req[r].purpose = "email_verification"
        PROVE  LiveLinksFit'
    BY <2>1, <2>2 DEF LiveLinksFit
  <2>3. ASSUME req[r].purpose # "email_verification"
        PROVE  LiveLinksFit'
    <3>1. req[r].at = "invalidate" => ~ChangesAddress(r)
      BY <2>3 DEF ChangesAddress
    <3>2. QED
      BY <1>1, <1>2, <2>1, <3>1 DEF LiveLinksFit
  <2>4. QED
    BY <2>2, <2>3
<1>5. CASE Insert(r)
  <2>1. PICK t \in TokenId :
              /\ token'[t] = [status |-> "live", purpose |-> req[r].purpose, to |-> req[r].email]
              /\ \A u \in TokenId \ {t} : token'[u] = token[u]
    BY <1>1, <1>5, Inserted
  <2>2. user' = user /\ req[r].at = "insert"
    BY <1>5 DEF Insert
  <2>3. /\ req[r].purpose = "email_verification" /\ user.status = "active"
        /\ AddressChangedApart
        => req[r].email = user.email
    BY <2>2 DEF ActsOnNow
  <2>4. QED
    BY <1>1, <1>2, <2>1, <2>2, <2>3 DEF LiveLinksFit
<1>6. CASE ResetConsume(r) \/ VerifyConsume(r)
  <2>1. user' = user /\ req[r].at # "invalidate"
    BY <1>6 DEF ResetConsume, VerifyConsume, Begin
  <2>2. QED
    BY <1>1, <1>3, <1>6, <2>1, Consumed
<1>7. CASE RegisterCommit(r)
  BY <1>1, <1>7 DEF RegisterCommit, Unregistered, Mailed, LiveLinksFit
<1>8. CASE EmailUpdate(r)
  <2>1. /\ req'[r].at = "invalidate" /\ req'[r].purpose = "email_verification"
        /\ req'[r].password = req[r].password /\ req[r].at = "emailUpdate"
    BY <1>1, <1>8 DEF EmailUpdate, TypeOK, Request
  <2>2. req[r].password # 0
    BY <2>1 DEF ActsOnNow
  <2>3. QED
    BY <2>1, <2>2 DEF LiveLinksFit, ChangesAddress
<1>9. CASE ResetUpdate(r) \/ ChangeUpdate(r) \/ VerifyMark(r) \/ DeleteCommit(r)
  <2>1. /\ token' = token /\ req[r].at # "invalidate"
        /\ user'.status = "active" => user.status = "active" /\ user'.email = user.email
    BY <1>1, <1>9 DEF ResetUpdate, ChangeUpdate, VerifyMark, DeleteCommit, TypeOK
  <2>2. QED
    BY <1>3, <2>1
<1>10. QED
  BY <1>3, <1>4, <1>5, <1>6, <1>7, <1>8, <1>9, Changes

LEMMA VerifiedStep ==
    ASSUME IInv, VerifiedAddressIsProven, raced \subseteq raced', cutShort \subseteq cutShort',
           NEW r \in Requests, ActsOnNow(r), Public(r) \/ Private(r) \/ Step(r)
    PROVE  VerifiedAddressIsProven'
<1>1. TypeOK /\ (AddressChangedApart' => AddressChangedApart)
  BY ApartBefore DEF IInv
<1>2. CASE user' = user /\ proven' = proven
  BY <1>1, <1>2 DEF VerifiedAddressIsProven
<1>3. CASE RegisterCommit(r)
  BY <1>3 DEF RegisterCommit, VerifiedAddressIsProven
<1>4. CASE EmailUpdate(r)
  BY <1>1, <1>4 DEF EmailUpdate, VerifiedAddressIsProven, TypeOK
<1>5. CASE DeleteCommit(r)
  BY <1>1, <1>5 DEF DeleteCommit, VerifiedAddressIsProven, TypeOK
<1>6. CASE ResetUpdate(r) \/ ChangeUpdate(r)
  <2>1. /\ proven' = proven /\ user'.status = user.status
        /\ user'.email = user.email /\ user'.verified = user.verified
    BY <1>1, <1>6 DEF ResetUpdate, ChangeUpdate, TypeOK
  <2>2. QED
    BY <1>1, <2>1 DEF VerifiedAddressIsProven
<1>7. CASE VerifyMark(r)
  <2>1. /\ proven' = token[req[r].token].to /\ req[r].at = "verifyMark"
        /\ user'.status = user.status /\ user'.email = user.email
    BY <1>1, <1>7 DEF VerifyMark, TypeOK
  <2>2. QED
    BY <1>1, <2>1 DEF ActsOnNow, VerifiedAddressIsProven
<1>8. QED
  BY <1>2, <1>3, <1>4, <1>5, <1>6, <1>7, Changes

LEMMA DeletionStep ==
    ASSUME IInv, DeletionIsFinal, raced \subseteq raced', NEW r \in Requests, ActsOnNow(r),
           Public(r) \/ Private(r) \/ Step(r)
    PROVE  DeletionIsFinal'
<1>1. TypeOK /\ (Apart("email", "delete")' => Apart("email", "delete"))
  BY DEF IInv, Apart
<1>2. CASE user' = user
  BY <1>1, <1>2 DEF DeletionIsFinal
<1>3. CASE RegisterCommit(r)
  BY <1>3 DEF RegisterCommit, DeletionIsFinal
<1>4. CASE EmailUpdate(r)
  <2>1. ChangesAddress(r) /\ user'.status = user.status
    BY <1>1, <1>4 DEF EmailUpdate, ChangesAddress, TypeOK
  <2>2. QED
    BY <1>1, <2>1 DEF ActsOnNow, DeletionIsFinal
<1>5. CASE DeleteCommit(r)
  BY <1>1, <1>5 DEF DeleteCommit, TypeOK, DeletionIsFinal
<1>6. CASE ResetUpdate(r) \/ ChangeUpdate(r) \/ VerifyMark(r)
  <2>1. user'.status = user.status /\ user'.email = user.email
    BY <1>1, <1>6 DEF ResetUpdate, ChangeUpdate, VerifyMark, TypeOK
  <2>2. QED
    BY <1>1, <2>1 DEF DeletionIsFinal
<1>7. QED
  BY <1>2, <1>3, <1>4, <1>5, <1>6, Changes

\* A request that fails changes no row; what it leaves undone is on record.
LEMMA TablesAtFailure ==
    ASSUME IInv, TablesHold, raced \subseteq raced', NEW r \in Requests, Fail(r)
    PROVE  TablesHold'
<1>1. /\ TypeOK /\ user' = user /\ session' = session /\ token' = token /\ proven' = proven
      /\ cutShort' = cutShort \union LeftUndone(r)
  BY DEF IInv, Fail, tables
<1>2. /\ \A j, k : Apart(j, k)' => Apart(j, k)
      /\ SignedInApart' => SignedInApart
      /\ AddressChangedApart' => AddressChangedApart
      /\ \A purpose : MailedApart(purpose)' => MailedApart(purpose)
  BY <1>1, ApartBefore
<1>3. SessionsFit' /\ NewestLinkOnly' /\ VerifiedAddressIsProven' /\ DeletionIsFinal'
  BY <1>1, <1>2 DEF TablesHold, SessionsFit, NewestLinkOnly, VerifiedAddressIsProven,
     DeletionIsFinal
<1>4. LiveLinksFit'
  <2>1. \A s \in Requests \ {r} : /\ req'[s] = req[s]
                                  /\ ChangesAddress(s) => ChangesAddress(s)'
    BY <1>1, OthersStay DEF ChangesAddress
  <2>2. AddressChangedApart' => ~(req[r].at = "invalidate" /\ ChangesAddress(r))
    BY <1>1 DEF AddressChangedApart, LeftUndone
  <2>3. QED
    BY <1>1, <1>2, <2>1, <2>2 DEF TablesHold, LiveLinksFit
<1>5. QED
  BY <1>3, <1>4 DEF TablesHold

\* Sessions that are signed out, and sessions and links that expire.
LEMMA ClockStep ==
    ASSUME IInv, RaceInv, HistoryIsKept', raced \subseteq raced', cutShort \subseteq cutShort',
           \/ \E s \in SessionId : Logout(s) \/ ExpireSession(s)
           \/ \E t \in TokenId : ExpireToken(t)
    PROVE  RaceInv'
<1>1. TypeOK /\ TablesHold /\ \A r \in Requests : ActsOnNow(r)
  BY DEF IInv, RaceInv
<1>2. /\ user' = user /\ req' = req /\ proven' = proven
      /\ \A s \in SessionId : session'[s].status = "live" => session'[s] = session[s]
      /\ \A t \in TokenId : /\ token'[t].status = "live" => token'[t] = token[t]
                            /\ token'[t].to = token[t].to
  <2>1. CASE \E s \in SessionId : Logout(s) \/ ExpireSession(s)
    BY <1>1, <2>1 DEF Logout, ExpireSession, TypeOK
  <2>2. CASE \E t \in TokenId : ExpireToken(t)
    BY <1>1, <2>2 DEF ExpireToken, TypeOK
  <2>3. QED
    BY <2>1, <2>2
<1>3. ASSUME NEW r \in Requests
      PROVE  ActsOnNow(r)'
  <2>1. req[r].at = "verifyMark" => req[r].token \in TokenId
    BY DEF IInv, LinksHeldOnce, Holding
  <2>2. QED
    BY <1>1, <1>2, <2>1, StillSo
<1>4. /\ \A j, k : Apart(j, k)' => Apart(j, k)
      /\ SignedInApart' => SignedInApart
      /\ AddressChangedApart' => AddressChangedApart
      /\ \A purpose : MailedApart(purpose)' => MailedApart(purpose)
  BY ApartBefore
<1>5. SessionsFit' /\ NewestLinkOnly' /\ VerifiedAddressIsProven' /\ DeletionIsFinal'
  BY <1>1, <1>2, <1>4 DEF TablesHold, SessionsFit, NewestLinkOnly, VerifiedAddressIsProven,
     DeletionIsFinal
<1>6. LiveLinksFit'
  <2>1. \A r \in Requests : ChangesAddress(r)' <=> ChangesAddress(r)
    BY <1>2 DEF ChangesAddress
  <2>2. QED
    BY <1>1, <1>2, <1>4, <2>1 DEF TablesHold, LiveLinksFit
<1>7. QED
  BY <1>3, <1>5, <1>6 DEF RaceInv, TablesHold

LEMMA RaceStep ==
    ASSUME IInv, RaceInv, [Next]_vars
    PROVE  RaceInv'
<1>1. /\ raced \subseteq raced' /\ cutShort \subseteq cutShort' /\ HistoryIsKept'
      /\ HistoryIsKept /\ TablesHold /\ \A r \in Requests : ActsOnNow(r)
  BY HistoryGrows, HistoryStep DEF IInv, RaceInv
<1>2. CASE UNCHANGED vars
  BY <1>1, <1>2 DEF vars, RaceInv, TablesHold, SessionsFit, LiveLinksFit, NewestLinkOnly,
     VerifiedAddressIsProven, DeletionIsFinal, ActsOnNow, ChangesAddress, Apart,
     SignedInApart, AddressChangedApart, MailedApart
<1>3. ASSUME NEW r \in Requests, Public(r) \/ Private(r) \/ Step(r) \/ Fail(r)
      PROVE  RaceInv'
  <2>1. \A s \in Requests : ActsOnNow(s)'
    BY <1>1, <1>3, OthersAct, OwnAct
  <2>2. CASE Public(r) \/ Private(r) \/ Step(r)
    <3>1. NewestLinkOnly /\ VerifiedAddressIsProven /\ DeletionIsFinal
      BY <1>1 DEF TablesHold
    <3>2. TablesHold'
      BY <1>1, <2>2, <3>1, SessionsFitStep, NewestLinkStep, LiveLinksStep, VerifiedStep,
         DeletionStep DEF TablesHold
    <3>3. QED
      BY <1>1, <2>1, <3>2 DEF RaceInv
  <2>3. CASE Fail(r)
    BY <1>1, <2>1, <2>3, TablesAtFailure DEF RaceInv
  <2>4. QED
    BY <1>3, <2>2, <2>3
<1>4. CASE \/ \E s \in SessionId : Logout(s) \/ ExpireSession(s)
           \/ \E t \in TokenId : ExpireToken(t)
  BY <1>1, <1>4, ClockStep
<1>5. QED
  BY <1>2, <1>3, <1>4 DEF Next, Run

\* Whatever overlaps and wherever requests fail, a handler acts on what is still
\* so, and the rules about rows hold, except for what the pairs of handlers that
\* have overlapped, and the failures before a statement that matters, can break.
THEOREM RaceInvariantHolds == Spec => []RaceInv
<1>1. Init => RaceInv
  BY DEF Init, RaceInv, HistoryIsKept, Overlaps, Busy, Idle, TablesHold, SessionsFit,
     LiveLinksFit, NewestLinkOnly, VerifiedAddressIsProven, DeletionIsFinal, ActsOnNow,
     ChangesAddress
<1>2. IInv /\ RaceInv /\ [Next]_vars => RaceInv'
  BY RaceStep
<1>3. QED
  BY <1>1, <1>2, InvariantHolds, PTL DEF Spec

\* A change of password leaves no session of the earlier one: unless a sign-in
\* overlapped a reset or a change, every session was opened with the password
\* there was, and those end with the request that changed it.
THEOREM SessionsCut == Spec => []SessionsEndWithPassword
<1>1. PriorSessionsEnd /\ RaceInv => SessionsEndWithPassword
  BY DEF PriorSessionsEnd, RaceInv, TablesHold, SessionsFit, SignedInApart,
     SessionsEndWithPassword
<1>2. QED
  BY <1>1, PriorSessionsCut, RaceInvariantHolds, PTL

\* Of the links of a purpose only the newest works, unless two requests for
\* links of that purpose overlapped.
THEOREM OnlyNewestLink == Spec => []NewestLinkOnly
<1>1. RaceInv => NewestLinkOnly
  BY DEF RaceInv, TablesHold
<1>2. QED
  BY <1>1, RaceInvariantHolds, PTL

\* An address shown as verified is one whose mailbox was reached, unless a
\* change of address overlapped another, a resend or a verification, or failed
\* before it invalidated the earlier links.
THEOREM VerifiedIsProven == Spec => []VerifiedAddressIsProven
<1>1. RaceInv => VerifiedAddressIsProven
  BY DEF RaceInv, TablesHold
<1>2. QED
  BY <1>1, RaceInvariantHolds, PTL

\* A deleted account stays without an address, unless a change of address
\* overlapped its deletion.
THEOREM DeletedForGood == Spec => []DeletionIsFinal
<1>1. RaceInv => DeletionIsFinal
  BY DEF RaceInv, TablesHold
<1>2. QED
  BY <1>1, RaceInvariantHolds, PTL

\* With one request at a time the only exceptions left are the two failures:
\* before the sessions are revoked, and before the links to an earlier address
\* are invalidated.
THEOREM OneAtATime ==
    ASSUME \A r, q \in Requests : r = q
    PROVE  Spec =>
              [](/\ user.status = "active" /\ "revoke" \notin cutShort =>
                       \A s \in SessionId : session[s].status = "live" =>
                          \/ session[s].password = user.password
                          \/ \E r \in Requests : req[r].at = "revoke" /\ s \in req[r].revoke
                 /\ \A t, u \in TokenId :
                       /\ token[t].status = "live" /\ token[u].status = "live"
                       /\ token[t].purpose = token[u].purpose
                       => t = u
                 /\ user.status = "active" /\ user.verified /\ "invalidate" \notin cutShort =>
                       proven = user.email
                 /\ user.status = "deleted" => user.email = Tombstone)
<1>1. Init => raced = {}
  BY DEF Init
<1>2. raced = {} /\ [Next]_vars => (raced = {})'
  <2>1. Overlaps' = {}
    BY DEF Overlaps
  <2>2. QED
    BY <2>1 DEF Next, Track, vars
<1>3. raced = {} =>
         /\ \A j, k : Apart(j, k)
         /\ \A purpose : MailedApart(purpose)
  BY DEF Apart, MailedApart
<1>4. raced = {} /\ SessionsEndWithPassword =>
         (user.status = "active" /\ "revoke" \notin cutShort =>
             \A s \in SessionId : session[s].status = "live" =>
                \/ session[s].password = user.password
                \/ \E r \in Requests : req[r].at = "revoke" /\ s \in req[r].revoke)
  BY <1>3 DEF SessionsEndWithPassword
<1>5. raced = {} /\ NewestLinkOnly =>
         \A t, u \in TokenId :
            /\ token[t].status = "live" /\ token[u].status = "live"
            /\ token[t].purpose = token[u].purpose
            => t = u
  BY <1>3 DEF NewestLinkOnly
<1>6. raced = {} /\ VerifiedAddressIsProven /\ DeletionIsFinal =>
         /\ user.status = "active" /\ user.verified /\ "invalidate" \notin cutShort =>
               proven = user.email
         /\ user.status = "deleted" => user.email = Tombstone
  BY <1>3 DEF VerifiedAddressIsProven, AddressChangedApart, DeletionIsFinal
<1>7. Spec => [](raced = {})
  BY <1>1, <1>2, PTL DEF Spec
<1>8. QED
  BY <1>4, <1>5, <1>6, <1>7, SessionsCut, OnlyNewestLink, VerifiedIsProven, DeletedForGood, PTL
=============================================================================
