---------------------------- MODULE Workspace_proofs ----------------------------
(***************************************************************************)
(* Proofs about Workspace for any requests, users and limits: the          *)
(* inductive invariant, that every member was invited, that joining uses up*)
(* a pending invitation and that invitations are answered once; and that   *)
(* the rules which count rows hold but for what the pairs of handlers that *)
(* have overlapped can break.                                              *)
(***************************************************************************)
EXTENDS Workspace, FiniteSetTheorems, TLAPS

USE WorkspaceAssumption DEF WorkspaceAssumption

-------------------------------------------------------------------------------
(* Requests *)

LEMMA IdleType == Idle \in Request
  BY DEF Idle, Request, Places, Unread, InvitedRoles

\* What a request that moves to q has to bring along.
Fits(q) ==
    /\ q \in Request
    /\ q.at = "accept" =>
          /\ q.invitation \in InvitationId
          /\ org = "active" => /\ invite[q.invitation].status # "none"
                               /\ invite[q.invitation].to = q.by
    /\ q.at = "revoke" => q.invitation \in InvitationId

LEMMA MoveType ==
    ASSUME TypeOK, NEW r \in Requests, NEW q \in Request, req' = [req EXCEPT ![r] = q]
    PROVE  /\ req' \in [Requests -> Request]
           /\ req'[r] = q
           /\ \A s \in Requests \ {r} : req'[s] = req[s]
  BY DEF TypeOK

\* A step that leaves the tables alone.
LEMMA QuietStep ==
    ASSUME IInv, NEW r \in Requests, NEW q, Fits(q), req' = [req EXCEPT ![r] = q],
           UNCHANGED tables
    PROVE  IInv'
<1>1. /\ req' \in [Requests -> Request] /\ req'[r] = q
      /\ \A s \in Requests \ {r} : req'[s] = req[s]
  BY MoveType DEF IInv, Fits
<1>2. TypeOK'
  BY <1>1 DEF IInv, TypeOK, tables
<1>3. AcceptsAreAddressed' /\ RevokesAreSent'
  BY <1>1 DEF IInv, Fits, AcceptsAreAddressed, RevokesAreSent, tables
<1>4. DeletedIsEmpty' /\ MembersWereInvited'
  BY DEF IInv, DeletedIsEmpty, MembersWereInvited, Members, tables
<1>5. QED
  BY <1>2, <1>3, <1>4 DEF IInv

\* Moving on to a step that needs nothing more, and finishing.
LEMMA GotoStep ==
    ASSUME IInv, NEW r \in Requests, NEW step \in Places \ {"accept", "revoke"},
           Goto(r, step), UNCHANGED tables
    PROVE  IInv'
<1>1. [req[r] EXCEPT !.at = step] \in Request
  BY DEF IInv, TypeOK, Request
<1>2. [req[r] EXCEPT !.at = step].at = step
  BY DEF IInv, TypeOK, Request
<1>3. req' = [req EXCEPT ![r] = [req[r] EXCEPT !.at = step]]
  BY DEF Goto, IInv, TypeOK
<1>4. QED
  BY <1>1, <1>2, <1>3, QuietStep DEF Fits

LEMMA FinishStep ==
    ASSUME IInv, NEW r \in Requests, Finish(r), UNCHANGED tables
    PROVE  IInv'
<1>1. Fits(Idle)
  BY IdleType DEF Fits, Idle
<1>2. QED
  BY <1>1, QuietStep DEF Finish

\* A step that changes tables and ends its request, while the workspace stays.
LEMMA EndStep ==
    ASSUME IInv, NEW r \in Requests, Finish(r) \/ req' = req,
           \A s \in Requests : req[s].at = "accept" /\ org' = "active" =>
               /\ org = "active"
               /\ invite[req[s].invitation].status # "none" =>
                     /\ invite'[req[s].invitation].status # "none"
                     /\ invite'[req[s].invitation].to = invite[req[s].invitation].to
    PROVE  /\ req' \in [Requests -> Request]
           /\ AcceptsAreAddressed' /\ RevokesAreSent'
<1>1. Idle.at = "idle"
  BY DEF Idle
<1>2. req' \in [Requests -> Request]
  BY IdleType DEF Finish, IInv, TypeOK
<1>3. \A s \in Requests : req'[s] = req[s] \/ req'[s].at = "idle"
  BY <1>1 DEF Finish, IInv, TypeOK
<1>4. QED
  BY <1>2, <1>3 DEF IInv, AcceptsAreAddressed, RevokesAreSent

-------------------------------------------------------------------------------
(* Requests that begin *)

LEMMA StartStep ==
    ASSUME IInv, NEW r \in Requests, Start(r)
    PROVE  IInv'
<1> USE DEF Begin
<1>1. CASE InviteBegin(r)
  <2>1. PICK u, to \in Users, role \in InvitedRoles :
           Begin(r, [Idle EXCEPT !.at = "count", !.by = u, !.to = to, !.role = role])
    BY <1>1 DEF InviteBegin
  <2>2. Fits([Idle EXCEPT !.at = "count", !.by = u, !.to = to, !.role = role])
    <3> DEFINE q == [Idle EXCEPT !.at = "count", !.by = u, !.to = to, !.role = role]
    <3>1. q \in Request
      BY IdleType DEF Request, Places
    <3>2. q.at = "count"
      BY DEF Idle
    <3>3. QED
      BY <3>1, <3>2 DEF Fits
  <2>3. QED
    BY <1>1, <2>1, <2>2, QuietStep DEF InviteBegin
<1>2. CASE RevokeBegin(r)
  <2>1. PICK u \in Users, i \in Sent :
           Begin(r, [Idle EXCEPT !.at = "revoke", !.by = u, !.invitation = i])
    BY <1>2 DEF RevokeBegin
  <2>2. i \in InvitationId
    BY DEF Sent
  <2>3. Fits([Idle EXCEPT !.at = "revoke", !.by = u, !.invitation = i])
    <3> DEFINE q == [Idle EXCEPT !.at = "revoke", !.by = u, !.invitation = i]
    <3>1. q \in Request
      BY <2>2, IdleType DEF Request, Places
    <3>2. q.at = "revoke" /\ q.invitation = i /\ q.by = u
      BY DEF Idle
    <3>3. QED
      BY <2>2, <3>1, <3>2 DEF Fits
  <2>4. QED
    BY <1>2, <2>1, <2>3, QuietStep DEF RevokeBegin
<1>3. CASE AcceptBegin(r)
  <2>1. PICK i \in Pending :
           Begin(r, [Idle EXCEPT !.at = "accept", !.by = invite[i].to, !.invitation = i])
    BY <1>3 DEF AcceptBegin
  <2>2. i \in InvitationId /\ invite[i].status # "none" /\ invite[i].to \in Users
    BY DEF Pending, IInv, TypeOK
  <2>3. Fits([Idle EXCEPT !.at = "accept", !.by = invite[i].to, !.invitation = i])
    <3> DEFINE q == [Idle EXCEPT !.at = "accept", !.by = invite[i].to, !.invitation = i]
    <3>1. q \in Request
      BY <2>2, IdleType DEF Request, Places
    <3>2. q.at = "accept" /\ q.invitation = i /\ q.by = invite[i].to
      BY DEF Idle
    <3>3. QED
      BY <2>2, <3>1, <3>2 DEF Fits
  <2>4. QED
    BY <1>3, <2>1, <2>3, QuietStep DEF AcceptBegin
<1>4. CASE RoleBegin(r)
  <2>1. PICK u \in Users, m \in Members, role \in InvitedRoles :
           Begin(r, [Idle EXCEPT !.at = "setRole", !.by = u, !.to = m,
                                 !.row = member[m].row, !.role = role])
    BY <1>4 DEF RoleBegin
  <2>2. m \in Users /\ member[m].row \in {0} \union InvitationId
    BY DEF Members, IInv, TypeOK
  <2>3. Fits([Idle EXCEPT !.at = "setRole", !.by = u, !.to = m,
                          !.row = member[m].row, !.role = role])
    <3> DEFINE q == [Idle EXCEPT !.at = "setRole", !.by = u, !.to = m,
                          !.row = member[m].row, !.role = role]
    <3>1. q \in Request
      BY <2>2, IdleType DEF Request, Places
    <3>2. q.at = "setRole"
      BY DEF Idle
    <3>3. QED
      BY <2>2, <3>1, <3>2 DEF Fits
  <2>4. QED
    BY <1>4, <2>1, <2>3, QuietStep DEF RoleBegin
<1>5. CASE RemoveBegin(r)
  <2>1. PICK u \in Users, m \in Members :
           Begin(r, [Idle EXCEPT !.at = "removeRead", !.by = u, !.to = m,
                                 !.row = member[m].row])
    BY <1>5 DEF RemoveBegin
  <2>2. m \in Users /\ member[m].row \in {0} \union InvitationId
    BY DEF Members, IInv, TypeOK
  <2>3. Fits([Idle EXCEPT !.at = "removeRead", !.by = u, !.to = m, !.row = member[m].row])
    <3> DEFINE q == [Idle EXCEPT !.at = "removeRead", !.by = u, !.to = m, !.row = member[m].row]
    <3>1. q \in Request
      BY <2>2, IdleType DEF Request, Places
    <3>2. q.at = "removeRead"
      BY DEF Idle
    <3>3. QED
      BY <2>2, <3>1, <3>2 DEF Fits
  <2>4. QED
    BY <1>5, <2>1, <2>3, QuietStep DEF RemoveBegin
<1>6. CASE SongCount(r) \/ DeleteRead(r)
  <2>1. PICK u \in Users, step \in {"createSong", "deleteCommit"} :
           Begin(r, [Idle EXCEPT !.at = step, !.by = u])
    BY <1>6 DEF SongCount, DeleteRead
  <2>2. Fits([Idle EXCEPT !.at = step, !.by = u])
    <3> DEFINE q == [Idle EXCEPT !.at = step, !.by = u]
    <3>1. q \in Request
      BY IdleType DEF Request, Places
    <3>2. q.at = step
      BY DEF Idle
    <3>3. QED
      BY <3>1, <3>2 DEF Fits
  <2>3. QED
    BY <1>6, <2>1, <2>2, QuietStep DEF SongCount, DeleteRead
<1>7. QED
  BY <1>1, <1>2, <1>3, <1>4, <1>5, <1>6 DEF Start

-------------------------------------------------------------------------------
(* Steps that read *)

LEMMA CountsAreNumbers ==
    Cardinality(Members) \in Nat /\ Cardinality(Pending) \in Nat
<1>1. IsFiniteSet(Members)
  BY FS_Subset DEF Members
<1>2. IsFiniteSet(InvitationId)
  BY FS_Interval DEF InvitationId
<1>3. IsFiniteSet(Pending)
  BY <1>2, FS_Subset DEF Pending
<1>4. QED
  BY <1>1, <1>3, FS_CardinalityType

ReadStep(r) ==
    \/ CountMembers(r) \/ CountPending(r) \/ InviteAllowed(r) \/ InviteRefused(r)
    \/ InviteCheck(r) \/ AcceptGone(r) \/ RemoveRead(r) \/ WorkspaceGone(r) \/ Fail(r)

LEMMA ReadKeeps ==
    ASSUME IInv, NEW r \in Requests, ReadStep(r)
    PROVE  IInv'
<1>1. CASE CountMembers(r)
  <2> DEFINE n == Cardinality(Members)
  <2>1. [req[r] EXCEPT !.members = n] \in Request
    <3>1. n \in Int
      BY CountsAreNumbers
    <3> HIDE DEF n
    <3>2. QED
      BY <3>1 DEF IInv, TypeOK, Request
  <2>2. [req[r] EXCEPT !.members = Cardinality(Members)].at = "count"
    BY <1>1 DEF CountMembers, IInv, TypeOK, Request
  <2>3. req' = [req EXCEPT ![r] = [req[r] EXCEPT !.members = Cardinality(Members)]]
    BY <1>1 DEF CountMembers, IInv, TypeOK
  <2>4. QED
    BY <1>1, <2>1, <2>2, <2>3, QuietStep DEF CountMembers, Fits
<1>2. CASE CountPending(r)
  <2> DEFINE n == Cardinality(Pending)
  <2>1. [req[r] EXCEPT !.pending = n] \in Request
    <3>1. n \in Int
      BY CountsAreNumbers
    <3> HIDE DEF n
    <3>2. QED
      BY <3>1 DEF IInv, TypeOK, Request
  <2>2. [req[r] EXCEPT !.pending = Cardinality(Pending)].at = "count"
    BY <1>2 DEF CountPending, IInv, TypeOK, Request
  <2>3. req' = [req EXCEPT ![r] = [req[r] EXCEPT !.pending = Cardinality(Pending)]]
    BY <1>2 DEF CountPending, IInv, TypeOK
  <2>4. QED
    BY <1>2, <2>1, <2>2, <2>3, QuietStep DEF CountPending, Fits
<1>3. CASE InviteAllowed(r)
  BY <1>3, GotoStep DEF InviteAllowed, Places
<1>4. CASE InviteCheck(r)
  BY <1>4, GotoStep, FinishStep DEF InviteCheck, Places
<1>5. CASE RemoveRead(r)
  BY <1>5, GotoStep, FinishStep DEF RemoveRead, Places
<1>6. CASE InviteRefused(r) \/ AcceptGone(r) \/ WorkspaceGone(r) \/ Fail(r)
  BY <1>6, FinishStep DEF InviteRefused, AcceptGone, WorkspaceGone, Fail
<1>7. QED
  BY <1>1, <1>2, <1>3, <1>4, <1>5, <1>6 DEF ReadStep

-------------------------------------------------------------------------------
(* Steps that write *)

LEMMA InviteInsertKeeps ==
    ASSUME IInv, NEW r \in Requests, InviteInsert(r)
    PROVE  IInv'
<1>1. PICK i \in InvitationId \ Sent :
         invite' = [invite EXCEPT ![i] = [status |-> "pending", to |-> req[r].to,
                                          role |-> req[r].role, expired |-> FALSE]]
  BY DEF InviteInsert
<1>2. /\ req[r].to \in Users /\ req[r].role \in InvitedRoles
      /\ invite[i].status = "none"
  BY <1>1 DEF IInv, TypeOK, Request, Sent
<1>3. /\ \A j \in InvitationId : invite[j].status # "none" => invite'[j] = invite[j]
      /\ org = "active" /\ org' = org /\ member' = member
  BY <1>1, <1>2 DEF InviteInsert, IInv, TypeOK
<1>4. AcceptsAreAddressed' /\ RevokesAreSent' /\ req' \in [Requests -> Request]
  BY <1>3, EndStep DEF InviteInsert, IInv, AcceptsAreAddressed
<1>5. TypeOK'
  BY <1>1, <1>2, <1>4 DEF InviteInsert, IInv, TypeOK
<1>6. MembersWereInvited' /\ DeletedIsEmpty'
  BY <1>3 DEF IInv, TypeOK, MembersWereInvited, DeletedIsEmpty, Members
<1>7. QED
  BY <1>4, <1>5, <1>6 DEF IInv

LEMMA RevokeUpdateKeeps ==
    ASSUME IInv, NEW r \in Requests, RevokeUpdate(r)
    PROVE  IInv'
<1> DEFINE i == req[r].invitation
<1>1. i \in InvitationId
  BY DEF RevokeUpdate, IInv, RevokesAreSent
<1>2. /\ \A j \in InvitationId :
            \/ invite'[j] = invite[j]
            \/ /\ invite[j].status = "pending"
               /\ invite'[j] = [invite[j] EXCEPT !.status = "revoked"]
      /\ org' = org /\ member' = member /\ Finish(r)
      /\ \E f \in {invite, [invite EXCEPT ![i].status = "revoked"]} : invite' = f
  BY <1>1 DEF RevokeUpdate, IInv, TypeOK
<1>3. \A j \in InvitationId : /\ invite'[j].to = invite[j].to
                              /\ invite[j].status = "none" <=> invite'[j].status = "none"
                              /\ invite[j].status = "accepted" => invite'[j].status = "accepted"
  BY <1>2 DEF IInv, TypeOK
<1>4. AcceptsAreAddressed' /\ RevokesAreSent' /\ req' \in [Requests -> Request]
  BY <1>2, <1>3, EndStep DEF IInv, AcceptsAreAddressed
<1>5. TypeOK'
  BY <1>1, <1>2, <1>4 DEF RevokeUpdate, IInv, TypeOK
<1>6. MembersWereInvited' /\ DeletedIsEmpty'
  BY <1>2, <1>3 DEF IInv, TypeOK, MembersWereInvited, DeletedIsEmpty, Members
<1>7. QED
  BY <1>4, <1>5, <1>6 DEF IInv

\* Whoever accepts is the person the invitation was sent to, and the workspace
\* is there.
LEMMA Accepting ==
    ASSUME IInv, NEW r \in Requests, AcceptCommit(r)
    PROVE  /\ req[r].invitation \in InvitationId /\ req[r].by \in Users
           /\ org = "active"
           /\ invite[req[r].invitation].status = "pending"
           /\ invite[req[r].invitation].to = req[r].by
<1>1. req[r].invitation \in InvitationId /\ req[r].by \in Users
  BY DEF AcceptCommit, StillPending, IInv, TypeOK, Request, AcceptsAreAddressed
<1>2. invite[req[r].invitation].status = "pending"
  BY DEF AcceptCommit, StillPending
<1>3. org = "active"
  BY <1>1, <1>2 DEF IInv, TypeOK, DeletedIsEmpty
<1>4. QED
  BY <1>1, <1>2, <1>3 DEF AcceptCommit, StillPending, IInv, AcceptsAreAddressed

LEMMA AcceptCommitKeeps ==
    ASSUME IInv, NEW r \in Requests, AcceptCommit(r)
    PROVE  IInv'
<1> DEFINE i == req[r].invitation
           u == req[r].by
           row == IF u \in Members THEN member[u].row ELSE i
<1>1. /\ i \in InvitationId /\ u \in Users /\ org = "active"
      /\ invite[i].status = "pending" /\ invite[i].to = u
  BY Accepting
<1>2. /\ invite' = [invite EXCEPT ![i].status = "accepted"]
      /\ member' = [member EXCEPT ![u] = [role |-> invite[i].role, row |-> row]]
      /\ Finish(r) /\ org' = org /\ songs' = songs /\ closed' = closed
  BY DEF AcceptCommit
<1>3. row \in {0} \union InvitationId /\ invite[i].role \in InvitedRoles
  BY <1>1 DEF IInv, TypeOK
<1>4. \A j \in InvitationId : /\ invite'[j].to = invite[j].to
                              /\ j # i => invite'[j] = invite[j]
                              /\ invite[j].status # "none" => invite'[j].status # "none"
                              /\ invite[j].status = "accepted" => invite'[j].status = "accepted"
  BY <1>1, <1>2 DEF IInv, TypeOK
<1>5. AcceptsAreAddressed' /\ RevokesAreSent' /\ req' \in [Requests -> Request]
  BY <1>1, <1>2, <1>4, EndStep DEF IInv, AcceptsAreAddressed
<1>6. TypeOK'
  <2>1. member' \in [Users -> [role : Roles \union {"none"}, row : {0} \union InvitationId]]
    BY <1>1, <1>2, <1>3 DEF IInv, TypeOK, Roles, InvitedRoles
  <2>2. invite' \in [InvitationId -> [status : {"none", "pending", "accepted", "revoked"},
                                      to : Users, role : InvitedRoles, expired : BOOLEAN]]
    BY <1>1, <1>2 DEF IInv, TypeOK
  <2>3. QED
    BY <1>2, <1>5, <2>1, <2>2 DEF IInv, TypeOK
<1>7. MembersWereInvited'
  <2>1. invite'[i].status = "accepted" /\ invite'[i].to = u
    BY <1>1, <1>2 DEF IInv, TypeOK
  <2>2. member'[u].row = row /\ \A v \in Users \ {u} : member'[v] = member[v]
    BY <1>1, <1>2 DEF IInv, TypeOK
  <2>3. SUFFICES ASSUME NEW v \in Users, v \in Members'
                 PROVE  IF member'[v].row = 0 THEN v = Owner
                        ELSE /\ invite'[member'[v].row].status = "accepted"
                             /\ invite'[member'[v].row].to = v
    BY DEF MembersWereInvited, Members
  <2>4. CASE v # u \/ u \in Members
    <3>1. v \in Members /\ member'[v].row = member[v].row
      BY <2>2, <2>3, <2>4 DEF Members
    <3>2. member[v].row \in {0} \union InvitationId
      BY <2>3 DEF IInv, TypeOK
    <3>3. QED
      BY <1>4, <3>1, <3>2 DEF IInv, MembersWereInvited
  <2>5. CASE v = u /\ u \notin Members
    <3>1. member'[v].row = i /\ i # 0
      BY <1>1, <2>2, <2>5 DEF InvitationId
    <3>2. QED
      BY <2>1, <2>5, <3>1
  <2>6. QED
    BY <2>4, <2>5
<1>8. DeletedIsEmpty'
  BY <1>1, <1>2 DEF DeletedIsEmpty
<1>9. QED
  BY <1>5, <1>6, <1>7, <1>8 DEF IInv

\* Roles may change and members may leave without anything else to be said.
LEMMA MembersKeep ==
    ASSUME IInv, NEW r \in Requests, Finish(r), UNCHANGED <<org, invite, songs, closed>>,
           member' \in [Users -> [role : Roles \union {"none"}, row : {0} \union InvitationId]],
           \A u \in Users : u \in Members' => u \in Members /\ member'[u].row = member[u].row
    PROVE  IInv'
<1>1. AcceptsAreAddressed' /\ RevokesAreSent' /\ req' \in [Requests -> Request]
  BY EndStep DEF IInv
<1>2. TypeOK'
  BY <1>1 DEF IInv, TypeOK
<1>3. MembersWereInvited' /\ DeletedIsEmpty'
  BY DEF IInv, MembersWereInvited, DeletedIsEmpty, Members
<1>4. QED
  BY <1>1, <1>2, <1>3 DEF IInv

LEMMA RoleUpdateKeeps ==
    ASSUME IInv, NEW r \in Requests, RoleUpdate(r)
    PROVE  IInv'
<1>1. req[r].to \in Users /\ req[r].role \in InvitedRoles
  BY DEF IInv, TypeOK, Request
<1>2. member' \in [Users -> [role : Roles \union {"none"}, row : {0} \union InvitationId]]
  BY <1>1 DEF RoleUpdate, IInv, TypeOK, Roles, InvitedRoles
<1>3. \A u \in Users : u \in Members' => u \in Members /\ member'[u].row = member[u].row
  BY <1>1 DEF RoleUpdate, HasRow, Members, IInv, TypeOK
<1>4. QED
  BY <1>2, <1>3, MembersKeep DEF RoleUpdate

LEMMA RemoveDeleteKeeps ==
    ASSUME IInv, NEW r \in Requests, RemoveDelete(r)
    PROVE  IInv'
<1>1. req[r].to \in Users
  BY DEF IInv, TypeOK, Request
<1>2. member' \in [Users -> [role : Roles \union {"none"}, row : {0} \union InvitationId]]
  BY <1>1 DEF RemoveDelete, IInv, TypeOK, NoMember
<1>3. \A u \in Users : u \in Members' => u \in Members /\ member'[u].row = member[u].row
  BY <1>1 DEF RemoveDelete, NoMember, Members, IInv, TypeOK
<1>4. QED
  BY <1>2, <1>3, MembersKeep DEF RemoveDelete

LEMMA SongCreateKeeps ==
    ASSUME IInv, NEW r \in Requests, SongCreate(r)
    PROVE  IInv'
<1>1. AcceptsAreAddressed' /\ RevokesAreSent' /\ req' \in [Requests -> Request]
  BY EndStep DEF SongCreate
<1>2. TypeOK'
  BY <1>1 DEF SongCreate, IInv, TypeOK
<1>3. MembersWereInvited' /\ DeletedIsEmpty'
  BY DEF SongCreate, IInv, MembersWereInvited, DeletedIsEmpty, Members
<1>4. QED
  BY <1>1, <1>2, <1>3 DEF IInv

LEMMA DeleteCommitKeeps ==
    ASSUME IInv, NEW r \in Requests, DeleteCommit(r)
    PROVE  IInv'
<1> DEFINE u == req[r].by
<1>1. u \in Users
  BY DEF IInv, TypeOK, Request
<1>2. closed' = closed \union {u} /\ Finish(r)
  BY DEF DeleteCommit
<1>3. CASE u = Owner
  <2>1. /\ org' = "deleted" /\ songs' = 0
        /\ member' = [m \in Users |-> NoMember]
        /\ invite' = [i \in InvitationId |-> NoInvitation]
    BY <1>3 DEF DeleteCommit
  <2>2. AcceptsAreAddressed' /\ RevokesAreSent' /\ req' \in [Requests -> Request]
    BY <1>2, <2>1, EndStep
  <2>3. TypeOK'
    BY <1>1, <1>2, <2>1, <2>2 DEF IInv, TypeOK, NoMember, NoInvitation, InvitedRoles
  <2>4. Members' = {}
    BY <2>1 DEF Members, NoMember
  <2>5. MembersWereInvited' /\ DeletedIsEmpty'
    BY <2>1, <2>4 DEF MembersWereInvited, DeletedIsEmpty, NoInvitation
  <2>6. QED
    BY <2>2, <2>3, <2>5 DEF IInv
<1>4. CASE u # Owner
  <2>1. member' = [member EXCEPT ![u] = NoMember] /\ UNCHANGED <<org, invite, songs>>
    BY <1>4 DEF DeleteCommit
  <2>2. AcceptsAreAddressed' /\ RevokesAreSent' /\ req' \in [Requests -> Request]
    BY <1>2, <2>1, EndStep
  <2>3. TypeOK'
    BY <1>1, <1>2, <2>1, <2>2 DEF IInv, TypeOK, NoMember
  <2>4. \A v \in Users : v \in Members' => v \in Members /\ member'[v] = member[v]
    BY <1>1, <2>1 DEF Members, NoMember, IInv, TypeOK
  <2>5. MembersWereInvited' /\ DeletedIsEmpty'
    BY <2>1, <2>4 DEF IInv, MembersWereInvited, DeletedIsEmpty, Members
  <2>6. QED
    BY <2>2, <2>3, <2>5 DEF IInv
<1>5. QED
  BY <1>3, <1>4

LEMMA ExpireKeeps ==
    ASSUME IInv, NEW i \in InvitationId, Expire(i)
    PROVE  IInv'
<1>1. /\ invite' = [invite EXCEPT ![i].expired = TRUE]
      /\ UNCHANGED <<org, member, songs, closed, req>>
  BY DEF Expire
<1>2. \A j \in InvitationId : /\ invite'[j].to = invite[j].to
                              /\ invite'[j].status = invite[j].status
  BY <1>1 DEF IInv, TypeOK
<1>3. TypeOK'
  BY <1>1 DEF IInv, TypeOK
<1>4. AcceptsAreAddressed' /\ RevokesAreSent'
  BY <1>1, <1>2 DEF IInv, AcceptsAreAddressed, RevokesAreSent
<1>5. MembersWereInvited' /\ DeletedIsEmpty'
  BY <1>1, <1>2 DEF IInv, TypeOK, MembersWereInvited, DeletedIsEmpty, Members
<1>6. QED
  BY <1>3, <1>4, <1>5 DEF IInv

-------------------------------------------------------------------------------
(* Theorems *)

LEMMA InitHolds == Init => IInv
<1> SUFFICES ASSUME Init PROVE IInv
  OBVIOUS
<1>1. TypeOK
  BY IdleType DEF Init, TypeOK, NoMember, NoInvitation, Roles, InvitedRoles
<1>2. \A r \in Requests : req[r].at = "idle"
  BY DEF Init, Idle
<1>3. AcceptsAreAddressed /\ RevokesAreSent /\ DeletedIsEmpty
  BY <1>2 DEF Init, AcceptsAreAddressed, RevokesAreSent, DeletedIsEmpty
<1>4. MembersWereInvited
  BY DEF Init, MembersWereInvited, Members, NoMember
<1>5. QED
  BY <1>1, <1>3, <1>4 DEF IInv

LEMMA NextKeeps == IInv /\ [Next]_vars => IInv'
<1> SUFFICES ASSUME IInv, [Next]_vars PROVE IInv'
  OBVIOUS
<1>1. CASE UNCHANGED vars
  BY <1>1 DEF vars, IInv, TypeOK, AcceptsAreAddressed, RevokesAreSent, DeletedIsEmpty,
              MembersWereInvited, Members
<1>2. ASSUME NEW r \in Requests, Start(r) PROVE IInv'
  BY <1>2, StartStep
<1>3. ASSUME NEW r \in Requests, Step(r) \/ Fail(r) PROVE IInv'
  BY <1>3, ReadKeeps, InviteInsertKeeps, RevokeUpdateKeeps, AcceptCommitKeeps,
     RoleUpdateKeeps, RemoveDeleteKeeps, SongCreateKeeps, DeleteCommitKeeps
     DEF Step, ReadStep
<1>4. ASSUME NEW i \in InvitationId, Expire(i) PROVE IInv'
  BY <1>4, ExpireKeeps
<1>5. QED
  BY <1>1, <1>2, <1>3, <1>4 DEF Next, Run

\* The inductive invariant holds in every reachable state.
THEOREM InvariantHolds == Spec => []IInv
  BY InitHolds, NextKeeps, PTL DEF Spec

\* Everyone in the workspace but its owner accepted an invitation sent to their
\* own address, and it is on file as accepted (acceptTeamInvitation).
THEOREM OnlyInvitedMembers == Spec => []MembersWereInvited
<1>1. IInv => MembersWereInvited
  BY DEF IInv
<1>2. QED
  BY <1>1, InvariantHolds, PTL

\* The steps that touch invitations or members at all.
LEMMA WhoTouches ==
    ASSUME IInv, [Next]_vars, ~UNCHANGED <<invite, member>>
    PROVE  \/ \E r \in Requests : \/ InviteInsert(r) \/ RevokeUpdate(r) \/ AcceptCommit(r)
                                  \/ RoleUpdate(r) \/ RemoveDelete(r) \/ DeleteCommit(r)
           \/ \E i \in InvitationId : Expire(i)
<1>1. ASSUME NEW r \in Requests, Start(r) PROVE UNCHANGED <<invite, member>>
  BY <1>1 DEF Start, InviteBegin, RevokeBegin, AcceptBegin, RoleBegin, RemoveBegin,
              SongCount, DeleteRead, tables
<1>2. ASSUME NEW r \in Requests, ReadStep(r) \/ SongCreate(r)
      PROVE UNCHANGED <<invite, member>>
  BY <1>2 DEF ReadStep, SongCreate, CountMembers, CountPending, InviteAllowed, InviteRefused,
              InviteCheck, AcceptGone, RemoveRead, WorkspaceGone, Fail, tables
<1>3. CASE UNCHANGED vars
  BY <1>3 DEF vars
<1>4. QED
  BY <1>1, <1>2, <1>3 DEF Next, Run, Step, ReadStep

LEMMA JoiningStep ==
    ASSUME IInv, [Next]_vars, NEW u \in Users,
           member[u].role = "none", member'[u].role # "none"
    PROVE  \E i \in InvitationId : /\ invite[i].to = u
                                   /\ invite[i].status = "pending"
                                   /\ invite'[i].status = "accepted"
<1>1. CASE UNCHANGED <<invite, member>>
  BY <1>1
<1>2. ASSUME NEW r \in Requests, InviteInsert(r) \/ RevokeUpdate(r) PROVE FALSE
  BY <1>2 DEF InviteInsert, RevokeUpdate
<1>3. ASSUME NEW r \in Requests, RoleUpdate(r) PROVE FALSE
  BY <1>3 DEF RoleUpdate, HasRow, Members, IInv, TypeOK, Request
<1>4. ASSUME NEW r \in Requests, RemoveDelete(r) PROVE FALSE
  BY <1>4 DEF RemoveDelete, NoMember, IInv, TypeOK, Request
<1>5. ASSUME NEW r \in Requests, DeleteCommit(r) PROVE FALSE
  BY <1>5 DEF DeleteCommit, NoMember, IInv, TypeOK, Request
<1>6. ASSUME NEW i \in InvitationId, Expire(i) PROVE FALSE
  BY <1>6 DEF Expire
<1>7. ASSUME NEW r \in Requests, AcceptCommit(r)
      PROVE  \E i \in InvitationId : /\ invite[i].to = u
                                     /\ invite[i].status = "pending"
                                     /\ invite'[i].status = "accepted"
  <2> DEFINE i == req[r].invitation
  <2>1. i \in InvitationId /\ req[r].by \in Users
        /\ invite[i].status = "pending" /\ invite[i].to = req[r].by
    BY <1>7, Accepting
  <2>2. invite'[i].status = "accepted"
    BY <1>7, <2>1 DEF AcceptCommit, IInv, TypeOK
  <2>3. \A v \in Users \ {req[r].by} : member'[v] = member[v]
    BY <1>7, <2>1 DEF AcceptCommit, IInv, TypeOK
  <2>4. req[r].by = u
    BY <2>3
  <2>5. QED
    BY <2>1, <2>2, <2>4
<1>8. QED
  BY <1>1, <1>2, <1>3, <1>4, <1>5, <1>6, <1>7, WhoTouches

\* Nobody joins, or comes back after removal, but by using up an invitation
\* that was pending until then.
THEOREM JoiningIsInvited == Spec => JoiningUsesInvitation
<1>1. IInv /\ [Next]_vars => [JoinsByInvitation]_vars
  BY JoiningStep DEF JoinsByInvitation
<1>2. QED
  BY <1>1, InvariantHolds, PTL DEF Spec, JoiningUsesInvitation

LEMMA FinalStep ==
    ASSUME IInv, [Next]_vars, NEW i \in InvitationId,
           invite[i].status \in {"accepted", "revoked"}, org' = "active"
    PROVE  invite'[i] = invite[i]
<1>1. ASSUME NEW r \in Requests, InviteInsert(r) PROVE invite'[i] = invite[i]
  BY <1>1 DEF InviteInsert, Sent, IInv, TypeOK
<1>2. ASSUME NEW r \in Requests, RevokeUpdate(r) PROVE invite'[i] = invite[i]
  BY <1>2 DEF RevokeUpdate, IInv, TypeOK, RevokesAreSent
<1>3. ASSUME NEW r \in Requests, AcceptCommit(r) PROVE invite'[i] = invite[i]
  BY <1>3, Accepting DEF AcceptCommit, IInv, TypeOK
<1>4. ASSUME NEW r \in Requests, RoleUpdate(r) \/ RemoveDelete(r) PROVE invite'[i] = invite[i]
  BY <1>4 DEF RoleUpdate, RemoveDelete
<1>5. ASSUME NEW r \in Requests, DeleteCommit(r) PROVE invite'[i] = invite[i]
  BY <1>5 DEF DeleteCommit
<1>6. ASSUME NEW j \in InvitationId, Expire(j) PROVE invite'[i] = invite[i]
  BY <1>6 DEF Expire, Pending, IInv, TypeOK
<1>7. QED
  BY <1>1, <1>2, <1>3, <1>4, <1>5, <1>6, WhoTouches

\* An accepted or revoked invitation stays as it is while the workspace exists.
THEOREM InvitationsFinal == Spec => InvitationsAreFinal
<1>1. IInv /\ [Next]_vars =>
         [\A i \in InvitationId :
            invite[i].status \in {"accepted", "revoked"} /\ org' = "active"
              => invite'[i] = invite[i]]_vars
  BY FinalStep
<1>2. QED
  BY <1>1, InvariantHolds, PTL DEF Spec, InvitationsAreFinal

-------------------------------------------------------------------------------
(* Requests that overlap, and the history of it *)

LEMMA Counts ==
    ASSUME TypeOK
    PROVE  /\ IsFiniteSet(Members) /\ Cardinality(Members) \in Nat
           /\ IsFiniteSet(Pending) /\ Cardinality(Pending) \in Nat
<1>1. IsFiniteSet(Members)
  BY FS_Subset DEF Members
<1>2. IsFiniteSet(InvitationId)
  BY FS_Interval DEF InvitationId
<1>3. IsFiniteSet(Pending)
  BY <1>2, FS_Subset DEF Pending
<1>4. QED
  BY <1>1, <1>3, FS_CardinalityType


LEMMA OneMore ==
    ASSUME NEW S, NEW x, IsFiniteSet(S)
    PROVE  /\ Cardinality(S \union {x}) <= Cardinality(S) + 1
           /\ Cardinality(S \union {x}) \in Nat
<1>1. /\ IsFiniteSet(S \union {x})
      /\ Cardinality(S \union {x}) = IF x \in S THEN Cardinality(S) ELSE Cardinality(S) + 1
  BY FS_AddElement
<1>2. Cardinality(S) \in Nat /\ Cardinality(S \union {x}) \in Nat
  BY <1>1, FS_CardinalityType
<1>3. QED
  BY <1>1, <1>2

\* The history only grows.
LEMMA HistoryGrows == [Next]_vars => raced \subseteq raced'
  BY DEF Next, Track, vars

\* Which handlers the steps belong to.
LEMMA KindOf ==
    ASSUME NEW r \in Requests, TypeOK
    PROVE  /\ req[r].at \in InviteSteps => Busy(r) /\ Kind(r) = "invite"
           /\ req[r].at \in RemoveSteps => Busy(r) /\ Kind(r) = "remove"
           /\ req[r].at \in Kinds \ (InviteSteps \union RemoveSteps) =>
                 Busy(r) /\ Kind(r) = req[r].at
           /\ Busy(r) => Kind(r) \in Kinds
  BY DEF Busy, Kind, Kinds, InviteSteps, RemoveSteps, TypeOK, Request, Places

\* Two requests that are running have overlapped.
LEMMA Beside ==
    ASSUME HistoryIsKept, TypeOK,
           NEW r \in Requests, NEW s \in Requests \ {r}, Busy(r), Busy(s)
    PROVE  ~Apart(Kind(r), Kind(s)) /\ ~Apart(Kind(s), Kind(r))
<1>1. {Kind(r), Kind(s)} \in Pairs
  BY KindOf DEF Pairs
<1>2. {Kind(r), Kind(s)} \in Overlaps
  BY <1>1 DEF Overlaps
<1>3. {Kind(r), Kind(s)} = {Kind(s), Kind(r)}
  OBVIOUS
<1>4. QED
  BY <1>2, <1>3 DEF HistoryIsKept, Apart

LEMMA HistoryStep == HistoryIsKept /\ [Next]_vars => HistoryIsKept'
<1>1. CASE UNCHANGED vars
  <2>1. Overlaps' = Overlaps
    BY <1>1 DEF vars, Overlaps, Busy, Kind
  <2>2. QED
    BY <1>1, <2>1 DEF vars, HistoryIsKept
<1>2. CASE Next
  BY <1>2 DEF Next, Track, HistoryIsKept
<1>3. QED
  BY <1>1, <1>2

\* A step of one request leaves the others where they are.
LEMMA OthersStay ==
    ASSUME IInv, NEW r \in Requests, Start(r) \/ Step(r) \/ Fail(r)
    PROVE  \A s \in Requests \ {r} : req'[s] = req[s]
<1>1. req \in [Requests -> Request]
  BY DEF IInv, TypeOK
<1>2. CASE Start(r)
  BY <1>1, <1>2 DEF Start, Begin, InviteBegin, RevokeBegin, AcceptBegin, RoleBegin,
     RemoveBegin, SongCount, DeleteRead
<1>3. CASE ReadStep(r)
  BY <1>1, <1>3 DEF ReadStep, Goto, Finish, CountMembers, CountPending, InviteAllowed,
     InviteRefused, InviteCheck, AcceptGone, RemoveRead, WorkspaceGone, Fail
<1>4. CASE \/ InviteInsert(r) \/ RevokeUpdate(r) \/ AcceptCommit(r) \/ RoleUpdate(r)
           \/ RemoveDelete(r) \/ SongCreate(r) \/ DeleteCommit(r)
  BY <1>1, <1>4 DEF Finish, InviteInsert, RevokeUpdate, AcceptCommit, RoleUpdate,
     RemoveDelete, SongCreate, DeleteCommit
<1>5. QED
  BY <1>2, <1>3, <1>4 DEF Step, ReadStep

-------------------------------------------------------------------------------
(* What is read stays so: steps that write no row *)

\* An ended request has nothing that could be out of date.
LEMMA EndedActs ==
    ASSUME TypeOK, NEW r \in Requests, Finish(r)
    PROVE  ActsOnNow(r)'
<1>1. req'[r].at = "idle"
  BY DEF Finish, Idle, TypeOK
<1>2. QED
  BY <1>1 DEF ActsOnNow, InviteActsOnNow, RemoveActsOnNow, OthersActOnNow

LEMMA QuietTables ==
    ASSUME raced \subseteq raced', UNCHANGED tables, TablesHold
    PROVE  TablesHold'
<1>1. \A j, k : Apart(j, k)' => Apart(j, k)
  BY DEF Apart
<1>2. Members' = Members /\ Pending' = Pending /\ Sent' = Sent
  BY DEF tables, Members, Pending, Sent
<1>3. Taken' = Taken
  BY <1>2 DEF Taken
<1>4. QED
  BY <1>1, <1>2, <1>3 DEF TablesHold, SongsWithinPlan, ClosedHoldNoSeat, tables

LEMMA QuietActs ==
    ASSUME raced \subseteq raced', UNCHANGED tables, NEW r \in Requests, req'[r] = req[r],
           ActsOnNow(r)
    PROVE  ActsOnNow(r)'
<1>1. \A j, k : Apart(j, k)' => Apart(j, k)
  BY DEF Apart
<1>2. Members' = Members /\ Pending' = Pending
  BY DEF tables, Members, Pending
<1>3. Taken' = Taken
  BY <1>2 DEF Taken
<1>4. InviteActsOnNow(r)'
  BY <1>1, <1>2, <1>3 DEF ActsOnNow, InviteActsOnNow, tables
<1>5. RemoveActsOnNow(r)'
  BY <1>1 DEF ActsOnNow, RemoveActsOnNow, tables
<1>6. OthersActOnNow(r)'
  BY <1>1, <1>2 DEF ActsOnNow, OthersActOnNow, tables
<1>7. QED
  BY <1>4, <1>5, <1>6 DEF ActsOnNow

\* A request begins with what is so.
LEMMA StartActs ==
    ASSUME IInv, TablesHold, raced \subseteq raced', NEW r \in Requests, Start(r)
    PROVE  ActsOnNow(r)'
<1> USE DEF Begin, ActsOnNow, InviteActsOnNow, RemoveActsOnNow, OthersActOnNow
<1>1. TypeOK /\ req \in [Requests -> Request]
  BY DEF IInv, TypeOK
<1>2. UNCHANGED tables
  BY DEF Start, InviteBegin, RevokeBegin, AcceptBegin, RoleBegin, RemoveBegin, SongCount,
     DeleteRead
<1>3. Members' = Members
  BY <1>2 DEF tables, Members
<1>4. CASE InviteBegin(r)
  <2>1. req'[r].at = "count" /\ req'[r].members = Unread /\ req'[r].pending = Unread
    BY <1>1, <1>4 DEF InviteBegin, Idle
  <2>2. QED
    BY <2>1
<1>5. CASE RevokeBegin(r) \/ RoleBegin(r)
  <2>1. req'[r].at \in {"revoke", "setRole"}
    BY <1>1, <1>5 DEF RevokeBegin, RoleBegin, Idle
  <2>2. QED
    BY <2>1
<1>6. CASE AcceptBegin(r)
  <2>1. PICK i \in Pending :
           /\ invite[i].to \notin closed
           /\ req' = [req EXCEPT ![r] =
                        [Idle EXCEPT !.at = "accept", !.by = invite[i].to, !.invitation = i]]
    BY <1>6 DEF AcceptBegin
  <2>2. req'[r].at = "accept" /\ req'[r].by = invite[i].to
    BY <1>1, <2>1 DEF Idle
  <2>3. QED
    BY <1>2, <2>1, <2>2 DEF tables
<1>7. CASE RemoveBegin(r)
  <2>1. req'[r].at = "removeRead"
    BY <1>1, <1>7 DEF RemoveBegin, Idle
  <2>2. member[Owner].role = "owner"
    BY <1>7 DEF RemoveBegin, IsOwner, TablesHold
  <2>3. QED
    BY <1>2, <2>1, <2>2 DEF tables
<1>8. CASE SongCount(r)
  <2>1. req'[r].at = "createSong" /\ songs < SongLimit
    BY <1>1, <1>8 DEF SongCount, SongWithinLimit, Idle
  <2>2. QED
    BY <1>2, <2>1 DEF tables
<1>9. CASE DeleteRead(r)
  <2>1. PICK u \in Users :
           /\ u = Owner => Cardinality(Members) <= 1
           /\ req' = [req EXCEPT ![r] = [Idle EXCEPT !.at = "deleteCommit", !.by = u]]
    BY <1>9 DEF DeleteRead
  <2>2. req'[r].at = "deleteCommit" /\ req'[r].by = u
    BY <1>1, <2>1 DEF Idle
  <2>3. QED
    BY <1>3, <2>1, <2>2
<1>10. QED
  BY <1>4, <1>5, <1>6, <1>7, <1>8, <1>9 DEF Start

\* A step that reads leaves its request with what is so.
LEMMA ReadActs ==
    ASSUME IInv, TablesHold, raced \subseteq raced', NEW r \in Requests, ReadStep(r),
           ActsOnNow(r)
    PROVE  ActsOnNow(r)'
<1>1. TypeOK /\ req[r] \in Request /\ req \in [Requests -> Request]
  BY DEF IInv, TypeOK
<1>2. UNCHANGED tables
  BY DEF ReadStep, CountMembers, CountPending, InviteAllowed, InviteRefused, InviteCheck,
     AcceptGone, RemoveRead, WorkspaceGone, Fail
<1>3. Members' = Members /\ Pending' = Pending /\ Taken' = Taken
  BY <1>2 DEF tables, Members, Pending, Taken
<1>4. \A j, k : Apart(j, k)' => Apart(j, k)
  BY DEF Apart
<1>5. Cardinality(Members) \in Nat /\ Cardinality(Pending) \in Nat
  BY <1>1, Counts
<1>6. InviteActsOnNow(r) /\ RemoveActsOnNow(r)
  BY DEF ActsOnNow
<1>7. CASE CountMembers(r) \/ CountPending(r)
  <2>1. req[r].at = "count" /\ req'[r].at = "count"
    BY <1>1, <1>7 DEF CountMembers, CountPending, Request
  <2>2. /\ \/ req'[r].members = req[r].members
           \/ req'[r].members = Cardinality(Members)
        /\ \/ req'[r].pending = req[r].pending
           \/ req'[r].pending = Cardinality(Pending)
    <3>1. CASE CountMembers(r)
      BY <1>1, <3>1 DEF CountMembers, Request
    <3>2. CASE CountPending(r)
      BY <1>1, <3>2 DEF CountPending, Request
    <3>3. QED
      BY <1>7, <3>1, <3>2
  <2>3. InviteActsOnNow(r)'
    BY <1>3, <1>4, <1>5, <1>6, <2>1, <2>2 DEF InviteActsOnNow
  <2>4. QED
    BY <2>1, <2>3 DEF ActsOnNow, RemoveActsOnNow, OthersActOnNow
<1>8. CASE InviteAllowed(r)
  <2>1. req[r].at = "count" /\ req'[r].at = "isMember"
    BY <1>1, <1>8 DEF InviteAllowed, Counted, Goto, Request
  <2>2. /\ req[r].members \in Int /\ req[r].pending \in Int
        /\ req[r].members # Unread /\ req[r].pending # Unread
        /\ req[r].members + req[r].pending < Seats
    BY <1>1, <1>8 DEF InviteAllowed, Counted, SeatFree, Request
  <2>3. Apart("invite", "invite") /\ Apart("invite", "accept") => Taken < Seats
    BY <1>5, <1>6, <2>1, <2>2 DEF InviteActsOnNow, Taken
  <2>4. InviteActsOnNow(r)'
    BY <1>3, <1>4, <2>1, <2>3 DEF InviteActsOnNow
  <2>5. QED
    BY <2>1, <2>4 DEF ActsOnNow, RemoveActsOnNow, OthersActOnNow
<1>9. CASE InviteCheck(r)
  <2>1. CASE req[r].to \in Members
    BY <1>1, <1>9, <2>1, EndedActs DEF InviteCheck
  <2>2. CASE req[r].to \notin Members
    <3>1. req[r].at = "isMember" /\ req'[r].at = "invite" /\ req'[r].to = req[r].to
      BY <1>1, <1>9, <2>2 DEF InviteCheck, Goto, Request
    <3>2. Apart("invite", "invite") /\ Apart("invite", "accept") => Taken < Seats
      BY <1>6, <3>1 DEF InviteActsOnNow
    <3>3. Apart("setRole", "remove") /\ org = "active" => req[r].to # Owner
      BY <2>2 DEF TablesHold
    <3>4. InviteActsOnNow(r)'
      BY <1>2, <1>3, <1>4, <3>1, <3>2, <3>3 DEF InviteActsOnNow, tables
    <3>5. QED
      BY <3>1, <3>4 DEF ActsOnNow, RemoveActsOnNow, OthersActOnNow
  <2>3. QED
    BY <2>1, <2>2
<1>10. CASE RemoveRead(r)
  <2>1. CASE Removable(r)
    <3>1. /\ req[r].at = "removeRead" /\ req'[r].at = "remove" /\ req'[r].to = req[r].to
      BY <1>1, <1>10, <2>1 DEF RemoveRead, Goto, Request
    <3>2. org = "active"
      BY <2>1 DEF Removable, HasRow, IInv, TypeOK, DeletedIsEmpty
    <3>3. Apart("setRole", "remove") => req[r].to # Owner
      BY <1>6, <2>1, <3>1, <3>2 DEF RemoveActsOnNow, Removable
    <3>4. RemoveActsOnNow(r)'
      BY <1>4, <3>1, <3>3 DEF RemoveActsOnNow
    <3>5. QED
      BY <3>1, <3>4 DEF ActsOnNow, InviteActsOnNow, OthersActOnNow
  <2>2. CASE ~Removable(r)
    BY <1>1, <1>10, <2>2, EndedActs DEF RemoveRead
  <2>3. QED
    BY <2>1, <2>2
<1>11. CASE InviteRefused(r) \/ AcceptGone(r) \/ WorkspaceGone(r) \/ Fail(r)
  BY <1>1, <1>11, EndedActs DEF InviteRefused, AcceptGone, WorkspaceGone, Fail
<1>12. QED
  BY <1>7, <1>8, <1>9, <1>10, <1>11 DEF ReadStep

-------------------------------------------------------------------------------
(* What is read stays so: steps that write *)

\* What a request has read is still so after the step of another, unless that
\* step adds to what it has counted, or takes what it has found.
LEMMA StillSo ==
    ASSUME TypeOK, raced \subseteq raced', NEW s \in Requests, req'[s] = req[s], ActsOnNow(s),
           org' = "active" => org = "active",
           req[s].at \in InviteSteps /\ Apart("invite", "invite") /\ Apart("invite", "accept")
              => Members' \subseteq Members /\ Pending' \subseteq Pending,
           req[s].at = "removeRead" /\ Apart("setRole", "remove") /\ org' = "active"
              => member'[Owner].role = member[Owner].role,
           req[s].at = "accept" /\ Apart("accept", "deleteCommit") => closed' = closed,
           req[s].at = "createSong" /\ Apart("createSong", "createSong")
              => songs' < SongLimit \/ songs' = songs,
           req[s].at = "deleteCommit" /\ Apart("deleteCommit", "accept")
              => Members' \subseteq Members
    PROVE  ActsOnNow(s)'
<1>1. \A j, k : Apart(j, k)' => Apart(j, k)
  BY DEF Apart
<1>2. /\ IsFiniteSet(Members) /\ Cardinality(Members) \in Nat
      /\ IsFiniteSet(Pending) /\ Cardinality(Pending) \in Nat
  BY Counts
<1>3. Members' \subseteq Members => /\ Cardinality(Members') <= Cardinality(Members)
                                    /\ Cardinality(Members') \in Nat
  BY <1>2, FS_Subset, FS_CardinalityType
<1>4. Pending' \subseteq Pending => /\ Cardinality(Pending') <= Cardinality(Pending)
                                    /\ Cardinality(Pending') \in Nat
  BY <1>2, FS_Subset, FS_CardinalityType
<1>5. req[s].members \in Int /\ req[s].pending \in Int
  BY DEF TypeOK, Request
<1>6. InviteActsOnNow(s)'
  <2>1. ASSUME Apart("invite", "invite")', Apart("invite", "accept")'
        PROVE  /\ req[s].at = "count" =>
                     /\ req[s].members = Unread \/ Cardinality(Members') <= req[s].members
                     /\ req[s].pending = Unread \/ Cardinality(Pending') <= req[s].pending
               /\ req[s].at \in {"isMember", "invite"} => Taken' < Seats
    <3>1. Apart("invite", "invite") /\ Apart("invite", "accept")
      BY <1>1, <2>1
    <3>2. CASE req[s].at = "count"
      BY <1>2, <1>3, <1>4, <1>5, <3>1, <3>2 DEF ActsOnNow, InviteActsOnNow, InviteSteps
    <3>3. CASE req[s].at \in {"isMember", "invite"}
      BY <1>2, <1>3, <1>4, <3>1, <3>3 DEF ActsOnNow, InviteActsOnNow, InviteSteps, Taken
    <3>4. QED
      BY <3>2, <3>3
  <2>2. req[s].at = "invite" /\ Apart("setRole", "remove")' /\ org' = "active" =>
           req[s].to # Owner
    BY <1>1 DEF ActsOnNow, InviteActsOnNow
  <2>3. QED
    BY <2>1, <2>2 DEF InviteActsOnNow
<1>7. RemoveActsOnNow(s)'
  BY <1>1 DEF ActsOnNow, RemoveActsOnNow
<1>8. OthersActOnNow(s)'
  <2>1. req[s].at = "accept" /\ Apart("accept", "deleteCommit")' => req[s].by \notin closed'
    BY <1>1 DEF ActsOnNow, OthersActOnNow
  <2>2. req[s].at = "createSong" /\ Apart("createSong", "createSong")' => songs' < SongLimit
    BY <1>1 DEF ActsOnNow, OthersActOnNow
  <2>3. req[s].at = "deleteCommit" /\ req[s].by = Owner /\ Apart("deleteCommit", "accept")' =>
           Cardinality(Members') <= 1
    BY <1>1, <1>2, <1>3 DEF ActsOnNow, OthersActOnNow
  <2>4. QED
    BY <2>1, <2>2, <2>3 DEF OthersActOnNow
<1>9. QED
  BY <1>6, <1>7, <1>8 DEF ActsOnNow

\* A step that adds no member, no invitation and no song keeps the rules about
\* rows, when it closes no account of a member and keeps the owner.
LEMMA FewerFit ==
    ASSUME TypeOK, TablesHold, raced \subseteq raced',
           Members' \subseteq Members, Pending' \subseteq Pending,
           org' = "active" => /\ org = "active"
                              /\ Sent' = Sent
                              /\ \A i \in Sent : invite'[i].to = invite[i].to
                              /\ Apart("setRole", "remove") /\ Owner \in Members
                                    => Owner \in Members',
           songs' = songs \/ songs' <= SongLimit,
           \A u \in closed' \ closed : u \notin Members',
           \A u \in Users : member'[u].role = "owner" => member[u].role = "owner"
    PROVE  TablesHold'
<1>1. \A j, k : Apart(j, k)' => Apart(j, k)
  BY DEF Apart
<1>2. /\ Cardinality(Members') <= Cardinality(Members)
      /\ Cardinality(Pending') <= Cardinality(Pending)
      /\ Cardinality(Members') \in Nat /\ Cardinality(Pending') \in Nat
  BY Counts, FS_Subset, FS_CardinalityType
<1>3. Taken' <= Taken /\ Taken \in Int /\ Taken' \in Int
  BY <1>2, Counts DEF Taken
<1>4. SongsWithinPlan'
  BY <1>1 DEF TablesHold, SongsWithinPlan
<1>5. ClosedHoldNoSeat'
  BY <1>1 DEF TablesHold, ClosedHoldNoSeat
<1>6. Apart("invite", "invite")' /\ Apart("invite", "accept")' => Taken' <= Seats
  BY <1>1, <1>3 DEF TablesHold
<1>7. \A u \in Users : member'[u].role = "owner" => u = Owner
  BY DEF TablesHold
<1>8. Apart("setRole", "remove")' /\ org' = "active" =>
         /\ Owner \in Members'
         /\ \A i \in Sent' : invite'[i].to # Owner
  BY <1>1 DEF TablesHold
<1>9. QED
  BY <1>4, <1>5, <1>6, <1>7, <1>8 DEF TablesHold

LEMMA InviteInsertActs ==
    ASSUME IInv, HistoryIsKept, TablesHold, raced \subseteq raced', NEW r \in Requests,
           InviteInsert(r), \A s \in Requests \ {r} : req'[s] = req[s] /\ ActsOnNow(s),
           ActsOnNow(r)
    PROVE  TablesHold' /\ \A s \in Requests \ {r} : ActsOnNow(s)'
<1>1. TypeOK
  BY DEF IInv
<1>2. PICK i \in InvitationId \ Sent :
         invite' = [invite EXCEPT ![i] = [status |-> "pending", to |-> req[r].to,
                                          role |-> req[r].role, expired |-> FALSE]]
  BY DEF InviteInsert
<1>3. UNCHANGED <<org, member, songs, closed>> /\ req[r].at = "invite" /\ org = "active"
  BY DEF InviteInsert
<1>4. Pending' = Pending \union {i} /\ Members' = Members /\ Sent' = Sent \union {i}
  BY <1>1, <1>2, <1>3 DEF Pending, Sent, Members, TypeOK
<1>5. \A j, k : Apart(j, k)' => Apart(j, k)
  BY DEF Apart
<1>6. TablesHold'
  <2>1. Cardinality(Pending') <= Cardinality(Pending) + 1 /\ Cardinality(Pending') \in Nat
    BY <1>1, <1>4, Counts, OneMore
  <2>2. Taken' <= Taken + 1 /\ Taken \in Int /\ Taken' \in Int
    BY <1>1, <1>4, <2>1, Counts DEF Taken
  <2>3. Apart("invite", "invite")' /\ Apart("invite", "accept")' => Taken' <= Seats
    BY <1>3, <1>5, <2>2 DEF ActsOnNow, InviteActsOnNow
  <2>4. Apart("setRole", "remove") => req[r].to # Owner
    BY <1>3 DEF ActsOnNow, InviteActsOnNow
  <2>5. /\ invite'[i].to = req[r].to
        /\ \A j \in InvitationId \ {i} : invite'[j] = invite[j]
    BY <1>1, <1>2 DEF TypeOK
  <2>6. Apart("setRole", "remove")' => \A j \in Sent' : invite'[j].to # Owner
    BY <1>3, <1>4, <1>5, <2>4, <2>5 DEF TablesHold, Sent
  <2>7. QED
    BY <1>3, <1>4, <1>5, <2>3, <2>6 DEF TablesHold, SongsWithinPlan, ClosedHoldNoSeat
<1>7. ASSUME NEW s \in Requests \ {r} PROVE ActsOnNow(s)'
  <2>1. Busy(r) /\ Kind(r) = "invite"
    BY <1>1, <1>3, KindOf DEF InviteSteps
  <2>2. req[s].at \in InviteSteps => ~Apart("invite", "invite")
    BY <1>1, <2>1, KindOf, Beside
  <2>3. QED
    BY <1>1, <1>3, <1>4, <2>2, StillSo
<1>8. QED
  BY <1>6, <1>7

LEMMA AcceptActs ==
    ASSUME IInv, HistoryIsKept, TablesHold, raced \subseteq raced', NEW r \in Requests,
           AcceptCommit(r), \A s \in Requests \ {r} : req'[s] = req[s] /\ ActsOnNow(s),
           ActsOnNow(r)
    PROVE  TablesHold' /\ \A s \in Requests \ {r} : ActsOnNow(s)'
<1> DEFINE i == req[r].invitation
           u == req[r].by
<1>1. TypeOK
  BY DEF IInv
<1>2. /\ i \in InvitationId /\ u \in Users /\ req[r].at = "accept"
      /\ invite[i].status = "pending" /\ invite[i].to = u
  BY Accepting DEF AcceptCommit, StillPending
<1>3. /\ invite' = [invite EXCEPT ![i].status = "accepted"]
      /\ member' = [member EXCEPT ![u] =
                      [role |-> invite[i].role,
                       row  |-> IF u \in Members THEN member[u].row ELSE i]]
      /\ UNCHANGED <<org, songs, closed>>
  BY DEF AcceptCommit
<1>4. invite[i].role \in InvitedRoles
  BY <1>1, <1>2 DEF TypeOK
<1>5. Members' = Members \union {u}
  BY <1>1, <1>2, <1>3, <1>4 DEF Members, TypeOK, InvitedRoles
<1>6. Pending' = Pending \ {i} /\ i \in Pending
  BY <1>1, <1>2, <1>3 DEF Pending, TypeOK
<1>7. Sent' = Sent /\ i \in Sent /\ \A j \in InvitationId : invite'[j].to = invite[j].to
  BY <1>1, <1>2, <1>3 DEF Sent, TypeOK
<1>8. \A j, k : Apart(j, k)' => Apart(j, k)
  BY DEF Apart
<1>9. Apart("setRole", "remove") /\ org = "active" => u # Owner
  BY <1>2, <1>7 DEF TablesHold
<1>10. TablesHold'
  <2>1. Cardinality(Members') <= Cardinality(Members) + 1 /\ Cardinality(Members') \in Nat
    BY <1>1, <1>5, Counts, OneMore
  <2>2. Cardinality(Pending') = Cardinality(Pending) - 1
    BY <1>1, <1>6, Counts, FS_RemoveElement
  <2>3. Taken' <= Taken /\ Taken \in Int /\ Taken' \in Int
    BY <1>1, <2>1, <2>2, Counts DEF Taken
  <2>4. Apart("invite", "invite")' /\ Apart("invite", "accept")' => Taken' <= Seats
    BY <1>8, <2>3 DEF TablesHold
  <2>5. \A v \in Users : member'[v].role = "owner" => v = Owner
    BY <1>1, <1>2, <1>3, <1>4 DEF TablesHold, TypeOK, InvitedRoles
  <2>6. Apart("accept", "deleteCommit") => u \notin closed
    BY <1>2 DEF ActsOnNow, OthersActOnNow
  <2>7. ClosedHoldNoSeat'
    BY <1>3, <1>5, <1>8, <2>6 DEF TablesHold, ClosedHoldNoSeat
  <2>8. Apart("setRole", "remove")' /\ org' = "active" =>
           Owner \in Members' /\ \A j \in Sent' : invite'[j].to # Owner
    BY <1>3, <1>5, <1>7, <1>8 DEF TablesHold, Sent
  <2>9. SongsWithinPlan'
    BY <1>3, <1>8 DEF TablesHold, SongsWithinPlan
  <2>10. QED
    BY <2>4, <2>5, <2>7, <2>8, <2>9 DEF TablesHold
<1>11. ASSUME NEW s \in Requests \ {r} PROVE ActsOnNow(s)'
  <2>1. Busy(r) /\ Kind(r) = "accept"
    BY <1>1, <1>2, KindOf DEF InviteSteps, RemoveSteps, Kinds
  <2>2. /\ req[s].at \in InviteSteps => ~Apart("invite", "accept")
        /\ req[s].at = "deleteCommit" => ~Apart("deleteCommit", "accept")
    BY <1>1, <2>1, KindOf, Beside DEF InviteSteps, RemoveSteps, Kinds
  <2>3. Apart("setRole", "remove") /\ org' = "active" =>
           member'[Owner].role = member[Owner].role
    BY <1>1, <1>2, <1>3, <1>9 DEF TypeOK
  <2>4. QED
    BY <1>1, <1>3, <2>2, <2>3, StillSo
<1>12. QED
  BY <1>10, <1>11

LEMMA RevokeActs ==
    ASSUME IInv, HistoryIsKept, TablesHold, raced \subseteq raced', NEW r \in Requests,
           RevokeUpdate(r), \A s \in Requests \ {r} : req'[s] = req[s] /\ ActsOnNow(s)
    PROVE  TablesHold' /\ \A s \in Requests \ {r} : ActsOnNow(s)'
<1>1. TypeOK
  BY DEF IInv
<1>2. UNCHANGED <<org, member, songs, closed>>
  BY DEF RevokeUpdate
<1>3. \/ invite' = invite
      \/ /\ invite[req[r].invitation].status = "pending"
         /\ invite' = [invite EXCEPT ![req[r].invitation].status = "revoked"]
  BY DEF RevokeUpdate
<1>4. /\ Members' = Members /\ Pending' \subseteq Pending /\ Sent' = Sent
      /\ \A j \in Sent : invite'[j].to = invite[j].to
  <2>1. req[r].invitation \in InvitationId
    BY DEF RevokeUpdate, IInv, RevokesAreSent
  <2>2. \A j \in InvitationId :
           \/ invite'[j] = invite[j]
           \/ /\ invite[j].status = "pending" /\ invite'[j].status = "revoked"
              /\ invite'[j].to = invite[j].to
    BY <1>1, <1>3, <2>1 DEF TypeOK
  <2>3. QED
    BY <1>2, <2>2 DEF Members, Pending, Sent
<1>5. TablesHold'
  BY <1>1, <1>2, <1>4, FewerFit
<1>6. \A s \in Requests \ {r} : ActsOnNow(s)'
  BY <1>1, <1>2, <1>4, StillSo
<1>7. QED
  BY <1>5, <1>6

LEMMA RoleActs ==
    ASSUME IInv, HistoryIsKept, TablesHold, raced \subseteq raced', NEW r \in Requests,
           RoleUpdate(r), \A s \in Requests \ {r} : req'[s] = req[s] /\ ActsOnNow(s)
    PROVE  TablesHold' /\ \A s \in Requests \ {r} : ActsOnNow(s)'
<1> DEFINE u == req[r].to
<1>1. TypeOK /\ u \in Users /\ req[r].role \in InvitedRoles /\ req[r].at = "setRole"
  BY DEF IInv, TypeOK, Request, RoleUpdate
<1>2. UNCHANGED <<org, invite, songs, closed>>
  BY DEF RoleUpdate
<1>3. \/ member' = member
      \/ u \in Members /\ member' = [member EXCEPT ![u].role = req[r].role]
  BY DEF RoleUpdate, HasRow
<1>4. Members' = Members /\ \A v \in Users : member'[v].role = "owner" => member[v].role = "owner"
  BY <1>1, <1>3 DEF Members, TypeOK, InvitedRoles
<1>5. Pending' = Pending /\ Sent' = Sent
  BY <1>2 DEF Pending, Sent
<1>6. TablesHold'
  BY <1>1, <1>2, <1>4, <1>5, FewerFit
<1>7. ASSUME NEW s \in Requests \ {r} PROVE ActsOnNow(s)'
  <2>1. Busy(r) /\ Kind(r) = "setRole"
    BY <1>1, KindOf DEF InviteSteps, RemoveSteps, Kinds
  <2>2. req[s].at = "removeRead" => ~Apart("setRole", "remove")
    BY <1>1, <2>1, KindOf, Beside DEF RemoveSteps
  <2>3. QED
    BY <1>1, <1>2, <1>4, <1>5, <2>2, StillSo
<1>8. QED
  BY <1>6, <1>7

LEMMA RemoveActs ==
    ASSUME IInv, HistoryIsKept, TablesHold, raced \subseteq raced', NEW r \in Requests,
           RemoveDelete(r), \A s \in Requests \ {r} : req'[s] = req[s] /\ ActsOnNow(s),
           ActsOnNow(r)
    PROVE  TablesHold' /\ \A s \in Requests \ {r} : ActsOnNow(s)'
<1> DEFINE u == req[r].to
<1>1. TypeOK /\ u \in Users
  BY DEF IInv, TypeOK, Request
<1>2. UNCHANGED <<org, invite, songs, closed>>
  BY DEF RemoveDelete
<1>3. member' = member \/ member' = [member EXCEPT ![u] = NoMember]
  BY DEF RemoveDelete
<1>4. \A v \in Users : member'[v] = member[v] \/ (v = u /\ member'[v].role = "none")
  BY <1>1, <1>3 DEF TypeOK, NoMember
<1>5. Apart("setRole", "remove") => u # Owner
  BY DEF RemoveDelete, ActsOnNow, RemoveActsOnNow
<1>6. /\ Members' \subseteq Members
      /\ Apart("setRole", "remove") => member'[Owner] = member[Owner]
      /\ \A v \in Users : member'[v].role = "owner" => member[v].role = "owner"
  BY <1>4, <1>5 DEF Members
<1>7. Apart("setRole", "remove") /\ Owner \in Members => Owner \in Members'
  BY <1>6 DEF Members
<1>8. Pending' = Pending /\ Sent' = Sent
  BY <1>2 DEF Pending, Sent
<1>9. TablesHold'
  BY <1>1, <1>2, <1>6, <1>7, <1>8, FewerFit
<1>10. \A s \in Requests \ {r} : ActsOnNow(s)'
  BY <1>1, <1>2, <1>6, <1>8, StillSo
<1>11. QED
  BY <1>9, <1>10

LEMMA SongActs ==
    ASSUME IInv, HistoryIsKept, TablesHold, raced \subseteq raced', NEW r \in Requests,
           SongCreate(r), \A s \in Requests \ {r} : req'[s] = req[s] /\ ActsOnNow(s),
           ActsOnNow(r)
    PROVE  TablesHold' /\ \A s \in Requests \ {r} : ActsOnNow(s)'
<1>1. TypeOK /\ req[r].at = "createSong" /\ songs' = songs + 1
      /\ UNCHANGED <<org, member, invite, closed>>
  BY DEF IInv, SongCreate
<1>2. Members' = Members /\ Pending' = Pending /\ Sent' = Sent
  BY <1>1 DEF Members, Pending, Sent
<1>3. \A j, k : Apart(j, k)' => Apart(j, k)
  BY DEF Apart
<1>4. SongsWithinPlan'
  <2>1. Apart("createSong", "createSong") => songs < SongLimit
    BY <1>1 DEF ActsOnNow, OthersActOnNow
  <2>2. songs \in Nat
    BY <1>1 DEF TypeOK
  <2>3. QED
    BY <1>1, <1>3, <2>1, <2>2 DEF SongsWithinPlan
<1>5. TablesHold'
  BY <1>1, <1>2, <1>3, <1>4 DEF TablesHold, Taken, ClosedHoldNoSeat
<1>6. ASSUME NEW s \in Requests \ {r} PROVE ActsOnNow(s)'
  <2>1. Busy(r) /\ Kind(r) = "createSong"
    BY <1>1, KindOf DEF InviteSteps, RemoveSteps, Kinds
  <2>2. req[s].at = "createSong" => ~Apart("createSong", "createSong")
    BY <1>1, <2>1, KindOf, Beside DEF InviteSteps, RemoveSteps, Kinds
  <2>3. QED
    BY <1>1, <1>2, <2>2, StillSo
<1>7. QED
  BY <1>5, <1>6

LEMMA DeleteActs ==
    ASSUME IInv, HistoryIsKept, TablesHold, raced \subseteq raced', NEW r \in Requests,
           DeleteCommit(r), \A s \in Requests \ {r} : req'[s] = req[s] /\ ActsOnNow(s)
    PROVE  TablesHold' /\ \A s \in Requests \ {r} : ActsOnNow(s)'
<1> DEFINE u == req[r].by
<1>1. TypeOK /\ u \in Users /\ closed' = closed \union {u} /\ req[r].at = "deleteCommit"
  BY DEF IInv, TypeOK, Request, DeleteCommit
<1>2. /\ Members' \subseteq Members /\ Pending' \subseteq Pending /\ u \notin Members'
      /\ songs' = songs \/ songs' = 0
      /\ \A v \in Users : member'[v].role = "owner" => member[v].role = "owner"
      /\ org' = "active" => /\ org = "active" /\ u # Owner
                            /\ invite' = invite /\ Sent' = Sent
                            /\ member'[Owner] = member[Owner]
  <2>1. CASE u = Owner
    <3>1. /\ org' = "deleted" /\ songs' = 0
          /\ member' = [m \in Users |-> NoMember]
          /\ invite' = [i \in InvitationId |-> NoInvitation]
      BY <2>1 DEF DeleteCommit
    <3>2. Members' = {} /\ Pending' = {} /\ \A v \in Users : member'[v].role # "owner"
      BY <3>1 DEF Members, Pending, NoMember, NoInvitation
    <3>3. QED
      BY <3>1, <3>2
  <2>2. CASE u # Owner
    <3>1. member' = [member EXCEPT ![u] = NoMember] /\ UNCHANGED <<org, invite, songs>>
      BY <2>2 DEF DeleteCommit
    <3>2. Members' = Members \ {u} /\ Pending' = Pending /\ Sent' = Sent
      BY <1>1, <3>1 DEF Members, Pending, Sent, NoMember, TypeOK
    <3>3. /\ \A v \in Users : member'[v].role = "owner" => member[v].role = "owner"
          /\ member'[Owner] = member[Owner]
      BY <1>1, <2>2, <3>1 DEF NoMember, TypeOK
    <3>4. QED
      BY <2>2, <3>1, <3>2, <3>3
  <2>3. QED
    BY <2>1, <2>2
<1>3. TablesHold'
  <2>1. songs' = songs \/ songs' <= SongLimit
    BY <1>2
  <2>2. org' = "active" /\ Owner \in Members => Owner \in Members'
    BY <1>2 DEF Members
  <2>3. QED
    BY <1>1, <1>2, <2>1, <2>2, FewerFit
<1>4. ASSUME NEW s \in Requests \ {r} PROVE ActsOnNow(s)'
  <2>1. Busy(r) /\ Kind(r) = "deleteCommit"
    BY <1>1, KindOf DEF InviteSteps, RemoveSteps, Kinds
  <2>2. req[s].at = "accept" => ~Apart("accept", "deleteCommit")
    BY <1>1, <2>1, KindOf, Beside DEF InviteSteps, RemoveSteps, Kinds
  <2>3. req[s].at = "createSong" /\ Apart("createSong", "createSong") =>
           songs' < SongLimit \/ songs' = songs
    BY <1>1, <1>2 DEF ActsOnNow, OthersActOnNow, TypeOK
  <2>4. QED
    BY <1>1, <1>2, <2>2, <2>3, StillSo
<1>5. QED
  BY <1>3, <1>4

LEMMA ExpireActs ==
    ASSUME IInv, TablesHold, raced \subseteq raced', NEW i \in InvitationId, Expire(i),
           \A s \in Requests : ActsOnNow(s)
    PROVE  TablesHold' /\ \A s \in Requests : ActsOnNow(s)'
<1>1. TypeOK /\ invite' = [invite EXCEPT ![i].expired = TRUE]
      /\ UNCHANGED <<org, member, songs, closed, req>>
  BY DEF IInv, Expire
<1>2. \A j \in InvitationId : /\ invite'[j].status = invite[j].status
                              /\ invite'[j].to = invite[j].to
  BY <1>1 DEF TypeOK
<1>3. Members' = Members /\ Pending' = Pending /\ Sent' = Sent
  BY <1>1, <1>2 DEF Members, Pending, Sent
<1>4. \A j \in Sent : invite'[j].to = invite[j].to
  BY <1>2 DEF Sent
<1>5. TablesHold'
  BY <1>1, <1>3, <1>4, FewerFit
<1>6. \A s \in Requests : ActsOnNow(s)'
  BY <1>1, <1>3, StillSo
<1>7. QED
  BY <1>5, <1>6

-------------------------------------------------------------------------------
(* The invariant of the races *)

LEMMA RaceStep ==
    ASSUME IInv, RaceInv, [Next]_vars
    PROVE  RaceInv'
<1>1. /\ raced \subseteq raced' /\ HistoryIsKept' /\ HistoryIsKept /\ TablesHold
      /\ \A s \in Requests : ActsOnNow(s)
  BY HistoryGrows, HistoryStep DEF RaceInv
<1>2. CASE UNCHANGED vars
  <2>1. UNCHANGED tables /\ req' = req
    BY <1>2 DEF vars, tables
  <2>2. TablesHold' /\ \A s \in Requests : ActsOnNow(s)'
    BY <1>1, <2>1, QuietTables, QuietActs
  <2>3. QED
    BY <1>1, <2>2 DEF RaceInv
<1>3. ASSUME NEW r \in Requests, Start(r) \/ Step(r) \/ Fail(r)
      PROVE  RaceInv'
  <2>1. \A s \in Requests \ {r} : req'[s] = req[s] /\ ActsOnNow(s)
    BY <1>1, <1>3, OthersStay
  <2>2. ActsOnNow(r)
    BY <1>1
  <2>3. CASE Start(r) \/ ReadStep(r)
    <3>1. UNCHANGED tables
      BY <2>3 DEF Start, InviteBegin, RevokeBegin, AcceptBegin, RoleBegin, RemoveBegin,
         SongCount, DeleteRead, ReadStep, CountMembers, CountPending, InviteAllowed,
         InviteRefused, InviteCheck, AcceptGone, RemoveRead, WorkspaceGone, Fail
    <3>2. ActsOnNow(r)'
      BY <1>1, <2>2, <2>3, StartActs, ReadActs
    <3>3. TablesHold' /\ \A s \in Requests \ {r} : ActsOnNow(s)'
      BY <1>1, <2>1, <3>1, QuietTables, QuietActs
    <3>4. QED
      BY <1>1, <3>2, <3>3 DEF RaceInv
  <2>4. CASE \/ InviteInsert(r) \/ RevokeUpdate(r) \/ AcceptCommit(r) \/ RoleUpdate(r)
             \/ RemoveDelete(r) \/ SongCreate(r) \/ DeleteCommit(r)
    <3>1. ActsOnNow(r)'
      BY <2>4, EndedActs DEF IInv, InviteInsert, RevokeUpdate, AcceptCommit, RoleUpdate,
         RemoveDelete, SongCreate, DeleteCommit
    <3>2. TablesHold' /\ \A s \in Requests \ {r} : ActsOnNow(s)'
      <4>1. CASE InviteInsert(r) \/ AcceptCommit(r)
        BY <1>1, <2>1, <2>2, <4>1, InviteInsertActs, AcceptActs
      <4>2. CASE RevokeUpdate(r) \/ RoleUpdate(r) \/ RemoveDelete(r)
        BY <1>1, <2>1, <2>2, <4>2, RevokeActs, RoleActs, RemoveActs
      <4>3. CASE SongCreate(r) \/ DeleteCommit(r)
        BY <1>1, <2>1, <2>2, <4>3, SongActs, DeleteActs
      <4>4. QED
        BY <2>4, <4>1, <4>2, <4>3
    <3>3. QED
      BY <1>1, <3>1, <3>2 DEF RaceInv
  <2>5. QED
    BY <1>3, <2>3, <2>4 DEF Step, ReadStep
<1>4. ASSUME NEW i \in InvitationId, Expire(i)
      PROVE  RaceInv'
  BY <1>1, <1>4, ExpireActs DEF RaceInv
<1>5. QED
  BY <1>2, <1>3, <1>4 DEF Next, Run

\* What a request has read is still so when it acts on it, unless a handler that
\* changes it has overlapped.
THEOREM RaceInvariantHolds == Spec => []RaceInv
<1>1. Init => RaceInv
  <2> SUFFICES ASSUME Init PROVE RaceInv
    OBVIOUS
  <2>1. \A r \in Requests : req[r].at = "idle"
    BY DEF Init, Idle
  <2>2. Members = {Owner} /\ Pending = {} /\ Sent = {}
    BY DEF Init, Members, Pending, Sent, NoMember, NoInvitation
  <2>3. Cardinality(Members) = 1 /\ Cardinality(Pending) = 0
    BY <2>2, FS_Singleton, FS_EmptySet
  <2>4. TablesHold
    BY <2>2, <2>3
       DEF Init, TablesHold, Taken, NoMember, SongsWithinPlan, ClosedHoldNoSeat
  <2>5. HistoryIsKept
    BY <2>1 DEF HistoryIsKept, Overlaps, Busy
  <2>6. \A r \in Requests : ActsOnNow(r)
    BY <2>1 DEF ActsOnNow, InviteActsOnNow, RemoveActsOnNow, OthersActOnNow
  <2>7. QED
    BY <2>4, <2>5, <2>6 DEF RaceInv
<1>2. IInv /\ RaceInv /\ [Next]_vars => RaceInv'
  BY RaceStep
<1>3. QED
  BY <1>1, <1>2, InvariantHolds, PTL DEF Spec

\* No more people in the workspace than seats, unless an invitation was made
\* beside another one or beside an acceptance.
THEOREM SeatsKept == Spec => []SeatsWithinPlan
<1>1. IInv /\ RaceInv => SeatsWithinPlan
  BY Counts DEF IInv, RaceInv, TablesHold, Taken, SeatsWithinPlan
<1>2. QED
  BY <1>1, InvariantHolds, RaceInvariantHolds, PTL

\* No more songs than the plan allows, unless two were created side by side.
THEOREM SongsKept == Spec => []SongsWithinPlan
<1>1. RaceInv => SongsWithinPlan
  BY DEF RaceInv, TablesHold
<1>2. QED
  BY <1>1, RaceInvariantHolds, PTL

\* The owner stays in the workspace, unless a role was changed beside a removal.
THEOREM OwnerStays == Spec => []OwnerIsMember
<1>1. RaceInv => OwnerIsMember
  BY DEF RaceInv, TablesHold, OwnerIsMember
<1>2. QED
  BY <1>1, RaceInvariantHolds, PTL

\* A closed account gives its seat back, unless someone joined beside a
\* deletion.
THEOREM ClosedLeave == Spec => []ClosedHoldNoSeat
<1>1. RaceInv => ClosedHoldNoSeat
  BY DEF RaceInv, TablesHold
<1>2. QED
  BY <1>1, RaceInvariantHolds, PTL

\* Only the deletion of the owner's account ends the workspace.
LEMMA WhoEnds ==
    ASSUME [Next]_vars, org # "deleted", org' = "deleted"
    PROVE  \E r \in Requests : DeleteCommit(r) /\ req[r].by = Owner
  BY DEF Next, Run, vars, Start, Step, Fail, InviteBegin, RevokeBegin, AcceptBegin,
     RoleBegin, RemoveBegin, SongCount, DeleteRead, CountMembers, CountPending,
     InviteAllowed, InviteRefused, InviteCheck, InviteInsert, RevokeUpdate, AcceptCommit,
     AcceptGone, RoleUpdate, RemoveRead, RemoveDelete, SongCreate, WorkspaceGone,
     DeleteCommit, Expire, tables

LEMMA OrphanStep ==
    ASSUME IInv, RaceInv, [Next]_vars, org' = "deleted",
           Apart("deleteCommit", "accept"), Apart("setRole", "remove")
    PROVE  Members \subseteq {Owner}
<1>1. TypeOK /\ TablesHold
  BY DEF IInv, RaceInv
<1>2. CASE org = "deleted"
  BY <1>2 DEF IInv, DeletedIsEmpty
<1>3. CASE org # "deleted"
  <2>1. PICK r \in Requests : DeleteCommit(r) /\ req[r].by = Owner
    BY <1>3, WhoEnds
  <2>2. Cardinality(Members) <= 1
    BY <2>1 DEF RaceInv, ActsOnNow, OthersActOnNow, DeleteCommit
  <2>3. Owner \in Members
    BY <1>1, <1>3 DEF TablesHold, TypeOK
  <2>4. Cardinality(Members \ {Owner}) = Cardinality(Members) - 1
        /\ IsFiniteSet(Members \ {Owner})
    BY <1>1, <2>3, Counts, FS_RemoveElement
  <2>5. Cardinality(Members \ {Owner}) \in Nat
    BY <2>4, FS_CardinalityType
  <2>6. Cardinality(Members \ {Owner}) = 0
    BY <1>1, <2>2, <2>4, <2>5, Counts
  <2>7. QED
    BY <2>4, <2>6, FS_EmptySet
<1>4. QED
  BY <1>2, <1>3

\* A workspace that has other members is not deleted, unless someone joined
\* beside the deletion of an account, or a role was changed beside a removal.
THEOREM NotOrphaned == Spec => NoOrphans
<1>1. IInv /\ RaceInv /\ [Next]_vars =>
         [Apart("deleteCommit", "accept") /\ Apart("setRole", "remove") /\ org' = "deleted"
            => Members \subseteq {Owner}]_vars
  BY OrphanStep
<1>2. QED
  BY <1>1, InvariantHolds, RaceInvariantHolds, PTL DEF Spec, NoOrphans

\* With one request at a time every rule holds without exception: all the
\* exceptions of this module are about requests that overlap.
THEOREM OneAtATime ==
    ASSUME \A r, q \in Requests : r = q
    PROVE  Spec =>
              /\ [](/\ Cardinality(Members) <= Seats /\ songs <= SongLimit
                    /\ org = "active" => Owner \in Members
                    /\ closed \intersect Members = {})
              /\ [][org' = "deleted" => Members \subseteq {Owner}]_vars
<1>1. Init => raced = {}
  BY DEF Init
<1>2. raced = {} /\ [Next]_vars => (raced = {})'
  <2>1. Overlaps' = {}
    BY DEF Overlaps
  <2>2. QED
    BY <2>1 DEF Next, Track, vars
<1>3. raced = {} => \A j, k : Apart(j, k)
  BY DEF Apart
<1>4. raced = {} /\ SeatsWithinPlan /\ SongsWithinPlan /\ OwnerIsMember /\ ClosedHoldNoSeat =>
         /\ Cardinality(Members) <= Seats /\ songs <= SongLimit
         /\ org = "active" => Owner \in Members
         /\ closed \intersect Members = {}
  BY <1>3 DEF SeatsWithinPlan, SongsWithinPlan, OwnerIsMember, ClosedHoldNoSeat
<1>5. /\ raced = {}
      /\ [Apart("deleteCommit", "accept") /\ Apart("setRole", "remove") /\ org' = "deleted"
            => Members \subseteq {Owner}]_vars
      => [org' = "deleted" => Members \subseteq {Owner}]_vars
  BY <1>3
<1>6. Spec => [](raced = {})
  BY <1>1, <1>2, PTL DEF Spec
<1>7. Spec => [](/\ Cardinality(Members) <= Seats /\ songs <= SongLimit
                 /\ org = "active" => Owner \in Members
                 /\ closed \intersect Members = {})
  BY <1>4, <1>6, SeatsKept, SongsKept, OwnerStays, ClosedLeave, PTL
<1>8. Spec => [][org' = "deleted" => Members \subseteq {Owner}]_vars
  BY <1>5, <1>6, NotOrphaned, PTL DEF NoOrphans
<1>9. QED
  BY <1>7, <1>8
=============================================================================
