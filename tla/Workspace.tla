------------------------------ MODULE Workspace ------------------------------
(***************************************************************************)
(* One workspace under a plan: its members and their roles, the invitations*)
(* to join it, the number of its songs, and its end with the account of    *)
(* its owner (server/routes.ts, sections 1, 1b and 3, over server/repo.ts  *)
(* and server/plans.ts).                                                   *)
(*                                                                         *)
(* Each statement commits on its own, but for the acceptance of an         *)
(* invitation, the creation of a song and the deletion of an account,      *)
(* whose transactions show in one step.  The plan has limits and does not  *)
(* change here, nor do the addresses of the users, who have workspaces of  *)
(* their own and may sign in without being members of this one.            *)
(***************************************************************************)
EXTENDS Integers, FiniteSets, FiniteSetsExt

CONSTANTS
    Requests,       \* request handlers that may be running at the same time
    Users,
    Owner,          \* the user who registered the workspace
    MaxInvitations, \* bound on the invitations sent
    Seats,          \* maxTeamMembers of the plan
    SongLimit       \* maxSongs of the plan

ASSUME WorkspaceAssumption ==
    /\ Owner \in Users /\ IsFiniteSet(Users)
    /\ MaxInvitations \in Nat /\ Seats \in Nat \ {0} /\ SongLimit \in Nat

InvitationId == 1..MaxInvitations
Roles        == {"owner", "admin", "member"}
InvitedRoles == {"admin", "member"}

VARIABLES
    org,        \* whether the organisations row is there
    member,     \* organisation_members by user; role "none" is a row not there,
                \* and row the invitation that made it (0 for the owner's)
    invite,     \* organisation_invitations, with the user of each address
    songs,      \* how many songs the workspace has
    closed,     \* the users who deleted their account
    req,        \* what each request is doing, with what it has read
    raced       \* history: which handlers were running at the same time

tables == <<org, member, invite, songs, closed>>
vars   == <<org, member, invite, songs, closed, req, raced>>

-------------------------------------------------------------------------------
(* Requests *)

Members == {u \in Users : member[u].role # "none"}
Pending == {i \in InvitationId : invite[i].status = "pending"}
Sent    == {i \in InvitationId : invite[i].status # "none"}

Unread == -1
Idle == [at |-> "idle", by |-> Owner, to |-> Owner, row |-> 0, role |-> "member",
         members |-> Unread, pending |-> Unread, invitation |-> 0]
NoMember == [role |-> "none", row |-> 0]
NoInvitation == [status |-> "none", to |-> Owner, role |-> "member", expired |-> FALSE]

Begin(r, q)   == req[r].at = "idle" /\ req' = [req EXCEPT ![r] = q]
Goto(r, step) == req' = [req EXCEPT ![r].at = step]
Finish(r)     == req' = [req EXCEPT ![r] = Idle]

\* requireAuth, with this workspace as x-org-id, and requireRole, which are not
\* asked again.
SignedIn(u)  == u \in Members /\ u \notin closed
MayManage(u) == SignedIn(u) /\ member[u].role \in {"owner", "admin"}
IsOwner(u)   == SignedIn(u) /\ member[u].role = "owner"

\* The bounds count what open requests may still add.
RoomForInvitation ==
    Cardinality(Sent) + Cardinality({r \in Requests : req[r].at \in {"count", "isMember", "invite"}})
        < MaxInvitations

-------------------------------------------------------------------------------
(* POST and DELETE /team/invitations *)

InviteBegin(r) ==
    /\ RoomForInvitation
    /\ \E u, to \in Users, role \in InvitedRoles :
         /\ MayManage(u)
         /\ Begin(r, [Idle EXCEPT !.at = "count", !.by = u, !.to = to, !.role = role])
    /\ UNCHANGED tables

\* The two counts of Promise.all run on connections of their own, in any order.
CountMembers(r) ==
    /\ req[r].at = "count" /\ req[r].members = Unread
    /\ req' = [req EXCEPT ![r].members = Cardinality(Members)]
    /\ UNCHANGED tables

\* Expired invitations are pending still.
CountPending(r) ==
    /\ req[r].at = "count" /\ req[r].pending = Unread
    /\ req' = [req EXCEPT ![r].pending = Cardinality(Pending)]
    /\ UNCHANGED tables

Counted(r) == req[r].at = "count" /\ req[r].members # Unread /\ req[r].pending # Unread

SeatFreeMembersOnly(r) == req[r].members < Seats    \* mutant: invitations not counted
SeatFree(r) == req[r].members + req[r].pending < Seats

InviteAllowed(r) ==
    /\ Counted(r) /\ SeatFree(r)
    /\ Goto(r, "isMember")
    /\ UNCHANGED tables

\* 402, PLAN_LIMIT_REACHED.
InviteRefused(r) ==
    /\ Counted(r) /\ ~SeatFree(r)
    /\ Finish(r)
    /\ UNCHANGED tables

\* 409 when the invited address is that of a member.
InviteCheck(r) ==
    /\ req[r].at = "isMember"
    /\ IF req[r].to \in Members THEN Finish(r) ELSE Goto(r, "invite")
    /\ UNCHANGED tables

InviteInsert(r) ==
    /\ req[r].at = "invite" /\ org = "active"
    /\ \E i \in InvitationId \ Sent :
         /\ 1..(i - 1) \subseteq Sent
         /\ invite' = [invite EXCEPT ![i] = [status |-> "pending", to |-> req[r].to,
                                             role |-> req[r].role, expired |-> FALSE]]
    /\ Finish(r)
    /\ UNCHANGED <<org, member, songs, closed>>

RevokeBegin(r) ==
    /\ \E u \in Users, i \in Sent :
         /\ MayManage(u)
         /\ Begin(r, [Idle EXCEPT !.at = "revoke", !.by = u, !.invitation = i])
    /\ UNCHANGED tables

RevokeUpdateAny(r) ==                       \* mutant: AND status = 'pending' is dropped
    /\ req[r].at = "revoke"
    /\ invite' = [invite EXCEPT ![req[r].invitation].status = "revoked"]
    /\ Finish(r)
    /\ UNCHANGED <<org, member, songs, closed>>

\* UPDATE ... WHERE status = 'pending'
RevokeUpdate(r) ==
    LET i == req[r].invitation
    IN /\ req[r].at = "revoke"
       /\ invite' = IF invite[i].status = "pending"
                    THEN [invite EXCEPT ![i].status = "revoked"] ELSE invite
       /\ Finish(r)
       /\ UNCHANGED <<org, member, songs, closed>>

-------------------------------------------------------------------------------
(* POST /team/invitations/token/:rawToken/accept *)

\* Signed in as the invited address; findTeamInvitationByToken.
AcceptBegin(r) ==
    /\ \E i \in Pending :
         /\ ~invite[i].expired
         /\ invite[i].to \notin closed
         /\ Begin(r, [Idle EXCEPT !.at = "accept", !.by = invite[i].to, !.invitation = i])
    /\ UNCHANGED tables

AcceptRecheckDropped(r, i) ==               \* mutant: AND status = 'pending' is dropped
    req[r].at = "accept" /\ invite[i].status # "none"

\* The UPDATE of acceptTeamInvitation finds its row.
StillPending(r, i) ==
    req[r].at = "accept" /\ invite[i].status = "pending"

\* acceptTeamInvitation: INSERT ... ON CONFLICT DO UPDATE SET role.
AcceptCommit(r) ==
    LET i == req[r].invitation
        u == req[r].by
    IN /\ StillPending(r, i)
       /\ invite' = [invite EXCEPT ![i].status = "accepted"]
       /\ member' = [member EXCEPT ![u] =
                       [role |-> invite[i].role,
                        row  |-> IF u \in Members THEN member[u].row ELSE i]]
       /\ Finish(r)
       /\ UNCHANGED <<org, songs, closed>>

\* 410; the invitations of a workspace go with it.
AcceptGone(r) ==
    /\ req[r].at = "accept"
    /\ invite[req[r].invitation].status # "pending"
    /\ Finish(r)
    /\ UNCHANGED tables

-------------------------------------------------------------------------------
(* PATCH and DELETE /team/members/:id *)

\* A row of organisation_members is named by its user and its row number.
HasRow(u, row) == u \in Members /\ member[u].row = row

RoleBegin(r) ==
    /\ \E u \in Users, m \in Members, role \in InvitedRoles :
         /\ IsOwner(u)
         /\ Begin(r, [Idle EXCEPT !.at = "setRole", !.by = u, !.to = m,
                                  !.row = member[m].row, !.role = role])
    /\ UNCHANGED tables

\* updateMemberRole, whatever role the row has.
RoleUpdate(r) ==
    LET u == req[r].to
    IN /\ req[r].at = "setRole"
       /\ member' = IF HasRow(u, req[r].row)
                    THEN [member EXCEPT ![u].role = req[r].role] ELSE member
       /\ Finish(r)
       /\ UNCHANGED <<org, invite, songs, closed>>

RemoveBegin(r) ==
    /\ \E u \in Users, m \in Members :
         /\ IsOwner(u)
         /\ Begin(r, [Idle EXCEPT !.at = "removeRead", !.by = u, !.to = m,
                                  !.row = member[m].row])
    /\ UNCHANGED tables

OwnerRemovable(r) == HasRow(req[r].to, req[r].row)  \* mutant: no 400 for the owner

\* 404 when the row is not there, 400 when its role is owner.
Removable(r) ==
    HasRow(req[r].to, req[r].row) /\ member[req[r].to].role # "owner"

RemoveRead(r) ==
    /\ req[r].at = "removeRead"
    /\ IF Removable(r) THEN Goto(r, "remove") ELSE Finish(r)
    /\ UNCHANGED tables

RemoveDelete(r) ==
    LET u == req[r].to
    IN /\ req[r].at = "remove"
       /\ member' = IF HasRow(u, req[r].row) THEN [member EXCEPT ![u] = NoMember] ELSE member
       /\ Finish(r)
       /\ UNCHANGED <<org, invite, songs, closed>>

-------------------------------------------------------------------------------
(* POST /songs and DELETE /account *)

SongWithinLimitOffByOne == songs <= SongLimit       \* mutant: > for >=
SongWithinLimit == songs < SongLimit

\* countSongsForOrganisation and the 402.
SongCount(r) ==
    /\ SongWithinLimit
    /\ \E u \in Users : SignedIn(u) /\ Begin(r, [Idle EXCEPT !.at = "createSong", !.by = u])
    /\ UNCHANGED tables

SongCreate(r) ==
    /\ req[r].at = "createSong" /\ org = "active"
    /\ songs' = songs + 1
    /\ Finish(r)
    /\ UNCHANGED <<org, member, invite, closed>>

\* The handler answers 500 when a row refers to a workspace that is gone.
WorkspaceGone(r) ==
    /\ req[r].at \in {"createSong", "invite"} /\ org = "deleted"
    /\ Finish(r)
    /\ UNCHANGED tables

DeleteReadUnblocked(r) ==                   \* mutant: no 409
    /\ \E u \in Users \ closed : Begin(r, [Idle EXCEPT !.at = "deleteCommit", !.by = u])
    /\ UNCHANGED tables

\* getOwnedOrganisationsForDeletion: 409 when memberCount > 1.
DeleteRead(r) ==
    /\ \E u \in Users \ closed :
         /\ u = Owner => Cardinality(Members) <= 1
         /\ Begin(r, [Idle EXCEPT !.at = "deleteCommit", !.by = u])
    /\ UNCHANGED tables

DeleteCommitKeepsSeat(r) ==                 \* mutant: memberships are left
    LET u == req[r].by
    IN /\ req[r].at = "deleteCommit"
       /\ closed' = closed \union {u}
       /\ IF u = Owner
          THEN /\ org' = "deleted"
               /\ member' = [m \in Users |-> NoMember]
               /\ invite' = [i \in InvitationId |-> NoInvitation]
               /\ songs' = 0
          ELSE UNCHANGED <<org, member, invite, songs>>
       /\ Finish(r)

\* The owned workspace goes with its members, invitations and songs (ON DELETE
\* CASCADE); of another's workspace only the membership goes.
DeleteCommit(r) ==
    LET u == req[r].by
    IN /\ req[r].at = "deleteCommit"
       /\ closed' = closed \union {u}
       /\ IF u = Owner
          THEN /\ org' = "deleted"
               /\ member' = [m \in Users |-> NoMember]
               /\ invite' = [i \in InvitationId |-> NoInvitation]
               /\ songs' = 0
          ELSE /\ member' = [member EXCEPT ![u] = NoMember]
               /\ UNCHANGED <<org, invite, songs>>
       /\ Finish(r)

-------------------------------------------------------------------------------
(* Failures and the clock *)

\* A statement fails, or the server stops between two statements.
Fail(r) == req[r].at # "idle" /\ Finish(r) /\ UNCHANGED tables

Expire(i) ==
    /\ i \in Pending /\ ~invite[i].expired
    /\ invite' = [invite EXCEPT ![i].expired = TRUE]
    /\ UNCHANGED <<org, member, songs, closed, req>>

-------------------------------------------------------------------------------
(* The specification *)

Init ==
    /\ org = "active"
    /\ member = [u \in Users |-> IF u = Owner THEN [role |-> "owner", row |-> 0]
                                             ELSE NoMember]
    /\ invite = [i \in InvitationId |-> NoInvitation]
    /\ songs = 0
    /\ closed = {}
    /\ req = [r \in Requests |-> Idle]
    /\ raced = {}

Start(r) == \/ InviteBegin(r) \/ RevokeBegin(r) \/ AcceptBegin(r) \/ RoleBegin(r)
            \/ RemoveBegin(r) \/ SongCount(r) \/ DeleteRead(r)

Step(r) == \/ CountMembers(r) \/ CountPending(r) \/ InviteAllowed(r) \/ InviteRefused(r)
           \/ InviteCheck(r) \/ InviteInsert(r) \/ RevokeUpdate(r)
           \/ AcceptCommit(r) \/ AcceptGone(r) \/ RoleUpdate(r)
           \/ RemoveRead(r) \/ RemoveDelete(r) \/ SongCreate(r)
           \/ WorkspaceGone(r) \/ DeleteCommit(r)

Run == \/ \E r \in Requests : Start(r) \/ Step(r) \/ Fail(r)
       \/ \E i \in InvitationId : Expire(i)

InviteSteps == {"count", "isMember", "invite"}
RemoveSteps == {"removeRead", "remove"}

Kinds == {"invite", "revoke", "accept", "setRole", "remove", "createSong", "deleteCommit"}
Pairs == {{j, k} : j, k \in Kinds}

Busy(r) == req[r].at # "idle"

\* Which handler a request runs, and which run beside each other.
Kind(r) == CASE req[r].at \in InviteSteps -> "invite"
             [] req[r].at \in RemoveSteps -> "remove"
             [] OTHER                     -> req[r].at

Overlaps == {p \in Pairs : \E r, q \in Requests :
                r # q /\ Busy(r) /\ Busy(q) /\ p = {Kind(r), Kind(q)}}

\* The history goes along with every step.
Track == raced' = raced \union Overlaps'

\* No two requests of these kinds have overlapped.
Apart(j, k) == {j, k} \notin raced

Next == Run /\ Track

Spec == Init /\ [][Next]_vars

-------------------------------------------------------------------------------
(* Properties *)

Places == {"idle", "count", "isMember", "invite", "revoke", "accept", "setRole",
           "removeRead", "remove", "createSong", "deleteCommit"}

Request ==
    [at : Places, by : Users, to : Users, row : {0} \union InvitationId,
     role : InvitedRoles, members : Int, pending : Int,
     invitation : {0} \union InvitationId]

\* The tables hold the rows that schema.sql allows, and a request what its
\* fields say.
TypeOK ==
    /\ org \in {"active", "deleted"}
    /\ member \in [Users -> [role : Roles \union {"none"}, row : {0} \union InvitationId]]
    /\ invite \in [InvitationId -> [status : {"none", "pending", "accepted", "revoked"},
                                    to : Users, role : InvitedRoles, expired : BOOLEAN]]
    /\ songs \in Nat
    /\ closed \subseteq Users
    /\ req \in [Requests -> Request]

\* Nobody is in the workspace but its owner and the people who accepted an
\* invitation sent to their own address; that invitation stays on file as
\* accepted for as long as they are members.
MembersWereInvited ==
    \A u \in Members :
        IF member[u].row = 0
        THEN u = Owner
        ELSE /\ invite[member[u].row].status = "accepted"
             /\ invite[member[u].row].to = u

JoinsByInvitation ==
    \A u \in Users :
        member[u].role = "none" /\ member'[u].role # "none" =>
            \E i \in InvitationId : /\ invite[i].to = u
                                   /\ invite[i].status = "pending"
                                   /\ invite'[i].status = "accepted"

\* A person who is not a member becomes one only by using up an invitation that
\* was still pending: neither a second click on the same invitation nor one
\* that was revoked meanwhile brings a removed member back.
JoiningUsesInvitation == [][JoinsByInvitation]_vars

\* An invitation is answered once: accepted and revoked are final, until the
\* workspace is deleted.
InvitationsAreFinal ==
    [][\A i \in InvitationId :
          invite[i].status \in {"accepted", "revoked"} /\ org' = "active"
              => invite'[i] = invite[i]]_vars

\* plans.ts: no more people in the workspace than the plan has seats, unless an
\* invitation was made beside another one or beside an acceptance.
SeatsWithinPlan ==
    Apart("invite", "invite") /\ Apart("invite", "accept") => Cardinality(Members) <= Seats

\* plans.ts: no more songs than the plan allows to create, unless two were
\* created side by side.
SongsWithinPlan == Apart("createSong", "createSong") => songs <= SongLimit

\* routes.ts: the owner cannot be removed from the workspace, unless a role was
\* changed beside a removal.
OwnerIsMember == Apart("setRole", "remove") /\ org = "active" => Owner \in Members

\* routes.ts: closing the account of the owner does not delete a workspace that
\* has other members, unless someone joined beside it (or the owner was removed).
NoOrphans ==
    [][Apart("deleteCommit", "accept") /\ Apart("setRole", "remove") /\ org' = "deleted"
          => Members \subseteq {Owner}]_vars

\* A closed account holds no seat of the workspace, unless someone joined beside
\* the deletion of an account.
ClosedHoldNoSeat == Apart("accept", "deleteCommit") => closed \intersect Members = {}

-------------------------------------------------------------------------------
(* The inductive invariant behind these properties *)

\* An invitation that has been asked to be accepted was sent to that user, for
\* as long as the workspace is there.
AcceptsAreAddressed ==
    \A r \in Requests : req[r].at = "accept" =>
        /\ req[r].invitation \in InvitationId
        /\ org = "active" => /\ invite[req[r].invitation].status # "none"
                            /\ invite[req[r].invitation].to = req[r].by

\* After the deletion of the workspace none of its rows is left.
DeletedIsEmpty ==
    org = "deleted" => /\ Members = {}
                       /\ \A i \in InvitationId : invite[i].status = "none"

\* A revocation names an invitation.
RevokesAreSent ==
    \A r \in Requests : req[r].at = "revoke" => req[r].invitation \in InvitationId

IInv == TypeOK /\ AcceptsAreAddressed /\ RevokesAreSent /\ DeletedIsEmpty /\ MembersWereInvited

\* Two requests that are running are on record as having overlapped.
HistoryIsKept == Overlaps \subseteq raced

\* Seats in use, and those kept for people who were asked to join.
Taken == Cardinality(Members) + Cardinality(Pending)

\* The rules about rows that overlaps can break.
TablesHold ==
    /\ Apart("invite", "invite") /\ Apart("invite", "accept") => Taken <= Seats
    /\ SongsWithinPlan
    /\ \A u \in Users : member[u].role = "owner" => u = Owner
    /\ Apart("setRole", "remove") /\ org = "active" =>
          /\ Owner \in Members
          /\ \A i \in Sent : invite[i].to # Owner
    /\ ClosedHoldNoSeat

\* What request r has read is still so when it acts on it, unless a handler that
\* changes it has overlapped.  What an invitation has counted may have become
\* less.
InviteActsOnNow(r) ==
    LET q == req[r]
    IN /\ Apart("invite", "invite") /\ Apart("invite", "accept") =>
             /\ q.at = "count" => /\ q.members = Unread \/ Cardinality(Members) <= q.members
                                  /\ q.pending = Unread \/ Cardinality(Pending) <= q.pending
             /\ q.at \in {"isMember", "invite"} => Taken < Seats
       /\ q.at = "invite" /\ Apart("setRole", "remove") /\ org = "active" => q.to # Owner

RemoveActsOnNow(r) ==
    LET q == req[r]
    IN Apart("setRole", "remove") =>
          /\ q.at = "removeRead" /\ org = "active" => member[Owner].role = "owner"
          /\ q.at = "remove" => q.to # Owner

OthersActOnNow(r) ==
    LET q == req[r]
    IN /\ q.at = "accept" /\ Apart("accept", "deleteCommit") => q.by \notin closed
       /\ q.at = "createSong" /\ Apart("createSong", "createSong") => songs < SongLimit
       /\ q.at = "deleteCommit" /\ q.by = Owner /\ Apart("deleteCommit", "accept") =>
             Cardinality(Members) <= 1

ActsOnNow(r) == InviteActsOnNow(r) /\ RemoveActsOnNow(r) /\ OthersActOnNow(r)

\* Why the properties above hold.
RaceInv ==
    /\ HistoryIsKept
    /\ TablesHold
    /\ \A r \in Requests : ActsOnNow(r)
=============================================================================
