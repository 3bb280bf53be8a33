SPECIFICATION Spec
CONSTANTS
    r1 = r1
    r2 = r2
    owner = owner
    x = x
    y = y
    Requests = {r1, r2}
    Users = {owner, x, y}
    Owner = owner
    MaxInvitations = 2
    Seats = 2
    SongLimit = 1
SYMMETRY WorkspaceSymmetry
CONSTRAINT Small
INVARIANT SeatsWithinPlan
INVARIANT SongsWithinPlan
INVARIANT OwnerIsMember
INVARIANT ClosedHoldNoSeat
PROPERTY JoiningUsesInvitation
PROPERTY InvitationsAreFinal
PROPERTY NoOrphans
CHECK_DEADLOCK FALSE
