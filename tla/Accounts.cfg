SPECIFICATION Spec
CONSTANTS
    r1 = r1
    r2 = r2
    home = home
    work = work
    Requests = {r1, r2}
    Addresses = {home, work}
    MaxPasswords = 3
    MaxSessions = 2
    MaxTokens = 2
    MayFail = {r1, r2}
SYMMETRY RequestSymmetry
CONSTRAINT Small
INVARIANT LinksHonouredOnce
INVARIANT PriorSessionsEnd
INVARIANT SessionsEndWithPassword
INVARIANT NewestLinkOnly
INVARIANT VerifiedAddressIsProven
INVARIANT DeletionIsFinal
CHECK_DEADLOCK FALSE
