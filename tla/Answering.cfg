SPECIFICATION FairSpec
CONSTANTS
    a = a
    l1 = l1
    r1 = r1
    r2 = r2
    Contributors = {a}
    Links = {l1}
    For <- OneForA
    Phones = {a}
    OwnerPhone = TRUE
    Requests = {r1, r2}
    MaxTerms = 1
    MaxReloads = 1
    MaxFaults = 1
INVARIANT SuccessScreenIsTrue
INVARIANT NoticesAreTrue
PROPERTY PortalSettles
PROPERTY TapsAreCounted
PROPERTY OwnerIsTold
CHECK_DEADLOCK FALSE
