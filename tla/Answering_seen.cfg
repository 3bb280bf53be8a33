SPECIFICATION Spec
CONSTANTS
    a = a
    l1 = l1
    r1 = r1
    r2 = r2
    Contributors = {a}
    Links = {l1}
    For <- OneForA
    Phones = {a}
    OwnerPhone = TRUE
    Requests = {r1, r2}
    MaxTerms = 2
    MaxReloads = 0
    MaxFaults = 1
CHECK_DEADLOCK FALSE
PROPERTY AgreementIsAsSeen
