SPECIFICATION FairSpec
CONSTANTS
    c1 = c1
    e1 = e1
    v1 = v1
    d1 = d1
    Checkouts = {c1}
    Elsewhere = {e1}
    Calls = {v1}
    Deliveries = {d1}
    Offers <- OneOffer
    Grants = {"label"}
    MaxExtras = 1
    MaxVisits = 2
    MaxFaults = 1
CONSTRAINT NotBoth
INVARIANT PlanIsBacked
INVARIANT ChargesAreOnFile
PROPERTY PlanChangesAreOnFile
PROPERTY PaidIsApplied
PROPERTY BillingReturnEnds
CHECK_DEADLOCK FALSE
