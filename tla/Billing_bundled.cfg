SPECIFICATION FairSpec
CONSTANTS
    c1 = c1
    e1 = e1
    v1 = v1
    d1 = d1
    Checkouts = {c1}
    Elsewhere = {e1}
    Calls = {v1}
    Deliveries = {d1}
    Offers <- OneOffer
    Grants = {}
    MaxExtras = 0
    MaxVisits = 1
    MaxFaults = 0
PROPERTY WebhookKeepsPlan
CHECK_DEADLOCK FALSE
