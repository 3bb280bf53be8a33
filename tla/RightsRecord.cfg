SPECIFICATION Spec
CONSTANTS
    a = a
    b = b
    Contributors = {a, b}
    Requests = {r1, r2}
    r1 = r1
    r2 = r2
    Whole = 2
    Saves <- MCSaves
    MaxVersion = 2
    MaxLinks <- TwoForA
    Expiring <- FirstOfA
SYMMETRY RequestSymmetry
CONSTRAINT Small
INVARIANT IInv
INVARIANT LinksFollowCurrentVersion
INVARIANT OneOutstandingLink
INVARIANT WithdrawnLinksAreUnused
INVARIANT CompletedIsConfirmed
PROPERTY KeepsLinkPromise
PROPERTY SettledIsNotEdited
PROPERTY ConfirmedByAll
PROPERTY LastAnswerConfirms
