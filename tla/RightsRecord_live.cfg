SPECIFICATION FairSpec
CONSTANTS
    a = a
    b = b
    Contributors = {a, b}
    Requests = {r1, r2}
    r1 = r1
    r2 = r2
    Whole = 2
    Saves <- MCSolo
    MaxVersion = 2
    MaxLinks <- OneForA
    Expiring = {}
VIEW WithoutHistory
PROPERTY RequestsFinish
