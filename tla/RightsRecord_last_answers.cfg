SPECIFICATION Spec
CONSTANTS
    a = a
    b = b
    Contributors = {a, b}
    Requests = {r1,r2}
    r1 = r1
    r2 = r2
    Whole = 2
    Saves <- MCEven
    MaxVersion = 2
    MaxLinks <- OneEach
    Expiring = {}
VIEW WithoutHistory
PROPERTY LastAnswersConfirm
