SPECIFICATION FairSpec
CONSTANTS
    h1 = h1
    h2 = h2
    Handlers = {h1, h2}
    Kinds <- AnyAndLong
    MaxRevision = 3
INVARIANT SettledPageIsCurrent
INVARIANT SavedLabelIsTrue
PROPERTY BusyEnds
CHECK_DEADLOCK FALSE
