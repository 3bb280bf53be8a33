SPECIFICATION Spec
CONSTANTS
    r1 = r1
    r2 = r2
    r3 = r3
    d1 = d1
    c1 = c1
    c2 = c2
    Requests = {r1, r2, r3}
    Documents = {d1}
    Contents = {c1, c2}
    Category <- SplitSheet
    MayFail = {r1, r2, r3}
SYMMETRY VaultSymmetry
INVARIANT NoDanglingRow
INVARIANT ChecksumIsOfBytes
INVARIANT ErasedInFull
PROPERTY KeepsVaultPromise
CHECK_DEADLOCK FALSE
