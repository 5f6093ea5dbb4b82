CONSTANTS
    e1 = e1
    e2 = e2
    e3 = e3
    Elems = {e1, e2, e3}
    Hash <- MCHash
    EntriesPerBucket = 2
    BucketFactor = 1
    BucketDivisor = 1
    MaxFillSoft = 50
    MaxFillHard = 90
    MinFillSoft = 25
    MinFillHard = 10
    EmptyVisits = 2
    CanAbortShrink = TRUE
    CursorBits = 3
    MaxExp = 2
    Policies = {"ALLOW", "AVOID", "FORBID"}
    ScanWhileIterating = FALSE
    Sizes = {4}
    MaxLeaks = 1
    None = None
SPECIFICATION Spec
INVARIANTS PauseReleased
