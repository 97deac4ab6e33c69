SPECIFICATION Spec
CONSTANTS
    Attempts = {r1, r2, r3}
    Emails = {e1}
    Addresses = {a1}
    None = None
    Operations = {"social", "register", "reset"}
    Limit <- MCLimit
    Window <- MCWindow
    BlockTime <- MCBlockTime
    MayFail = TRUE
    MaxInFlight = 2
    MaxTime = 2
SYMMETRY AttemptSymmetry
INVARIANTS TypeOK OvershootBounded RefusedForCause
