SPECIFICATION Spec
CONSTANTS
    Attempts = {r1, r2, r3, r4}
    Emails = {e1, e2}
    Addresses = {a1}
    None = None
    Operations = {"login"}
    Limit <- MCLimit
    Window <- MCWindow
    BlockTime <- MCBlockTime
    MayFail = FALSE
    MaxInFlight = 2
    MaxTime = 2
SYMMETRY Symmetry
INVARIANTS BlockedIsRefused ExhaustedIsRefused OvershootBounded RefusedForCause
