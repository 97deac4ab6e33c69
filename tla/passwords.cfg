SPECIFICATION Spec
CONSTANTS
    u1 = u1
    u2 = u2
    u3 = u3
    Requests = {r1, r2, r3, r4}
    Emails = {u1, u2, u3}
    Users = {u1, u2}
    Local = {u1}
    Verified = {u1}
    None = None
    First = First
    Operations = {"login", "social", "forgot", "confirm", "change"}
    ResetTtl = 1
    MayFail = TRUE
    MaxInFlight = 2
    MaxTime = 1
SYMMETRY RequestSymmetry
INVARIANTS TypeOK OldPasswordOverlaps LinkUsedOnce AnsweredChangeHolds
PROPERTY PasswordIsProven
