SPECIFICATION Spec
CONSTANTS
    Requests = {r1, r2, r3, r4}
    Admins = {a1, a2}
    None = None
    Operations = {"create", "status", "read", "reply", "list"}
    Limit = 1
    MayFail = TRUE
    MaxInFlight = 3
SYMMETRY MessageSymmetry
INVARIANTS TypeOK ThreadConsistent NoMessageMissed
PROPERTIES MarkLosesOnlyOverlaps ReadTimeKept ImplementsThread
