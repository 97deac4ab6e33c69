SPECIFICATION Spec
CONSTANTS
    Users = {u1, u2}
    Devices = {d1}
    Requests = {r1, r2, r3, r4}
    None = None
    Operations = {"social", "completeMfa", "logout", "logoutAll", "revoke", "change", "reset"}
    MfaUsers = {u1, u2}
    FactorUsers = {u1, u2}
    MaxActiveSessions = 2
    SessionTtl = 2
    RefreshTtl = 2
    AccessTtl = 1
    PoolSize = 8
    Faults = {}
    MaxInFlight = 3
    MaxTime = 0
SYMMETRY UserSymmetry
INVARIANTS TypeOK AnsweredRevocationHolds
PROPERTIES ImplementsLifecycle OnlyOwnerEndsSession
