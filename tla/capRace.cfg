SPECIFICATION Spec
CONSTANTS
    Users = {u1}
    Devices = {d1}
    Requests = {r1, r2}
    None = None
    Operations = {"login"}
    MfaUsers = {}
    FactorUsers = {}
    MaxActiveSessions = 1
    SessionTtl = 2
    RefreshTtl = 2
    AccessTtl = 1
    PoolSize = 8
    Faults = {}
    MaxInFlight = 2
    MaxTime = 0
SYMMETRY RequestSymmetry
INVARIANTS SessionCap
