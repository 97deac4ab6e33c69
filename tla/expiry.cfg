SPECIFICATION Spec
CONSTANTS
    Users = {u1}
    Devices = {d1, d2}
    Requests = {r1, r2, r3, r4}
    None = None
    Operations = {"login", "completeMfa", "refresh", "revoke", "read", "cleanup"}
    MfaUsers = {u1}
    FactorUsers = {u1}
    MaxActiveSessions = 2
    SessionTtl = 2
    RefreshTtl = 2
    AccessTtl = 2
    PoolSize = 8
    Faults = {}
    MaxInFlight = 2
    MaxTime = 3
SYMMETRY DeviceSymmetry
INVARIANTS BlacklistIsFinal
PROPERTIES ImplementsLifecycle
