SPECIFICATION Spec
CONSTANTS
    Users = {u1}
    Devices = {d1, d2}
    Requests = {r1, r2, r3, r4}
    None = None
    Operations = {"social", "completeMfa", "refresh", "logout"}
    MfaUsers = {u1}
    FactorUsers = {u1}
    MaxActiveSessions = 2
    SessionTtl = 2
    RefreshTtl = 2
    AccessTtl = 1
    PoolSize = 4
    Faults = {"throw", "timeout", "lost"}
    MaxInFlight = 3
    MaxTime = 0
SYMMETRY DeviceSymmetry
INVARIANTS EndedTokensRefused SessionKeepsToken RotationReplaces
