SPECIFICATION Spec
CONSTANTS
    Users = {u1}
    Devices = {d1}
    Requests = {r1, r2, r3, r4}
    None = None
    Operations = {"social", "refresh", "logout"}
    MfaUsers = {}
    FactorUsers = {}
    MaxActiveSessions = 1
    SessionTtl = 2
    RefreshTtl = 2
    AccessTtl = 1
    PoolSize = 8
    Faults = {"timeout"}
    MaxInFlight = 2
    MaxTime = 0
PROPERTIES CapOnlyRaced LossOnlyRaced
