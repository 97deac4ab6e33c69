SPECIFICATION Spec
CONSTANTS
    Requests = {r1, r2, r3}
    Users = {u1}
    Roles = {"admin", "ADMIN"}
    None = None
    AccessTtl = 1
    MaxInFlight = 2
    MaxTime = 2
    MaxChanges = 2
SYMMETRY RequestSymmetry
INVARIANTS TypeOK LostRoleFades
