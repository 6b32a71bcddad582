SPECIFICATION Spec
CONSTANTS
    Users = {u1, u2, u3}
    Calls = {k1, k2}
INVARIANTS
    InternalHasNoProfile
    SupervisorIsInternal
PROPERTIES
    BoundaryKept
CHECK_DEADLOCK FALSE
