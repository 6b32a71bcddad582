SPECIFICATION Spec
CONSTANTS
    Requests = {r1, r2}
    Phones = {p1, p2}
    MaxAttempts = 2
    MaxCodes = 2
    MaxDeaths = 1
SYMMETRY Alike
INVARIANTS
    AccountFollowsCode
    GuessesBounded
CHECK_DEADLOCK FALSE
