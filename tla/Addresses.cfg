SPECIFICATION Spec
CONSTANTS
    Addresses = {a1, a2, a3, a4}
    Calls = {k1, k2}
PROPERTIES
    DefaultIsRestored
    DefaultStaysOne
    ChoosingLeavesADefault
CHECK_DEADLOCK FALSE
