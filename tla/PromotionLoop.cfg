SPECIFICATION Spec
CONSTANTS
    Variants = {v1, v2}
    MaxOrders = 3
    MaxQty = 2
    MaxShelf = 2
    MaxHeld = 1
    MaxStamp = 2
INVARIANTS
    LoopComputesRule
    ReservedForPromoted
CHECK_DEADLOCK FALSE
