SPECIFICATION FairSpec
CONSTANTS
    Variants = {v1, v2}
    MaxOrders = 2
    MaxQty = 1
    MaxStock = 2
    InitialStock = 1
    RestockSizes = {1}
    EditableStock = {}
    PayLaterOrders = {2}
    Deletable = {1}
    Requests = {r1}
INVARIANTS
    ReservedIsSumOfHolds
    HoldsFollowStatus
PROPERTIES
    CapturedPaymentIsAnswered
CHECK_DEADLOCK FALSE
