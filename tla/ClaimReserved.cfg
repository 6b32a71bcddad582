SPECIFICATION Spec
CONSTANTS
    Variants = {v1}
    MaxOrders = 2
    MaxQty = 1
    MaxStock = 2
    InitialStock = 2
    RestockSizes = {}
    EditableStock = {}
    PayLaterOrders = {}
    Deletable = {}
    Requests = {r1, r2}
INVARIANT
    AwaitingPaymentIsReserved
CHECK_DEADLOCK FALSE
