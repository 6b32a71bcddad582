SPECIFICATION Spec
CONSTANTS
    Variants = {v1}
    MaxOrders = 3
    MaxQty = 2
    MaxStock = 3
    InitialStock = 2
    RestockSizes = {}
    EditableStock = {0}
    PayLaterOrders = {2}
    Deletable = {}
    Requests = {r1}
INVARIANTS
    ReservedIsSumOfHolds
    SalesIsSumOfConsumed
    HoldsFollowStatus
    PaidMeansMoney
    QuotedWithinOrdered
PROPERTIES
    StatusFollowsLifecycle
    QueuePlaceIsKept
    ReleasedStockIsOffered
    ImplementsStockLedger
    ImplementsOrderLife
CHECK_DEADLOCK FALSE
