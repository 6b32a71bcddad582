SPECIFICATION Spec
CONSTANTS
    Variants = {v1}
    MaxOrders = 2
    MaxQty = 1
    MaxStock = 1
    InitialStock = 1
    RestockSizes = {}
    EditableStock = {}
    PayLaterOrders = {2}
    Deletable = {}
    Requests = {r1, r2}
INVARIANTS
    TypeOK
    OrderMirrorsTransaction
    StockCoversReservations
PROPERTIES
    OnlyDisturbedCommitsPart
SYMMETRY HandlerSymmetry
CHECK_DEADLOCK FALSE
