SPECIFICATION Spec
CONSTANTS
    Orders = {o1, o2}
    PayLater = {o1}
    Calls = {c1, c2}
    Payments = {p1, p2}
INVARIANTS
    NumbersAreGapless
    RecordedIsInvoiced
    OneRetryIsEnough
PROPERTY
    DeliveredIsInvoiced
