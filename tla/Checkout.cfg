SPECIFICATION Spec
CONSTANTS
    MaxClicks = 2
    MaxTries = 2
    MaxCarts = 2
    Tabs = {t1, t2}
    OldUnits = 1
    AddSizes = {1}
    Edits = {0}
INVARIANTS
    OneOrderPerClickAndCart
    TwiceOnlyAfterError
    ConfirmedOrderExists
CHECK_DEADLOCK FALSE
