SPECIFICATION Spec
CONSTANTS
    Requests = {r1, r2}
    MaxVersion = 2
PROPERTIES
    OldSessionsEnd
CHECK_DEADLOCK FALSE
