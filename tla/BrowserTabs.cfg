SPECIFICATION Spec
CONSTANTS
    t1 = t1
    t2 = t2
    Tabs <- MCTabs
    Slots <- MCSlots
    MaxInbox = 1
    MaxActs = 2
PROPERTIES
    TabsAgree
    EventsDieOut
CHECK_DEADLOCK FALSE
