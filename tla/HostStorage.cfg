SPECIFICATION FairSpec
CONSTANTS
    a1 = a1
    a2 = a2
    Apps <- MCApps
    Own <- MCOwn
    SlotSpan = 2
    NbdDevices = {0}
    NoApp = NoApp
    NoSlot = NoSlot
    MaxFaults = 1
INVARIANTS
    TypeOK
    OneAppPerDevice
    DeletedMeansGone
    RetiredStaysClosed
PROPERTIES
    FreedWaits
    RemovalIsReported
