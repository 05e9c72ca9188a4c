SPECIFICATION Spec
SYMMETRY Symmetry
CONSTANTS
    Device = {d1, d2}
    NoDevice = NoDevice
    Watcher = {w1, w2}
    NoWatcher = NoWatcher
    MaxDevices = 1
    MaxRooms = 2
    LegacyModes = {"relay", "direct"}
INVARIANTS
    TypeOK
    OneWatcher
    SavedWasPaired
    WatchedUnlessStolen
    RelayFollowsSession
PROPERTIES
    ApprovalUsedOnce
    ImplementsApproval
CHECK_DEADLOCK FALSE
