SPECIFICATION Spec
SYMMETRY Symmetry
CONSTANTS
    Device = {d1, d2, d3}
    NoDevice = NoDevice
    Caller = {c1, c2}
    Saver = {s1}
    MaxDevices = 2
    MaxCalls = 3
    MaxSessions = 1
    Faults = {"restart"}
INVARIANTS
    PairedPhonesReconnect
CHECK_DEADLOCK FALSE
