SPECIFICATION Spec
SYMMETRY Symmetry
CONSTANTS
    Device = {d1, d2, d3}
    NoDevice = NoDevice
    Caller = {c1, c2}
    Saver = {s1}
    MaxDevices = 1
    MaxCalls = 3
    MaxSessions = 1
    Faults = {}
INVARIANTS
    DeviceLimit
CHECK_DEADLOCK FALSE
