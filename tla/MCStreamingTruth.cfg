SPECIFICATION Spec
CONSTANTS
    Device = {d1}
    NoDevice = NoDevice
    Conn = {k1, k2}
    Client = {}
    NoClient = NoClient
    UiCalls = {}
INVARIANTS
    StateIsTrue
CHECK_DEADLOCK FALSE
