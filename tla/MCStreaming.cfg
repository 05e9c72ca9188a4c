SPECIFICATION Spec
CONSTANTS
    Device = {d1, d2}
    NoDevice = NoDevice
    Conn = {k1}
    Client = {c1, c2}
    NoClient = NoClient
    UiCalls = {"approve", "keyframe"}
SYMMETRY Symmetry
INVARIANTS
    TypeOK
    NoPhantom
    ConnectionsAreLive
    StoppedLeavesNothing
CHECK_DEADLOCK FALSE
