SPECIFICATION FairSpec
CONSTANTS
    Device = {d1}
    NoDevice = NoDevice
    Conn = {}
    Client = {c1, c2}
    NoClient = NoClient
    UiCalls = {"keyframe"}
PROPERTIES
    ShutdownCompletes
    Rejoins
CHECK_DEADLOCK FALSE
