SPECIFICATION Spec
CONSTANTS
    Socket = {s1, s2, s3}
    Room = {r1, r2}
    NoRoom = NoRoom
    Payload = {frame}
    MaxInbox = 2
SYMMETRY Symmetry
INVARIANTS
    TypeOK
    Membership
    SilentAfterLeaving
PROPERTIES
    ImplementsBus
CHECK_DEADLOCK FALSE
