SPECIFICATION FairSpec
CONSTANTS
    Screen = {m1}
    Service = {v1}
    None = None
    Lost = Lost
    MaxAttempts = 1
    MaxTimers = 1
    MaxQueue = 0
    MaxBacklog = 2
INVARIANTS
    TypeOK
    KeepsTrying
    DeltasDoNotQueueUp
PROPERTY PictureComesBack
CHECK_DEADLOCK FALSE
