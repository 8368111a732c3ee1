SPECIFICATION BucketSpec
CONSTANTS
    a1 = a1
    Acquirers = {a1}
    Need <- Large
    MaxNeed = 6
    MaxFrame = 0
    Frames = {}
    Interactive = {1}
    Rates = {2}
    BurstTicks = 2
    MinBurst = 4
    Load = 1
    MaxFrames = 0
    MaxSettings = 0
    MaxIdle = 3
PROPERTY LargeServed
CHECK_DEADLOCK FALSE
