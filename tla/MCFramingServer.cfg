SPECIFICATION Spec
CONSTANTS
    Bodies <- MCBodies
    MaxFrames = 2
    MaxFaults = 1
    MaxStray = 0
    Catches = TRUE
INVARIANTS TypeOK IInv NothingLeftBehind
PROPERTY ChannelLive
CHECK_DEADLOCK FALSE
