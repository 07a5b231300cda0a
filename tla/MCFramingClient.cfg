SPECIFICATION NoisySpec
CONSTANTS
    Bodies <- MCNoisyBodies
    MaxFrames = 2
    MaxFaults = 1
    MaxStray = 2
    Catches = FALSE
INVARIANTS NoisyIInv NothingLeftBehind NothingInvented
CHECK_DEADLOCK FALSE
