SPECIFICATION Spec
CONSTANTS
    NoSession = NoSession
    Sessions = {s1, s2}
    LogLevels = {3}
    SetupLevels = {0, 4}
    MaxLogged = 3
    MaxSetups = 2
INVARIANTS LoggerTypeOK LoggerIInv InOrder FileComplete ErrorsArriveOnce NoFileForgotten
PROPERTY PendingFlushed
CHECK_DEADLOCK FALSE
