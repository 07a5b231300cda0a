SPECIFICATION Spec
CONSTANTS
    NoSession = NoSession
    Sessions = {s1, s2}
    LogLevels = {3}
    SetupLevels = {0}
    MaxLogged = 2
    MaxSetups = 1
INVARIANT NoLineBeforeInitialize
CHECK_DEADLOCK FALSE
