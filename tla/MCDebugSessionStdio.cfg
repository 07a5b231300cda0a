SPECIFICATION SessionSpec
CONSTANTS
    init = init
    launch = launch
    bye = bye
    odd = odd
    Responses <- StdioRequests
    Command <- MCCommand
    Args <- ForeignPaths
    Own <- OwnLaunch
    IsServer = FALSE
    Modes = {"stream"}
    MaxSeq = 3
    MaxAnswers = 1
    MaxBroken = 1
    MaxDepth = 3
INVARIANTS SessionTypeOK NoRequestLost
PROPERTY ShutsDown
CHECK_DEADLOCK FALSE
