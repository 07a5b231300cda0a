SPECIFICATION SessionSafeSpec
CONSTANTS
    init = init
    launch = launch
    bye = bye
    odd = odd
    Responses <- StdioRequests
    Command <- MCCommand
    Args <- OmittedFormat
    Own <- OwnLaunch
    IsServer = FALSE
    Modes = {"stream"}
    MaxSeq = 2
    MaxAnswers = 0
    MaxBroken = 0
    MaxDepth = 2
INVARIANT OmittedFormatIsPath
CHECK_DEADLOCK FALSE
