SPECIFICATION SessionSafeSpec
CONSTANTS
    init = init
    launch = launch
    bye = bye
    odd = odd
    Responses <- InlineRequests
    Command <- MCCommand
    Args <- NativePaths
    Own <- OwnDisconnect
    IsServer = FALSE
    Modes = {"inline", "stream"}
    MaxSeq = 2
    MaxAnswers = 1
    MaxBroken = 1
    MaxDepth = 3
INVARIANT ResponseOnce
PROPERTY PromiseSafe
CHECK_DEADLOCK FALSE
