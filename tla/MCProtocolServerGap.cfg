SPECIFICATION SafeSpec
CONSTANTS
    r1 = r1
    Responses <- MCResponses
    Modes = {"stream"}
    MaxSeq = 3
    MaxAnswers = 0
    MaxBroken = 1
    MaxDepth = 2
INVARIANT Contiguous
CHECK_DEADLOCK FALSE
