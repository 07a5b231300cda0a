SPECIFICATION SafeSpec
CONSTANTS
    r1 = r1
    Responses <- MCResponses
    Modes = {"inline"}
    MaxSeq = 2
    MaxAnswers = 1
    MaxBroken = 0
    MaxDepth = 2
INVARIANT EveryAnswerNotLost
CHECK_DEADLOCK FALSE
