SPECIFICATION Spec
CONSTANTS
    r1 = r1
    Responses <- MCResponses
    Modes = {"stream", "inline"}
    MaxSeq = 3
    MaxAnswers = 2
    MaxBroken = 1
    MaxDepth = 2
INVARIANTS TypeOK OnePlace ResponseOnce StreamAnswerNotLost IInv
PROPERTY PromiseKept
CHECK_DEADLOCK FALSE
