SPECIFICATION Spec
CONSTANTS
    MaxStarts = 2
    Tests <- MCTests
INVARIANTS ClientTypeOK ClientIInv OwnAnswers ConfiguredAsAnnounced OrderIInv
PROPERTIES PromiseSafe ScenarioSettles StopReleases
CHECK_DEADLOCK FALSE
