SPECIFICATION Spec
CONSTANTS
    StartHandle = 1001
    START_HANDLE = 1000
    MaxCreated = 5
    Numbers <- MCNumbers
    Paths <- MCPaths
    Expectations <- MCExpectations
    Pieces <- MCPieces
    MaxHeard = 4
INVARIANTS OldObjectsForgotten HandlesIInv HandleNamesObject
           LocationsAgree PathsComeBack CutsDoNotMatter
CHECK_DEADLOCK FALSE
