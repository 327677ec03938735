CONSTANTS
    File = {f}
    Suite = {g, h}
    Contents <- Samples
    Test = {1, 2}
    Rooms = {3}
    MaxCalls = 2
    None = None
SPECIFICATION TestSpec
INVARIANTS ImportedOnce CasesInOrder ResultTells StopsForCause
CHECK_DEADLOCK FALSE
