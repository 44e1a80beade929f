SPECIFICATION Spec
CONSTANTS
    Libcs = {"newlib", "newlib-nano"}
    Boards <- RunBoards
    Results <- RunResults
    Lists <- RunLists
    SimStamp <- RunSimStamp
    MaxFaults = 1
    None = None
    NoSum = NoSum
INVARIANTS TypeOK ResultsOfInstalled
PROPERTY OkIsEarned
