SPECIFICATION Spec
CONSTANTS
    Libcs = {"newlib", "newlib-nano"}
    Boards <- RunBoards
    Results <- RunResults
    Lists <- RunLists
    SimStamp <- RunSimStamp
    MaxFaults = 0
    None = None
    NoSum = NoSum
PROPERTY ReportsAsAsked
