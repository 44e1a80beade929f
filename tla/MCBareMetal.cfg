SPECIFICATION FairSpec
CONSTANTS
    Builds = {1, 2, 3, 4, 5, 6, 7}
    MaxFaults = 2
    None = None
    Torn = Torn
INVARIANTS TypeOK ArchivesAgree ReportedIsWhole ClangIsPatched
PROPERTY Rebuilds
