SPECIFICATION FairSpec
CONSTANTS
    MaxMirrors = 1
    KnownSuffix = TRUE
    MaxFaults = 3
INVARIANTS TypeOK PrintedIsWhole StraysOnlyFromCuts
PROPERTIES MarkerArrivesWhole UsesAtomicFetch Heals
