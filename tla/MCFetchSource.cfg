SPECIFICATION FetchSpec
CONSTANTS
    MaxMirrors = 3
    KnownSuffix = TRUE
INVARIANTS FetchTypeOK NoPartAfterReturn MirrorsInOrder
PROPERTY IsAtomicFetch
