SPECIFICATION Spec
CONSTANTS
    LibsOf <- LibsOfScripts
    DependsOn <- WithOptions
    Versions = {v1, v2}
INVARIANTS TypeOK PrintedIsWhole OnlyLastUnfinished BuildsOnWhole
