SPECIFICATION Spec
CONSTANTS
    Runs = {"r1", "r2"}
    Platforms = {"linux", "windows"}
    Smoked = "windows"
    Tags <- MCTags
    Versions <- MCVersions
    MaxAttempts <- MCAttempts
    None = None
INVARIANTS TypeOK ReleasedIsOneBuild BegetServesRelease
PROPERTY ReleasedWasTested
CHECK_DEADLOCK FALSE
