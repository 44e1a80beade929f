SPECIFICATION Spec
CONSTANTS
    Targets <- RunTargets
    Deps <- RunDeps
    Anc <- RunAnc
    Sources <- RunSources
    Src <- RunSrc
    Reads <- RunReads
    Components <- RunComponents
    Writes <- RunWrites
    Uses <- RunUses
    Local <- RunLocal
    Locked <- RunLocked
    Downloads <- RunDownloads
    KeepsStamp <- RunKeepsStamp
    MaskedLoss <- RunMaskedLoss
    None = None
    Torn = Torn
    MaxFaults = 2
    MaxMasked = 0
    MaxUpdates = 1
INVARIANTS InputsNeverTorn InstallsExclude
