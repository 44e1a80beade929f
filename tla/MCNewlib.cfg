SPECIFICATION FairSpec
CONSTANTS
    Targets <- RunTargets
    Deps <- RunDeps
    Anc <- RunAnc
    Sources <- RunSources
    Src <- RunSrc
    Reads <- RunReads
    Components <- RunComponents
    Writes <- RunWrites
    Uses <- RunUses
    Local <- RunLocal
    Locked <- RunLocked
    Downloads <- RunDownloads
    KeepsStamp <- RunKeepsStamp
    MaskedLoss <- RunMaskedLoss
    None = None
    Torn = Torn
    MaxFaults = 1
    MaxMasked = 1
    MaxUpdates = 1
INVARIANTS TypeOK StampSound ExitOkSound NoTornReads
PROPERTY Converges
