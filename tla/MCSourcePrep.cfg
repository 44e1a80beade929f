SPECIFICATION Spec
CONSTANTS
    Names <- MCNames
    Mirrors <- MCMirrors
    Attempts = 3
    Revisions = {r1, r2}
    None = None
INVARIANTS TypeOK BuildSeesPatched NoHalfCloneAccepted
PROPERTY PatchedTreesKept
