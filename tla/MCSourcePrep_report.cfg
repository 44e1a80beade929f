SPECIFICATION Spec
CONSTANTS
    Names <- MCNames
    Mirrors <- MCMirrors
    Attempts = 3
    Revisions = {r1, r2}
    None = None
INVARIANT AllPatchedPrepared
