CONSTANTS
    Keys <- MCKeys
    Scope <- MCScope
    MaxKeys = 2
    MaxCalls = 2
SPECIFICATION FairSpec
INVARIANT OldObjectsAreGone
PROPERTY DeletionEnds
