SPECIFICATION Spec
CONSTANTS
    NThreads = 2
    Size = 2
    Keys <- MCKeys
    BucketOf <- MCBucketOf
INVARIANTS
    HeldInside
