SPECIFICATION FairSpec
CONSTANTS
    NThreads = 2
    Size = 2
    Keys <- MCKeys
    BucketOf <- MCBucketOf
INVARIANTS
    TypeOK
    OneThreadInside
PROPERTIES
    ImplementsAtomic
    DistinctStringsEnd
CHECK_DEADLOCK FALSE
