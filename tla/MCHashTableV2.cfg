SPECIFICATION FairSpec
CONSTANTS
    NThreads = 3
    Size = 2
    Keys <- MCKeys
    BucketOf <- MCBucketOf
INVARIANTS
    TypeOK
    MutualExclusion
    SearchStaysValid
    OneEntryPerKey
    HeldInside
    NothingMissing
PROPERTIES
    ImplementsAtomic
    TesterEnds
