SPECIFICATION Spec
CONSTANTS
    OldFiles <- MCOldFiles
    MaxRuns = 2
INVARIANTS
    TypeOK
    BlocksAccounted
    InodesAccounted
    DirectoriesConnect
    LinksCounted
    ReferencesResolve
