SPECIFICATION FairSpec
CONSTANTS
    MaxTid = 3
    ExitArgs <- MCExitArgs
    Hazardous <- NoHazards
INVARIANTS
    TypeOK
    RunningIsHead
    ReadyOnce
    NoLostWakeup
    WaitersAgree
    NoWaitCycle
    ExitedMeansOver
    NothingLeftBehind
    NeverCrashes
PROPERTIES
    ImplementsThreads
    RoundRobin
    ReadyRuns
    JoinEnds
