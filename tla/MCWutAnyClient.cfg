SPECIFICATION Spec
CONSTANTS
    MaxTid = 2
    ExitArgs <- MCExitArgs
    Hazardous <- Hazards
INVARIANTS
    NoResurrection
PROPERTIES
    LowestFreeTid
    OutcomeKept
