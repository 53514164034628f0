SPECIFICATION Spec
CONSTANTS
    MaxTid = 2
    ExitArgs <- MCExitArgs
    Hazardous = {"mainExit"}
INVARIANTS
    ExitedMeansOver
