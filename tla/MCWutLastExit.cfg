SPECIFICATION Spec
CONSTANTS
    MaxTid = 2
    ExitArgs <- MCExitArgs
    Hazardous = {"lastExit"}
INVARIANTS
    NeverCrashes
