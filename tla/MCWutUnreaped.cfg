SPECIFICATION Spec
CONSTANTS
    MaxTid = 2
    ExitArgs <- MCExitArgs
    Hazardous = {"unreaped"}
INVARIANTS
    NeverCrashes
