SPECIFICATION Spec
CONSTANTS
    MaxTid = 2
    ExitArgs <- MCExitArgs
    Hazardous = {"yieldAlone"}
INVARIANTS
    RunningIsHead
