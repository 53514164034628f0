SPECIFICATION Spec
CONSTANTS
    Pids = {1, 2, 3}
    LongNames = {3}
INVARIANTS
    OwnName
