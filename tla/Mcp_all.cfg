SPECIFICATION FairSpec
CONSTANTS
    Servers = {srv1, srv2}
    Calls = {c1, c2}
    Boot = boot
    PipeCap = 1
    MaxRounds = 1
CHECK_DEADLOCK FALSE
INVARIANTS Correlated CauseKept NothingPending NoServerLeft
PROPERTIES RunIsOver
