SPECIFICATION Spec
CONSTANTS
    MaxRuns = 3
    Afters = {0, 1}
    DefaultAutoPauseAfter = 2
    MaxToggles = 3
    MaxSyncs = 1
    MaxSweeps = 1
    MaxLost = 1
CHECK_DEADLOCK FALSE
INVARIANTS StreakIsBeingEvaluated OneAuditPerPeriod PausedOnFailures
