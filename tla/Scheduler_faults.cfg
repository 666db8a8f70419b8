SPECIFICATION Spec
CONSTANTS
    Schedules = {s1}
    Servers = {p1}
    MaxRuns = 2
    Horizon = 3
    Crons <- Edited
    Policies = {"skip", "queue", "concurrent"}
    Outcomes = {"failed"}
    Timeouts = {0, 2}
    TokenSlack = 0
    SweepGrace = 0
    MaxFaults = 1
    MaxEdits = 1
INVARIANTS TypeOK StartedOnce NoFireLost
PROPERTIES SweepSparesLive ImplementsLifecycle
