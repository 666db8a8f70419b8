SPECIFICATION FairSpec
CONSTANTS
    Schedules = {s1}
    Servers = {p1}
    MaxRuns = 3
    Horizon = 3
    Crons <- TwoFires
    Policies = {"skip", "queue", "concurrent"}
    Outcomes = {"failed"}
    Timeouts = {0}
    TokenSlack = 0
    SweepGrace = 0
    MaxFaults = 1
    MaxEdits = 1
PROPERTIES EveryRunEnds CatchesUp
