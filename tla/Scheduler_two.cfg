SPECIFICATION Spec
CONSTANTS
    Schedules = {s1}
    Servers = {p1, p2}
    MaxRuns = 2
    Horizon = 3
    Crons <- TwoFires
    Policies = {"skip", "queue"}
    Outcomes = {"failed"}
    Timeouts = {0}
    TokenSlack = 1
    SweepGrace = 1
    MaxFaults = 0
    MaxEdits = 1
SYMMETRY ServerSymmetry
INVARIANTS NoOverlap
