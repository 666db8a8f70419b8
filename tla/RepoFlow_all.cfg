SPECIFICATION Spec
CONSTANTS
    Paths = {"a", "b"}
    Names = {"x", "y"}
    McpServers = {"m"}
    First <- AB
    Contents <- Pushed
    MaxCommits = 3
    Syncs = {w1, w2}
    MaxConnects = 2
    MaxEvents = 1
    Requests = {r1}
    Jobs <- Asked
    MaxProposals = 1
CHECK_DEADLOCK FALSE
INVARIANTS SkillRowConsistent RowsOfOneCommit NoOrphanRows ProposalOnlyAdds
PROPERTIES SyncCatchesUp
