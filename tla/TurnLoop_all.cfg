SPECIFICATION TurnSpec
CONSTANTS
    MaxTurns = 2
    MaxHistory = 2
    MaxCalls = 2
    MaxPieces = 2
INVARIANTS CallsAsSent HistoryWellFormed
PROPERTIES ConversationEnds
CHECK_DEADLOCK FALSE
