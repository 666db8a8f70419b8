SPECIFICATION CredentialSpec
CONSTANTS
    Slots = {q1, q2}
    Codes = {d1}
    Life = 3
    Margin = 1
    FlowLife = 1
    TokenTTL = 3
    InstallLives = {2, 4}
    MaxClock = 3
    MaxRequests = 3
    MaxFailures = 1
INVARIANTS CachedTokenIsFresh InstallationTokenIsFresh ConnectedIsStored
PROPERTIES FlowsEnd
CHECK_DEADLOCK FALSE
