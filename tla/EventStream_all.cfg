SPECIFICATION StreamSpec
CONSTANTS
    Streams = {s1, s2}
    SSEMaxConcurrent = 1
    Destinations = 2
    MaxOpens = 2
    MaxFaults = 1
INVARIANTS StreamIsPrefix  CapHolds
PROPERTIES StreamEnds
CHECK_DEADLOCK FALSE
