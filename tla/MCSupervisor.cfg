CONSTANTS
    HAConnections <- MCHAConnections
    AvailableAddrs <- MCAvailableAddrs
    StaticEdge = FALSE
    MaxFailures <- MCMaxFailures
    MaxReconnects <- MCMaxReconnects
SPECIFICATION LiveSpec
INVARIANTS
    ActiveCountMatches
PROPERTIES
    GraceOnlyWhenPoolConnected
    SequentialServePerIndex
    Termination
