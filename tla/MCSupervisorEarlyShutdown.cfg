CONSTANTS
    HAConnections = 2
    AvailableAddrs = 4
    StaticEdge = TRUE
    MaxFailures = 1
    MaxReconnects = 0
SPECIFICATION Spec
INVARIANT DrainedOnReturn
