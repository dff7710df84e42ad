CONSTANTS
    HAConnections = 0
    AvailableAddrs = 4
    StaticEdge = FALSE
    MaxFailures = 1
    MaxReconnects = 0
SPECIFICATION LiveSpec
PROPERTY Termination
