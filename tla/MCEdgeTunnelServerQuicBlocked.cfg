\* Spec scenario 3 on a dynamic edge with two addresses.
CONSTANTS
    Retries <- MCRetries
    MaxEdgeAddrRetries <- MCMaxEdgeAddrRetries
    a1 = a1
    a2 = a2
    Addrs <- MCTwoAddrs
    NoAddr = NoAddr
    StaticEdge = FALSE
    SelectorCurrent = "quic"
    SelectorFallback = "http2"
    DialResults <- MCQuicBlocked
    SessionFailures <- MCNoFailure
SPECIFICATION LiveSpec
PROPERTIES
    FallbackConnects
    BackoffBeforeRetry
