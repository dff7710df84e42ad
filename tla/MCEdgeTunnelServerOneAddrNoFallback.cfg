\* Spec scenario 3 with a static edge of a single address.
CONSTANTS
    Retries <- MCRetries
    MaxEdgeAddrRetries <- MCMaxEdgeAddrRetries
    a1 = a1
    a2 = a2
    Addrs <- MCOneAddr
    NoAddr = NoAddr
    StaticEdge = TRUE
    SelectorCurrent = "quic"
    SelectorFallback = "http2"
    DialResults <- MCQuicBlocked
    SessionFailures <- MCNoFailure
SPECIFICATION LiveSpec
PROPERTIES
    FallbackConnects
