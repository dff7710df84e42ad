\* A static edge of a single address with QUIC blocked: graceful shutdown
\* while startFirstTunnel retries ErrNoAddressesLeft in place.
CONSTANTS
    Retries <- MCRetries
    MaxEdgeAddrRetries <- MCMaxEdgeAddrRetries
    a1 = a1
    a2 = a2
    Addrs <- MCOneAddr
    NoAddr = NoAddr
    StaticEdge = TRUE
    SelectorCurrent = "quic"
    SelectorFallback = "http2"
    DialResults <- MCQuicBlocked
    SessionFailures <- MCNoFailure
SPECIFICATION LiveSpec
PROPERTIES
    ShutdownEndsFirstTunnel
