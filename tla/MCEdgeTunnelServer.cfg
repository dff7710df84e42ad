\* General run: one static edge address, any dial outcome, any session error.
CONSTANTS
    Retries <- MCRetries
    MaxEdgeAddrRetries <- MCMaxEdgeAddrRetries
    a1 = a1
    a2 = a2
    Addrs <- MCOneAddr
    NoAddr = NoAddr
    StaticEdge = TRUE
    SelectorCurrent = "quic"
    SelectorFallback = "http2"
    DialResults <- MCAnyDial
    SessionFailures <- MCAnyFailure
SPECIFICATION Spec
PROPERTIES
    FallbackNeedsFailures
    ImplementsProtocolFallback
