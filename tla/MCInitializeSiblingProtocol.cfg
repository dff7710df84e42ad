\* Spec scenario 3 followed by a dropped session: QUIC fails, index 0 falls
\* back to HTTP2 and registers, and may then fail again, on a dynamic edge
\* with two addresses.
CONSTANTS
    Retries <- MCRetries
    MaxEdgeAddrRetries <- MCMaxEdgeAddrRetries
    a1 = a1
    a2 = a2
    Addrs <- MCTwoAddrs
    NoAddr = NoAddr
    StaticEdge = FALSE
    SelectorCurrent = "quic"
    SelectorFallback = "http2"
    DialResults <- MCAnyDial
    SessionFailures <- MCAnyFailure
    HAConnections <- MCHAConnections
SPECIFICATION InitializeSpec
INVARIANTS
    SeededWithRegisteredProtocol
