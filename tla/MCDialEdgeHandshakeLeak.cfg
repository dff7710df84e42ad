\* A malformed proxy URL, a reachable edge whose TLS handshake fails.
CONSTANTS
    Timeout <- MCTimeout
    MaxDials <- MCMaxDials
    ProxyURL = "malformed"
    ProxyResults <- MCAnyTcp
    DirectResults <- MCReachable
    PostQuantum = "prefer"
    HandshakeResults <- MCHandshakeFails
SPECIFICATION DialSpec
INVARIANTS
    NoSocketLeak
