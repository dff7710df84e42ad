\* PostQuantumStrict with the HTTP2 protocol, no proxy, a reachable edge
\* that completes the TLS handshake.
CONSTANTS
    Timeout <- MCTimeout
    MaxDials <- MCMaxDials
    ProxyURL = ""
    ProxyResults <- MCAnyTcp
    DirectResults <- MCReachable
    PostQuantum = "strict"
    HandshakeResults <- MCHandshakeSucceeds
SPECIFICATION DialSpec
INVARIANTS
    NoSocketLeak
