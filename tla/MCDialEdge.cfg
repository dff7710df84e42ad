\* A SOCKS5 proxy that may answer, refuse at any time or black-hole; any
\* direct path and any handshake.
CONSTANTS
    Timeout <- MCTimeout
    MaxDials <- MCMaxDials
    ProxyURL = "socks5"
    ProxyResults <- MCAnyTcp
    DirectResults <- MCAnyTcp
    PostQuantum = "prefer"
    HandshakeResults <- MCAnyHandshake
SPECIFICATION DialSpec
INVARIANT DialEdgeBounded
