\* SOCKS5_PROXY_GUIDE.md scenario 3: a proxy that is slow to refuse, while
\* the edge is reachable directly and the handshake succeeds.
CONSTANTS
    Timeout <- MCTimeout
    MaxDials <- MCMaxDials
    ProxyURL = "socks5"
    ProxyResults <- MCRefused
    DirectResults <- MCReachable
    PostQuantum = "prefer"
    HandshakeResults <- MCHandshakeSucceeds
SPECIFICATION DialSpec
INVARIANT DialErrorFromDirectDial
