------------------------- MODULE MCEdgeTunnelServer -------------------------
(* Model-checking instances of EdgeTunnelServer.                            *)
EXTENDS EdgeTunnelServer

CONSTANTS a1, a2

\* Backoff ceiling 2 and two address rotations per reachedMax, so that the
\* two counters cross (fallback needs both at their limit).
MCRetries == 2
MCMaxEdgeAddrRetries == 1

\* A flaky network and an edge that may fail in every way.
MCAnyDial == [p \in Protocols |->
                IF p = "quic" THEN {"ok", "quicDial", "quicDialNotPermitted"}
                              ELSE {"ok", "dial"}]
MCAnyFailure == SessionErrors

\* Spec scenario 3: UDP to the edge is blocked (QUIC dials time out), HTTP2
\* works and registers.
MCQuicBlocked == [p \in Protocols |-> IF p = "quic" THEN {"quicDial"} ELSE {"ok"}]
MCNoFailure == {}

MCOneAddr == {a1}
MCTwoAddrs == {a1, a2}
=============================================================================
