------------------------------ MODULE MCDialEdge ------------------------------
(* Model-checking instances of DialEdge: a four-tick timeout (so a SOCKS5  *)
(* refusal can come early, late or at the deadline) and six calls.         *)
EXTENDS DialEdge

MCTimeout == 4
MCMaxDials == 6
MCAnyTcp == {"ok", "refused", "blackhole"}
MCAnyHandshake == {"ok", "fail", "stall"}
MCReachable == {"ok"}
MCRefused == {"refused"}
MCHandshakeFails == {"fail"}
MCHandshakeSucceeds == {"ok"}
=============================================================================
