--------------------------- MODULE LegacyDialEdge ---------------------------
(***************************************************************************)
(* What spec 8 promises for EdgeProxyURL = "": the legacy direct-only      *)
(* edge dialer.  One call dials the edge directly under a Timeout deadline *)
(* and runs the TLS handshake under its own Timeout deadline.              *)
(***************************************************************************)
EXTENDS Naturals

CONSTANTS Timeout, DirectResults, HandshakeResults, MaxDials

VARIABLES lpc, lnow, lresult, ldials

legacyVars == <<lpc, lnow, lresult, ldials>>

LegacyInit ==
    /\ lpc = "idle"
    /\ lnow = 0
    /\ lresult = "none"
    /\ ldials = 0

\* A call starts with the direct dial.
LegacyCall ==
    /\ lpc \in {"idle", "returned"}
    /\ ldials < MaxDials
    /\ ldials' = ldials + 1
    /\ lpc' = "direct"
    /\ lnow' = 0
    /\ lresult' = "none"

\* The direct dial: a reachable edge answers in one tick, a refusal takes
\* one tick, a black hole takes the whole timeout.
LegacyDirect ==
    /\ lpc = "direct"
    /\ \E o \in DirectResults :
        /\ lnow' = IF o = "blackhole" THEN Timeout ELSE lnow + 1
        /\ IF o = "ok"
           THEN lpc' = "tls" /\ UNCHANGED lresult
           ELSE lpc' = "returned" /\ lresult' = "dialError"
    /\ UNCHANGED ldials

\* The handshake under now + Timeout.
LegacyHandshake ==
    /\ lpc = "tls"
    /\ \E h \in HandshakeResults :
        /\ lnow' = IF h = "stall" THEN lnow + Timeout ELSE lnow + 1
        /\ lresult' = IF h = "ok" THEN "conn" ELSE "tlsError"
    /\ lpc' = "returned"
    /\ UNCHANGED ldials

LegacyNext == LegacyCall \/ LegacyDirect \/ LegacyHandshake

LegacySpec == LegacyInit /\ [][LegacyNext]_legacyVars
=============================================================================
