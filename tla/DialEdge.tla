------------------------------ MODULE DialEdge ------------------------------
(***************************************************************************)
(* edgediscovery.DialEdgeWithProxy (dial.go, part_001 29-72) with          *)
(* dialViaProxy (75-130) and dialDirect (133-139), called once per HTTP2   *)
(* attempt by serveConnection.  Time is counted in ticks from the start of *)
(* the call: dialCtx expires at Timeout (the caller's ctx has no deadline) *)
(* and the TLS handshake deadline is the handshake's start plus Timeout.   *)
(* A TCP dial to a reachable endpoint, a direct refusal and a TLS exchange *)
(* take one tick; a black-holed endpoint or a stalled handshake takes      *)
(* until its deadline.  A SOCKS5 dial that fails (the proxy refuses, or    *)
(* reports that it could not reach the edge) may do so at any tick up to   *)
(* the deadline: how long a proxy takes to give up is its own affair.      *)
(*                                                                         *)
(* The caller's use of a returned connection is modelled too:              *)
(* serveConnection (supervisor.go 1120-1143) passes it to serveHTTP2,      *)
(* whose PostQuantumStrict check (1175-1181) returns before                *)
(* NewHTTP2Connection takes the connection over.                           *)
(***************************************************************************)
EXTENDS Naturals, FiniteSets

CONSTANTS
    Timeout,          \* dialTimeout, in ticks
    ProxyURL,         \* "" | "socks5" (a well-formed socks5:// URL) | "malformed"
    ProxyResults,     \* how the SOCKS5 dial can end
    DirectResults,    \* how the direct TCP dial can end
    HandshakeResults, \* how the TLS handshake can end
    MaxDials,         \* bound on the number of DialEdge calls
    PostQuantum       \* FeatureSnapshot.PostQuantum: "prefer" | "strict"

TcpOutcomes == {"ok", "refused", "blackhole"}
HandshakeOutcomes == {"ok", "fail", "stall"}

ASSUME DialConstantsAssumption ==
    /\ Timeout \in Nat \ {0}
    /\ ProxyURL \in {"", "socks5", "malformed"}
    /\ ProxyResults \subseteq TcpOutcomes /\ ProxyResults # {}
    /\ DirectResults \subseteq TcpOutcomes /\ DirectResults # {}
    /\ HandshakeResults \subseteq HandshakeOutcomes /\ HandshakeResults # {}
    /\ MaxDials \in Nat
    /\ PostQuantum \in {"prefer", "strict"}

VARIABLES
    pc,            \* "idle" | "proxy" | "direct" | "tls" | "returned"
    now,           \* ticks since the call started
    edgeConn,      \* "none" | "proxy" | "direct": the TCP connection in hand
    open,          \* sockets this call opened and has neither closed nor returned
    tlsDeadline,   \* tlsEdgeConn's deadline; 0 is Go's zero time (no deadline)
    result,        \* "none" | "conn" | "dialError" | "tlsError"
    directOutcome, \* history: how the direct dial of this call went
    proxyOutcome,  \* history: how the SOCKS5 dial of this call went
    held,          \* serveConnection holds the TLS connection DialEdge returned
    dials,         \* DialEdge calls made so far
    leaked         \* sockets left open by calls that returned an error

dialVars == <<pc, now, edgeConn, open, tlsDeadline, result, directOutcome,
              proxyOutcome, held, dials, leaked>>

DialTypeOK ==
    /\ pc \in {"idle", "proxy", "direct", "tls", "returned"}
    /\ now \in 0..(2 * Timeout)
    /\ edgeConn \in {"none", "proxy", "direct"}
    /\ open \subseteq {"proxy", "direct"}
    /\ tlsDeadline \in 0..(2 * Timeout)
    /\ result \in {"none", "conn", "dialError", "tlsError"}
    /\ directOutcome \in {"none", "expired"} \cup TcpOutcomes
    /\ proxyOutcome \in {"none", "malformed"} \cup TcpOutcomes
    /\ held \in BOOLEAN
    /\ dials \in 0..MaxDials
    /\ leaked \in Nat

\* context.WithTimeout(ctx, timeout): the deadline shared by both dials.
DialDeadline == Timeout

\* When a TCP dial with outcome o started at now ends, bounded by dialCtx.
DialEnd(o) == IF o = "blackhole" THEN DialDeadline ELSE IF now + 1 <= DialDeadline THEN now + 1 ELSE DialDeadline
DialSucceeds(o) == o = "ok" /\ now + 1 <= DialDeadline

\* When the SOCKS5 dial started at now can end: a refusal at any tick up to
\* the deadline, otherwise as a TCP dial.
ProxyEnds(o) == IF o = "refused" THEN (now + 1) .. DialDeadline ELSE {DialEnd(o)}

\* The function returns: newDialError wraps the cause; the sockets still in
\* `open` are not closed by any path.
ReturnError(kind) ==
    /\ result' = kind
    /\ pc' = "returned"
    /\ leaked' = leaked + Cardinality(open)
    /\ open' = {}

Init ==
    /\ pc = "idle"
    /\ now = 0
    /\ edgeConn = "none"
    /\ open = {}
    /\ tlsDeadline = 0
    /\ result = "none"
    /\ directOutcome = "none"
    /\ proxyOutcome = "none"
    /\ held = FALSE
    /\ dials = 0
    /\ leaked = 0

\* serveConnection calls DialEdgeWithProxy: dialCtx is derived; a proxy is
\* tried first only when proxyURL is set.
CallDialEdge ==
    /\ pc \in {"idle", "returned"}
    /\ ~held
    /\ dials < MaxDials
    /\ dials' = dials + 1
    /\ pc' = IF ProxyURL # "" THEN "proxy" ELSE "direct"
    /\ now' = 0
    /\ edgeConn' = "none"
    /\ tlsDeadline' = 0
    /\ result' = "none"
    /\ directOutcome' = "none"
    /\ proxyOutcome' = "none"
    /\ UNCHANGED <<open, held, leaked>>

\* dialViaProxy: url.Parse, proxy.SOCKS5, DialContext(dialCtx).  Any error
\* is dropped and edgeConn stays nil, so the direct dial follows.
ProxyDial ==
    /\ pc = "proxy"
    /\ IF ProxyURL = "malformed"
       THEN /\ proxyOutcome' = "malformed"
            /\ pc' = "direct" /\ UNCHANGED <<now, edgeConn, open>>
       ELSE \E o \in ProxyResults :
              /\ proxyOutcome' = o
              /\ now' \in ProxyEnds(o)
              /\ IF DialSucceeds(o)
                 THEN edgeConn' = "proxy" /\ open' = open \cup {"proxy"} /\ pc' = "tls"
                 ELSE pc' = "direct" /\ UNCHANGED <<edgeConn, open>>
    /\ UNCHANGED <<tlsDeadline, result, directOutcome, held, dials, leaked>>

\* Mutant: the direct dial gets a fresh timeout of its own.
DirectDialFreshTimeout ==
    /\ pc = "direct"
    /\ \E o \in DirectResults :
        /\ directOutcome' = o
        /\ now' = IF o = "blackhole" THEN now + Timeout ELSE now + 1
        /\ IF o = "ok"
           THEN /\ edgeConn' = "direct" /\ open' = open \cup {"direct"} /\ pc' = "tls"
                /\ UNCHANGED <<result, leaked>>
           ELSE ReturnError("dialError") /\ UNCHANGED edgeConn
    /\ UNCHANGED <<tlsDeadline, proxyOutcome, held, dials>>

\* dialDirect with dialCtx; an expired dialCtx fails at once.
DirectDial ==
    /\ pc = "direct"
    /\ \E o \in DirectResults :
        /\ directOutcome' = IF now >= DialDeadline THEN "expired" ELSE o
        /\ IF now < DialDeadline /\ DialSucceeds(o)
           THEN /\ now' = DialEnd(o)
                /\ edgeConn' = "direct" /\ open' = open \cup {"direct"} /\ pc' = "tls"
                /\ UNCHANGED <<result, leaked>>
           ELSE /\ now' = IF now >= DialDeadline THEN now ELSE DialEnd(o)
                /\ ReturnError("dialError")
                /\ UNCHANGED edgeConn
    /\ UNCHANGED <<tlsDeadline, proxyOutcome, held, dials>>

\* tls.Client, SetDeadline(now + timeout), Handshake, SetDeadline(zero);
\* on success the TLS connection is handed to serveConnection.
TlsHandshake ==
    /\ pc = "tls"
    /\ \E h \in HandshakeResults :
        LET deadline == now + Timeout
        IN IF h = "ok"
           THEN /\ now' = now + 1
                /\ tlsDeadline' = 0
                /\ result' = "conn"
                /\ pc' = "returned"
                /\ open' = open \ {edgeConn}
                /\ held' = TRUE
                /\ UNCHANGED leaked
           ELSE /\ now' = IF h = "stall" THEN deadline ELSE now + 1
                /\ tlsDeadline' = deadline
                /\ ReturnError("tlsError")
                /\ UNCHANGED held
    /\ UNCHANGED <<edgeConn, directOutcome, proxyOutcome, dials>>

\* serveConnection calls serveHTTP2 with the connection.  In
\* PostQuantumStrict mode serveHTTP2 returns its unrecoverableError before
\* NewHTTP2Connection, and nothing closes the connection; otherwise the
\* HTTP2 connection owns it and closes it when its Serve ends.
ServeHTTP2 ==
    /\ pc = "returned"
    /\ held
    /\ held' = FALSE
    /\ leaked' = IF PostQuantum = "strict" THEN leaked + 1 ELSE leaked
    /\ UNCHANGED <<pc, now, edgeConn, open, tlsDeadline, result, directOutcome,
                   proxyOutcome, dials>>

\* No more calls.
DialsExhausted ==
    /\ pc \in {"idle", "returned"}
    /\ ~held
    /\ dials = MaxDials
    /\ UNCHANGED dialVars

DialNext ==
    \/ CallDialEdge \/ ProxyDial \/ DirectDial \/ TlsHandshake
    \/ ServeHTTP2 \/ DialsExhausted

DialSpec == Init /\ [][DialNext]_dialVars

(***************************************************************************)
(* Properties.                                                             *)
(***************************************************************************)

\* Spec 5 (resource lifetimes): every TCP connection DialEdge opens is
\* returned to the caller or closed on the failure path, and the caller's
\* failure paths close what they were given: a failed TLS handshake and a
\* refused PostQuantumStrict HTTP2 session must not leave the socket open.
NoSocketLeak == leaked = 0

\* Spec 4.1 (53, 64): a failed SOCKS5 attempt, a timeout included, falls
\* through to the direct dial so that the tunnel's availability does not
\* depend on the proxy; SOCKS5_PROXY_GUIDE.md scenario 3 says a slow or
\* hung proxy leads to a normal direct connection.  So a dial error is the
\* direct dial's own failure: it refused or black-holed.
DialErrorFromDirectDial ==
    (pc = "returned" /\ result = "dialError") =>
        directOutcome \in {"refused", "blackhole"}

\* Spec 5 (suspension points): a DialEdge call returns within one dial
\* timeout plus one handshake timeout, whatever the proxy and the edge do.
DialEdgeBounded ==
    pc = "returned" => now <= DialDeadline + Timeout

\* Spec 8 (boundary): with EdgeProxyURL = "" DialEdgeWithProxy behaves
\* exactly like the legacy direct-only dialer.  The proxy state, the
\* sockets and the history are hidden; a proxy step would have to be a
\* legacy step.
Legacy == INSTANCE LegacyDialEdge WITH
    lpc <- IF pc = "proxy" THEN "direct" ELSE pc,
    lnow <- now, lresult <- result, ldials <- dials
ImplementsLegacy == Legacy!LegacySpec
=============================================================================
