--------------------------- MODULE EdgeTunnelServer ---------------------------
(***************************************************************************)
(* The serving task of connection index 0 while Supervisor.initialize     *)
(* waits for it: startFirstTunnel's inline retry loop (supervisor.go       *)
(* 386-457) calling EdgeTunnelServer.Serve (780-884) again and again.      *)
(* One Serve attempt is: GetAddr, serveTunnel/serveConnection (dial, then  *)
(* the QUIC or HTTP2 session and its error classification), the            *)
(* EdgeAddrHandler decision and address rotation, the backoff wait and the *)
(* protocol selection of selectNextProtocol.  The per-index state that     *)
(* survives attempts is the protocolFallback (backoff counter, protocol,   *)
(* inFallback) and ipAddrFallback.retriesByConnIndex[0].                   *)
(*                                                                         *)
(* Errors are abstracted to their classes (strings below); the network and *)
(* the edge are nondeterministic within DialResults and SessionFailures.   *)
(***************************************************************************)
EXTENDS Naturals, FiniteSets

CONSTANTS
    Retries,            \* config.Retries: ceiling of the per-index backoff counter
    MaxEdgeAddrRetries, \* config.MaxEdgeAddrRetries (uint8)
    Addrs,              \* the edge addresses this process may use
    NoAddr,             \* "the index holds no address"
    StaticEdge,         \* len(config.EdgeAddrs) > 0
    SelectorCurrent,    \* ProtocolSelector.Current()
    SelectorFallback,   \* ProtocolSelector.Fallback(), or NoFallback
    DialResults,        \* protocol -> the dial outcomes the network can produce
    SessionFailures     \* the session errors the edge and the session can produce

Protocols == {"quic", "http2"}
NoFallback == "none"

\* Dial outcomes: success, DialError (TCP/TLS for HTTP2), EdgeQuicDialError,
\* and an EdgeQuicDialError whose cause is "operation not permitted".
DialErrors == {"dial", "quicDial", "quicDialNotPermitted"}
DialOutcomes == {"ok"} \cup DialErrors

\* Errors a running session can end with (besides "canceled" and "nil").
RegistrationErrors == {"dupConn", "registerPermanent", "registerTransient", "unauthorized"}
QuicOnlyErrors == {"idleTimeout", "applicationError"}
SessionErrors == RegistrationErrors \cup QuicOnlyErrors \cup {"reconnect", "streamError", "panic"}

Errors == DialErrors \cup SessionErrors \cup {"noAddrs", "canceled", "nil"}

ASSUME ConstantsAssumption ==
    /\ Retries \in Nat \ {0}
    /\ MaxEdgeAddrRetries \in 0..255
    /\ Addrs # {} /\ NoAddr \notin Addrs
    /\ StaticEdge \in BOOLEAN
    /\ SelectorCurrent \in Protocols
    /\ SelectorFallback \in (Protocols \ {SelectorCurrent}) \cup {NoFallback}
    /\ DialResults \in [Protocols -> SUBSET DialOutcomes]
    /\ \A p \in Protocols : DialResults[p] # {}
    /\ "quicDial" \notin DialResults["http2"] /\ "quicDialNotPermitted" \notin DialResults["http2"]
    /\ "dial" \notin DialResults["quic"]
    /\ SessionFailures \subseteq SessionErrors

VARIABLES
    pc,             \* "serve" | "session" | "wait" | "returned" | "done"
    addr,           \* the edge address held by index 0, or NoAddr
    ipRetries,      \* ipAddrFallback.retriesByConnIndex[0]
    retries,        \* protocolFallback's BackoffHandler retries
    protocol,       \* protocolFallback.protocol
    inFallback,     \* protocolFallback.inFallback
    fused,          \* this attempt's connectedFuse has latched true
    connectedWith,  \* protocols the ConnTracker has seen connected
    shouldFallback, \* Serve's local shouldFallbackProtocol
    err,            \* the attempt's error (Serve's err / startFirstTunnel's err)
    ctxDone,        \* ctx cancelled
    graceful,       \* gracefulShutdownC closed
    waited,         \* history: this attempt went through the backoff timer
    failedSince     \* history: failed attempts since the last registration (capped)

vars == <<pc, addr, ipRetries, retries, protocol, inFallback, fused, connectedWith,
          shouldFallback, err, ctxDone, graceful, waited, failedSince>>
fbVars == <<retries, protocol, inFallback>>

TypeOK ==
    /\ pc \in {"serve", "session", "wait", "returned", "done"}
    /\ addr \in Addrs \cup {NoAddr}
    /\ ipRetries \in 0..MaxEdgeAddrRetries
    /\ retries \in 0..Retries
    /\ protocol \in Protocols
    /\ inFallback \in BOOLEAN /\ fused \in BOOLEAN
    /\ connectedWith \subseteq Protocols
    /\ shouldFallback \in BOOLEAN
    /\ err \in Errors
    /\ ctxDone \in BOOLEAN /\ graceful \in BOOLEAN /\ waited \in BOOLEAN
    /\ failedSince \in 0..Retries

(***************************************************************************)
(* Helpers translated from the code.                                       *)
(***************************************************************************)

\* serveTunnel's classification of the serveConnection error (the switch
\* after the call; a recovered panic is recoverable; a nil error is not).
Recoverable(e) ==
    e \in {"dial", "registerTransient", "unauthorized", "reconnect",
           "idleTimeout", "applicationError", "streamError", "panic"}

\* ipAddrFallback.ShouldGetNewAddress: the errors that rotate the address.
RotateErrors == {"dupConn", "idleTimeout"} \cup DialErrors

\* isQuicBroken: an idle timeout, or a transport error that says
\* "operation not permitted" (reached through the EdgeQuicDialError's cause).
IsQuicBroken(e) == e \in {"idleTimeout", "quicDialNotPermitted"}

\* The errors startFirstTunnel retries in place (besides Unauthorized and,
\* on a static edge, ErrNoAddressesLeft).
InlineRetryErrors ==
    {"dupConn", "idleTimeout", "applicationError", "dial", "quicDial",
     "quicDialNotPermitted", "streamError"}

\* Mutant: the counter stops one short of its ceiling.
BackoffTimerRetriesShort(r) == IF r < Retries - 1 THEN r + 1 ELSE r

\* retry.BackoffHandler.BackoffTimer with retryForever: count one more retry
\* unless the ceiling is reached.
BackoffTimerRetries(r) == IF r < Retries THEN r + 1 ELSE r

\* How a dial can end: a cancelled ctx makes every dial fail.
DialFailure(p) == IF p = "quic" THEN "quicDial" ELSE "dial"
Dials(p) == IF ctxDone THEN {DialFailure(p)} ELSE DialResults[p]

\* Serve's return: the deferred connectedFuse.Fuse(false) ends the attempt.
Return(e) ==
    /\ pc' = "returned"
    /\ err' = e

\* failedSince counts the attempt that just failed.
CountFailure(e) ==
    failedSince' = IF e # "nil" /\ failedSince < Retries THEN failedSince + 1 ELSE failedSince

\* Mutant: Serve returns right after rotating the address, skipping the wait.
AfterServeSkippingBackoff(a, e, rec) ==
    LET dialErr == e \in DialErrors
        reached == ipRetries >= MaxEdgeAddrRetries
    IN /\ ipRetries' = IF ~dialErr THEN ipRetries ELSE IF reached THEN 0 ELSE ipRetries + 1
       /\ CountFailure(e)
       /\ \E b \in IF e \in RotateErrors THEN Addrs \ {a} ELSE {a} : addr' = b
       /\ shouldFallback' = IF dialErr THEN reached ELSE rec
       /\ IF ctxDone \/ e \in RotateErrors THEN Return(e)
                                          ELSE pc' = "wait" /\ err' = e

\* Serve after serveTunnel returned (e, rec) for address a: the
\* EdgeAddrHandler decision, GetDifferentAddr, GetMaxBackoffDuration.
AfterServe(a, e, rec) ==
    LET dialErr == e \in DialErrors
        reached == ipRetries >= MaxEdgeAddrRetries
    IN /\ ipRetries' = IF ~dialErr THEN ipRetries ELSE IF reached THEN 0 ELSE ipRetries + 1
       /\ CountFailure(e)
       /\ \/ /\ e \in RotateErrors
             /\ Addrs \ {a} = {}
             /\ addr' = NoAddr
             /\ shouldFallback' = rec
             /\ Return("noAddrs")
          \/ /\ \E b \in IF e \in RotateErrors THEN Addrs \ {a} ELSE {a} : addr' = b
             /\ shouldFallback' = IF dialErr THEN reached ELSE rec
             /\ IF ctxDone THEN Return(e)
                           ELSE pc' = "wait" /\ err' = e

\* Mutant: ReachedMaxRetries tested one retry early.
SelectNextProtocolEarly(r, cause) ==
    LET hasFallback == SelectorFallback # NoFallback
    IN IF r + 1 >= Retries \/ (hasFallback /\ IsQuicBroken(cause))
       THEN IF ~hasFallback \/ protocol = SelectorFallback
            THEN retries' = r /\ UNCHANGED <<protocol, inFallback>>
            ELSE /\ retries' = 0
                 /\ protocol' = SelectorFallback
                 /\ inFallback' = TRUE
       ELSE /\ retries' = r
            /\ inFallback' = inFallback
            /\ protocol' = IF inFallback THEN protocol ELSE SelectorCurrent

\* selectNextProtocol, applied with the backoff counter r that BackoffTimer
\* has just produced; fallback() and the protocol refresh from the selector.
SelectNextProtocol(r, cause) ==
    LET hasFallback == SelectorFallback # NoFallback
    IN IF r = Retries \/ (hasFallback /\ IsQuicBroken(cause))
       THEN IF ~hasFallback \/ protocol = SelectorFallback
            THEN retries' = r /\ UNCHANGED <<protocol, inFallback>>
            ELSE /\ retries' = 0
                 /\ protocol' = SelectorFallback
                 /\ inFallback' = TRUE
       ELSE /\ retries' = r
            /\ inFallback' = inFallback
            /\ protocol' = IF inFallback THEN protocol ELSE SelectorCurrent

(***************************************************************************)
(* Actions.                                                                *)
(***************************************************************************)

Init ==
    /\ pc = "serve"
    /\ addr = NoAddr
    /\ ipRetries = 0
    /\ retries = 0
    /\ protocol = SelectorCurrent
    /\ inFallback = FALSE
    /\ fused = FALSE
    /\ connectedWith = {}
    /\ shouldFallback = FALSE
    /\ err = "nil"
    /\ ctxDone = FALSE /\ graceful = FALSE
    /\ waited = FALSE
    /\ failedSince = 0

\* Serve up to the end of the dial: GetAddr (stable until rotated), a fresh
\* connectedFuse, then serveConnection's dial for protocolFallback.protocol.
\* A failed dial ends serveTunnel.
ServeStart ==
    /\ pc = "serve"
    /\ \E a \in (IF addr = NoAddr THEN Addrs ELSE {addr}), d \in Dials(protocol) :
        /\ fused' = FALSE
        /\ waited' = FALSE
        /\ IF d # "ok"
           THEN AfterServe(a, d, Recoverable(d))
           ELSE /\ addr' = a
                /\ pc' = "session"
                /\ UNCHANGED <<ipRetries, shouldFallback, err, failedSince>>
    /\ UNCHANGED <<fbVars, connectedWith, ctxDone, graceful>>

\* Mutant: the registration resets only the backoff, not inFallback.
ConnectedKeepingFallback ==
    /\ pc = "session"
    /\ ~fused
    /\ fused' = TRUE
    /\ retries' = 0
    /\ connectedWith' = connectedWith \cup {protocol}
    /\ failedSince' = 0
    /\ UNCHANGED <<pc, addr, ipRetries, protocol, inFallback, shouldFallback, err,
                   ctxDone, graceful, waited>>

\* The control stream registers: connectedFuse.Connected() latches the fuse
\* and resets the backoff (protocolFallback.reset); the tracker records it.
Connected ==
    /\ pc = "session"
    /\ ~fused
    /\ fused' = TRUE
    /\ retries' = 0
    /\ inFallback' = FALSE
    /\ connectedWith' = connectedWith \cup {protocol}
    /\ failedSince' = 0
    /\ UNCHANGED <<pc, addr, ipRetries, protocol, shouldFallback, err, ctxDone, graceful, waited>>

\* The session ends (errgroup of the session and listenReconnect); serveTunnel
\* classifies its error and Serve goes on with AfterServe.
SessionEnds ==
    /\ pc = "session"
    /\ \E e \in SessionFailures \cup (IF ctxDone THEN {"canceled"} ELSE {})
                                \cup (IF graceful THEN {"nil"} ELSE {}) :
        /\ e \in QuicOnlyErrors => protocol = "quic"
        /\ e \in RegistrationErrors => ~fused
        /\ AfterServe(addr, e, Recoverable(e))
    /\ UNCHANGED <<fbVars, fused, connectedWith, ctxDone, graceful, waited>>

\* The backoff select: ctx cancelled.
WaitCtxDone ==
    /\ pc = "wait"
    /\ ctxDone
    /\ Return("canceled")
    /\ UNCHANGED <<addr, ipRetries, fbVars, fused, connectedWith, shouldFallback,
                   ctxDone, graceful, waited, failedSince>>

\* The backoff select: graceful shutdown, Serve returns nil.
WaitShutdown ==
    /\ pc = "wait"
    /\ graceful
    /\ Return("nil")
    /\ UNCHANGED <<addr, ipRetries, fbVars, fused, connectedWith, shouldFallback,
                   ctxDone, graceful, waited, failedSince>>

\* The backoff select: BackoffTimer fires; then the fallback decision.
BackoffTimerFires ==
    /\ pc = "wait"
    /\ LET r == BackoffTimerRetries(retries)
       IN IF ~shouldFallback \/ SelectorCurrent \in connectedWith
          THEN retries' = r /\ UNCHANGED <<protocol, inFallback>>
          ELSE SelectNextProtocol(r, err)
    /\ pc' = "returned"
    /\ waited' = TRUE
    /\ UNCHANGED <<addr, ipRetries, fused, connectedWith, shouldFallback, err,
                   ctxDone, graceful, failedSince>>

\* startFirstTunnel after Serve returned: retry in place, or return (the
\* deferred send on tunnelErrors hands the error to initialize).
FirstTunnelRetries ==
    /\ pc = "returned"
    /\ ~ctxDone
    /\ \/ err = "unauthorized"
       \/ err \in InlineRetryErrors
       \/ err = "noAddrs" /\ StaticEdge
    /\ pc' = "serve"
    /\ UNCHANGED <<addr, ipRetries, fbVars, fused, connectedWith, shouldFallback, err,
                   ctxDone, graceful, waited, failedSince>>

FirstTunnelReturns ==
    /\ pc = "returned"
    /\ \/ ctxDone
       \/ err = "nil"
       \/ err \notin InlineRetryErrors \cup {"unauthorized", "noAddrs"}
       \/ err = "noAddrs" /\ ~StaticEdge
    /\ pc' = "done"
    /\ UNCHANGED <<addr, ipRetries, fbVars, fused, connectedWith, shouldFallback, err,
                   ctxDone, graceful, waited, failedSince>>

\* The environment: the process context is cancelled, or the operator asks
\* for a graceful shutdown.
CancelContext ==
    /\ ~ctxDone
    /\ ctxDone' = TRUE
    /\ UNCHANGED <<pc, addr, ipRetries, fbVars, fused, connectedWith, shouldFallback,
                   err, graceful, waited, failedSince>>

CloseGracefulShutdown ==
    /\ ~graceful
    /\ graceful' = TRUE
    /\ UNCHANGED <<pc, addr, ipRetries, fbVars, fused, connectedWith, shouldFallback,
                   err, ctxDone, waited, failedSince>>

\* startFirstTunnel has returned: nothing is left to do.
Terminated ==
    /\ pc = "done"
    /\ UNCHANGED vars

ServingStep ==
    \/ ServeStart \/ Connected \/ SessionEnds
    \/ WaitCtxDone \/ WaitShutdown \/ BackoffTimerFires
    \/ FirstTunnelRetries \/ FirstTunnelReturns

Next ==
    \/ ServingStep
    \/ CancelContext \/ CloseGracefulShutdown
    \/ Terminated

Spec == Init /\ [][Next]_vars

\* The serving goroutine runs whenever it can (a Go goroutine is never
\* starved forever), the backoff timer eventually fires, and the edge
\* answers a registration (the session's RPC timeouts bound it).
Fairness ==
    /\ WF_vars(ServeStart) /\ WF_vars(BackoffTimerFires)
    /\ WF_vars(WaitCtxDone) /\ WF_vars(WaitShutdown)
    /\ WF_vars(FirstTunnelRetries) /\ WF_vars(FirstTunnelReturns)
    /\ WF_vars(Connected)

LiveSpec == Spec /\ Fairness

(***************************************************************************)
(* Properties.                                                             *)
(***************************************************************************)

\* A fallback that is not caused by a broken QUIC happens only after
\* Retries failed attempts since the index last registered: the backoff
\* counter that ReachedMaxRetries reads advances once per BackoffTimer and
\* is reset by Connected() and fallback().
FallbackNeedsFailures ==
    [][(protocol' # protocol /\ inFallback' /\ ~IsQuicBroken(err))
         => failedSince >= Retries]_vars

\* Spec 5: within one index a retry is never launched before the backoff
\* window of the failed attempt elapsed (startFirstTunnel's in-place retry).
BackoffBeforeRetry ==
    [][(pc = "returned" /\ pc' = "serve") => waited]_vars

\* The retry loop changes index 0's protocolFallback only as that type
\* allows: reset() on registration, and after each BackoffTimer either
\* nothing more, the selector's protocol while not in fallback, or one
\* fallback() to the alternative protocol.
PF == INSTANCE ProtocolFallback
ImplementsProtocolFallback == PF!PFSpec

\* Scenario 3 of the spec: when QUIC dials keep failing and HTTP2 works,
\* the index falls back to HTTP2 and registers with it (unless the process
\* is stopped first).
FallbackConnects ==
    <>(SelectorFallback \in connectedWith \/ ctxDone \/ graceful)

\* Spec 4.5: Run does not stop running tunnels on graceful shutdown, they
\* observe gracefulShutdownC themselves, and (scenario 6) Run returns once
\* the active count reaches 0, which takes index 0's result.  So once the
\* channel is closed startFirstTunnel's loop must end and deliver it.
ShutdownEndsFirstTunnel == graceful ~> pc = "done"
=============================================================================
