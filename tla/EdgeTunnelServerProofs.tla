------------------------ MODULE EdgeTunnelServerProofs ------------------------
(***************************************************************************)
(* Proofs about EdgeTunnelServer: type correctness, and that the retry     *)
(* loop refines the protocolFallback object, for every value of the        *)
(* constants.                                                              *)
(***************************************************************************)
EXTENDS EdgeTunnelServer, TLAPS

(* The facts about the constants the proofs use.                          *)
LEMMA ConstFacts ==
    /\ Retries \in Nat \ {0}
    /\ MaxEdgeAddrRetries \in Nat
    /\ SelectorCurrent \in {"quic", "http2"}
    /\ SelectorFallback \in {"quic", "http2", "none"}
    /\ \A p \in {"quic", "http2"} : DialResults[p] \subseteq DialOutcomes
    /\ SessionFailures \subseteq SessionErrors
BY ConstantsAssumption DEF Protocols, NoFallback

USE ConstFacts

(* The only protocol an index can be in fallback with is the selector's   *)
(* fallback: fallback() is the one place that sets inFallback, and it      *)
(* installs selector.Fallback() as the protocol.                           *)
FallbackProtocol == inFallback => protocol = SelectorFallback

Inv == TypeOK /\ FallbackProtocol

(* The state initialize seeds (protocolFallback with the selector's       *)
(* protocol, not in fallback) satisfies the invariant.                      *)
LEMMA InitInv == Init => Inv
<1> SUFFICES ASSUME Init PROVE Inv
  OBVIOUS
<1>1. pc \in {"serve", "session", "wait", "returned", "done"} /\ addr \in Addrs \cup {NoAddr}
  BY DEF Init
<1>2. ipRetries \in 0..MaxEdgeAddrRetries /\ retries \in 0..Retries /\ failedSince \in 0..Retries
  BY DEF Init
<1>3. protocol \in Protocols /\ connectedWith \subseteq Protocols /\ err \in Errors
  BY DEF Init, Protocols, Errors
<1>4. /\ inFallback \in BOOLEAN /\ fused \in BOOLEAN /\ shouldFallback \in BOOLEAN
      /\ ctxDone \in BOOLEAN /\ graceful \in BOOLEAN /\ waited \in BOOLEAN
  BY Zenon DEF Init
<1>5. FallbackProtocol
  BY Zenon DEF Init, FallbackProtocol
<1> QED  BY <1>1, <1>2, <1>3, <1>4, <1>5 DEF Inv, TypeOK

(* selectNextProtocol keeps the counter in range and, if it leaves the     *)
(* index in fallback, leaves it on the fallback protocol; and it never     *)
(* changes the protocol of an index already in fallback.                   *)
LEMMA SelectStep ==
    ASSUME NEW r \in 0 .. Retries, NEW cause, Inv,
           SelectNextProtocol(r, cause)
    PROVE  /\ retries' \in 0 .. Retries
           /\ protocol' \in Protocols
           /\ inFallback' \in BOOLEAN
           /\ inFallback' => protocol' = SelectorFallback
           /\ inFallback => protocol' = protocol
<1> DEFINE hasFb == SelectorFallback # NoFallback
           cond == r = Retries \/ (hasFb /\ IsQuicBroken(cause))
<1>1. CASE cond /\ (~hasFb \/ protocol = SelectorFallback)
  <2>1. retries' = r /\ protocol' = protocol /\ inFallback' = inFallback
    BY <1>1 DEF SelectNextProtocol
  <2> QED  BY <2>1, Zenon DEF Inv, TypeOK, FallbackProtocol
<1>2. CASE cond /\ hasFb /\ protocol # SelectorFallback
  <2>1. retries' = 0 /\ protocol' = SelectorFallback /\ inFallback' = TRUE
    BY <1>2 DEF SelectNextProtocol
  <2>2. SelectorFallback \in Protocols
    BY <1>2 DEF Protocols, NoFallback
  <2>3. 0 \in 0 .. Retries
    OBVIOUS
  <2>4. ~inFallback
    BY <1>2, Zenon DEF Inv, FallbackProtocol
  <2> QED  BY <2>1, <2>2, <2>3, <2>4, Zenon
<1>3. CASE ~cond
  <2>1. /\ retries' = r /\ inFallback' = inFallback
        /\ protocol' = IF inFallback THEN protocol ELSE SelectorCurrent
    BY <1>3 DEF SelectNextProtocol
  <2>2. SelectorCurrent \in Protocols
    BY DEF Protocols
  <2> QED  BY <2>1, <2>2, Zenon DEF Inv, TypeOK, FallbackProtocol
<1> QED  BY <1>1, <1>2, <1>3

(* BackoffTimer's counter never leaves 0..Retries.                          *)
LEMMA RetriesStep ==
    ASSUME NEW r \in 0 .. Retries
    PROVE  BackoffTimerRetries(r) \in 0 .. Retries
BY DEF BackoffTimerRetries

(* AfterServe keeps the Serve-local state well typed.                      *)
LEMMA AfterServeType ==
    ASSUME TypeOK, NEW a \in Addrs \cup {NoAddr}, NEW e \in Errors, NEW rec \in BOOLEAN,
           AfterServe(a, e, rec)
    PROVE  /\ addr' \in Addrs \cup {NoAddr}
           /\ ipRetries' \in 0 .. MaxEdgeAddrRetries
           /\ shouldFallback' \in BOOLEAN
           /\ err' \in Errors
           /\ pc' \in {"serve", "session", "wait", "returned", "done"}
           /\ failedSince' \in 0 .. Retries
<1>1. ipRetries' \in 0 .. MaxEdgeAddrRetries
  BY DEF AfterServe, TypeOK
<1>2. failedSince' \in 0 .. Retries
  BY DEF AfterServe, CountFailure, TypeOK
<1>3. \/ /\ addr' = NoAddr /\ shouldFallback' = rec /\ pc' = "returned" /\ err' = "noAddrs"
      \/ /\ addr' \in Addrs \cup {NoAddr}
         /\ shouldFallback' \in {ipRetries >= MaxEdgeAddrRetries, rec}
         /\ pc' \in {"returned", "wait"} /\ err' = e
  BY Zenon DEF AfterServe, Return
<1>4. (ipRetries >= MaxEdgeAddrRetries) \in BOOLEAN
  OBVIOUS
<1> QED  BY <1>1, <1>2, <1>3, <1>4, Zenon DEF Errors

(* Every step of Serve, startFirstTunnel and the environment preserves     *)
(* the invariant.                                                           *)
LEMMA NextInv == Inv /\ [Next]_vars => Inv'
<1> SUFFICES ASSUME Inv, [Next]_vars PROVE Inv'
  OBVIOUS
<1>1. CASE ServeStart
  <2>1. PICK a \in (IF addr = NoAddr THEN Addrs ELSE {addr}), d \in Dials(protocol) :
            /\ fused' = FALSE
            /\ waited' = FALSE
            /\ IF d # "ok"
               THEN AfterServe(a, d, Recoverable(d))
               ELSE /\ addr' = a
                    /\ pc' = "session"
                    /\ UNCHANGED <<ipRetries, shouldFallback, err, failedSince>>
    BY <1>1 DEF ServeStart
  <2>2. a \in Addrs \cup {NoAddr} /\ d \in DialOutcomes
    BY DEF Inv, TypeOK, Dials, DialFailure, DialOutcomes, DialErrors, Protocols
  <2>3. CASE d # "ok"
    <3>1. d \in Errors
      BY <2>2, <2>3 DEF DialOutcomes, Errors
    <3>2. Recoverable(d) \in BOOLEAN
      BY DEF Recoverable
    <3> QED  BY <2>1, <2>2, <2>3, <3>1, <3>2, <1>1, AfterServeType
             DEF Inv, TypeOK, FallbackProtocol, ServeStart, fbVars
  <2>4. CASE d = "ok"
    BY <2>1, <2>2, <2>4, <1>1 DEF Inv, TypeOK, FallbackProtocol, ServeStart, fbVars
  <2> QED  BY <2>3, <2>4
<1>2. CASE Connected
  <2>1. retries' = 0 /\ inFallback' = FALSE /\ fused' = TRUE
        /\ connectedWith' = connectedWith \cup {protocol} /\ failedSince' = 0
        /\ UNCHANGED <<pc, addr, ipRetries, protocol, shouldFallback, err, ctxDone, graceful, waited>>
    BY <1>2 DEF Connected
  <2>2. 0 \in 0 .. Retries
    OBVIOUS
  <2> QED  BY <2>1, <2>2, Zenon DEF Inv, TypeOK, FallbackProtocol
<1>3. CASE SessionEnds
  <2>1. PICK e \in SessionFailures \cup (IF ctxDone THEN {"canceled"} ELSE {})
                                   \cup (IF graceful THEN {"nil"} ELSE {}) :
            AfterServe(addr, e, Recoverable(e))
    BY <1>3 DEF SessionEnds
  <2>2. e \in Errors /\ Recoverable(e) \in BOOLEAN
    BY DEF Errors, SessionErrors, Recoverable
  <2> QED  BY <1>3, <2>1, <2>2, AfterServeType
           DEF SessionEnds, Inv, TypeOK, FallbackProtocol, fbVars
<1>4. CASE WaitCtxDone
  BY <1>4 DEF WaitCtxDone, Return, Inv, TypeOK, FallbackProtocol, fbVars, Errors
<1>5. CASE WaitShutdown
  BY <1>5 DEF WaitShutdown, Return, Inv, TypeOK, FallbackProtocol, fbVars, Errors
<1>6. CASE BackoffTimerFires
  <2> DEFINE r == BackoffTimerRetries(retries)
  <2>1. r \in 0 .. Retries
    BY RetriesStep DEF Inv, TypeOK
  <2>2. CASE ~shouldFallback \/ SelectorCurrent \in connectedWith
    BY <1>6, <2>1, <2>2 DEF BackoffTimerFires, Inv, TypeOK, FallbackProtocol
  <2>3. CASE ~(~shouldFallback \/ SelectorCurrent \in connectedWith)
    <3>1. SelectNextProtocol(r, err)
      BY <1>6, <2>3 DEF BackoffTimerFires
    <3> QED  BY <1>6, <2>1, <3>1, SelectStep DEF BackoffTimerFires, Inv, TypeOK, FallbackProtocol
  <2> QED  BY <2>2, <2>3
<1>7. CASE FirstTunnelRetries
  BY <1>7 DEF FirstTunnelRetries, Inv, TypeOK, FallbackProtocol, fbVars
<1>8. CASE FirstTunnelReturns
  BY <1>8 DEF FirstTunnelReturns, Inv, TypeOK, FallbackProtocol, fbVars
<1>9. CASE CancelContext \/ CloseGracefulShutdown
  <2>1. /\ ctxDone' \in BOOLEAN /\ graceful' \in BOOLEAN
        /\ UNCHANGED <<pc, addr, ipRetries, retries, protocol, inFallback, fused, connectedWith,
                       shouldFallback, err, waited, failedSince>>
    BY <1>9 DEF CancelContext, CloseGracefulShutdown, fbVars, Inv, TypeOK
  <2> QED  BY <2>1, Zenon DEF Inv, TypeOK, FallbackProtocol
<1>10. CASE Terminated \/ UNCHANGED vars
  BY <1>10 DEF Terminated, vars, Inv, TypeOK, FallbackProtocol
<1> QED  BY <1>1, <1>2, <1>3, <1>4, <1>5, <1>6, <1>7, <1>8, <1>9, <1>10
         DEF Next, ServingStep

(* Every reachable state of the Serve loop of index 0 is well typed.       *)
THEOREM TypeCorrect == Spec => []TypeOK
<1>1. Init => Inv
  BY InitInv
<1>2. Inv /\ [Next]_vars => Inv'
  BY NextInv
<1>3. Inv => TypeOK
  BY DEF Inv
<1> QED  BY <1>1, <1>2, <1>3, PTL DEF Spec

(***************************************************************************)
(* Refinement of the protocolFallback object.                              *)
(***************************************************************************)

(* The BackoffTimer of the retry loop followed by selectNextProtocol is   *)
(* one of the object's steps: a plain count, a count and a refresh from    *)
(* the selector, or fallback(); a refusal to switch is a plain count.      *)
LEMMA SelectRefines ==
    ASSUME NEW cause, SelectNextProtocol(BackoffTimerRetries(retries), cause)
    PROVE  PF!PFBackoff \/ PF!PFBackoffFollow \/ PF!PFFallback
<1> DEFINE r == BackoffTimerRetries(retries)
           hasFb == SelectorFallback # NoFallback
           cond == r = Retries \/ (hasFb /\ IsQuicBroken(cause))
<1>0. PF!BackoffTimerCount <=> retries' = r
  BY DEF PF!BackoffTimerCount, BackoffTimerRetries
<1>1. CASE cond /\ (~hasFb \/ protocol = SelectorFallback)
  <2>1. retries' = r /\ protocol' = protocol /\ inFallback' = inFallback
    BY <1>1 DEF SelectNextProtocol
  <2>. QED
    BY <1>0, <2>1 DEF PF!PFBackoff
<1>2. CASE cond /\ ~(~hasFb \/ protocol = SelectorFallback)
  <2>1. retries' = 0 /\ protocol' = SelectorFallback /\ inFallback' = TRUE
    BY <1>2 DEF SelectNextProtocol
  <2>. QED
    BY <1>2, <2>1 DEF PF!PFFallback, NoFallback, PF!NoFallback
<1>3. CASE ~cond /\ inFallback
  <2>1. retries' = r /\ protocol' = protocol /\ inFallback' = inFallback
    BY <1>3 DEF SelectNextProtocol
  <2>. QED
    BY <1>0, <2>1 DEF PF!PFBackoff
<1>4. CASE ~cond /\ ~inFallback
  <2>1. retries' = r /\ protocol' = SelectorCurrent /\ inFallback' = inFallback
    BY <1>4 DEF SelectNextProtocol
  <2>. QED
    BY <1>0, <1>4, <2>1 DEF PF!PFBackoffFollow
<1>. QED
  BY <1>1, <1>2, <1>3, <1>4

(* Every step of index 0's retry loop is a step of its protocolFallback or *)
(* leaves it alone: Connected() is reset(), the backoff timer is a count   *)
(* with the selection, and the rest do not touch the object.               *)
LEMMA PFStep == [Next]_vars => [PF!PFNext]_(PF!pfVars)
<1> SUFFICES ASSUME [Next]_vars PROVE [PF!PFNext]_PF!pfVars
  OBVIOUS
<1>1. CASE Connected
  BY <1>1 DEF Connected, PF!PFNext, PF!PFReset
<1>2. CASE BackoffTimerFires
  <2>1. CASE ~shouldFallback \/ SelectorCurrent \in connectedWith
    <3>1. retries' = BackoffTimerRetries(retries) /\ UNCHANGED <<protocol, inFallback>>
      BY <1>2, <2>1 DEF BackoffTimerFires
    <3>. QED
      BY <3>1 DEF PF!PFNext, PF!PFBackoff, PF!BackoffTimerCount, BackoffTimerRetries
  <2>3. CASE ~(~shouldFallback \/ SelectorCurrent \in connectedWith)
    <3>1. SelectNextProtocol(BackoffTimerRetries(retries), err)
      BY <1>2, <2>3 DEF BackoffTimerFires
    <3>. QED
      BY <3>1, SelectRefines DEF PF!PFNext
  <2>. QED
    BY <2>1, <2>3
<1>3. CASE ~Connected /\ ~BackoffTimerFires
  <2>1. UNCHANGED <<retries, protocol, inFallback>>
    BY <1>3 DEF Next, ServingStep, ServeStart, SessionEnds, WaitCtxDone,
                WaitShutdown, FirstTunnelRetries, FirstTunnelReturns, CancelContext,
                CloseGracefulShutdown, Terminated, vars, fbVars
  <2>. QED
    BY <2>1 DEF PF!pfVars
<1>. QED
  BY <1>1, <1>2, <1>3

(* For every value of the constants, the retry loop of startFirstTunnel   *)
(* and Serve implements the protocolFallback object: it starts from the    *)
(* object's seeded state and changes it only through reset(), the          *)
(* BackoffTimer count and selectNextProtocol's refresh or fallback().      *)
THEOREM ImplementsProtocolFallbackCorrect == Spec => ImplementsProtocolFallback
<1>1. Init => PF!PFInit
  BY DEF Init, PF!PFInit
<1>2. [Next]_vars => [PF!PFNext]_PF!pfVars
  BY PFStep
<1>. QED
  BY <1>1, <1>2, PTL DEF Spec, ImplementsProtocolFallback, PF!PFSpec
=============================================================================
