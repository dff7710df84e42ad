--------------------- MODULE EdgeTunnelServerRetryProofs ---------------------
(***************************************************************************)
(* Proofs about the retry discipline of index 0's Serve loop, for every    *)
(* value of the constants: a fallback that QUIC's brokenness does not      *)
(* justify needs Retries failures since the last registration, and         *)
(* startFirstTunnel retries in place without the backoff only after a      *)
(* NoAddressesLeft on a static edge.                                       *)
(***************************************************************************)
EXTENDS EdgeTunnelServerProofs

(***************************************************************************)
(* The invariants.                                                         *)
(***************************************************************************)

\* The backoff counter never runs ahead of the failures counted since the
\* last registration.  In the backoff wait it is strictly behind them (or
\* they are at the cap), because AfterServe has just counted the failure
\* that BackoffTimer is about to count; the exception is a nil result
\* (graceful shutdown), which counts nothing and never asks for a fallback.
FailCountInv ==
    /\ pc \in {"serve", "session"} => retries <= failedSince
    /\ pc = "wait" => /\ retries <= failedSince
                      /\ err # "nil" => (retries < failedSince \/ failedSince = Retries)
                      /\ err = "nil" => ~shouldFallback
    /\ (pc = "returned" /\ err # "nil") => retries <= failedSince

\* Serve returns without having waited on the backoff only when ctx is
\* cancelled, on a nil result, or on ErrNoAddressesLeft from
\* GetDifferentAddr.
WaitedInv == (pc = "returned" /\ ~waited) => (ctxDone \/ err \in {"nil", "noAddrs"})

(***************************************************************************)
(* Lemmas about the operators.                                             *)
(***************************************************************************)

\* AfterServe leaves the backoff counter alone; after a failure it has
\* counted it, and after a nil result it does not ask for a fallback.
LEMMA AfterServeCount ==
    ASSUME TypeOK, retries <= failedSince, retries' = retries,
           NEW a, NEW e \in Errors, NEW rec \in BOOLEAN, e = "nil" => ~rec,
           AfterServe(a, e, rec)
    PROVE  FailCountInv'
<1>1. pc' \in {"wait", "returned"} /\ (pc' = "wait" => err' = e /\ (e = "nil" => ~shouldFallback'))
      /\ (err' = "nil" => e = "nil")
  <2>1. e = "nil" => e \notin DialErrors /\ e \notin RotateErrors
    BY DEF DialErrors, RotateErrors
  <2>. QED
    BY <2>1, Zenon DEF AfterServe, Return
<1>2. failedSince' = IF e # "nil" /\ failedSince < Retries THEN failedSince + 1 ELSE failedSince
  BY DEF AfterServe, CountFailure
<1>3. retries' <= failedSince' /\ (e # "nil" => (retries' < failedSince' \/ failedSince' = Retries))
  BY <1>2, ConstFacts DEF TypeOK
<1>. QED
  BY <1>1, <1>3 DEF FailCountInv

\* AfterServe returns only with ErrNoAddressesLeft or on a cancelled ctx;
\* otherwise it goes to the backoff wait.
LEMMA AfterServeReturns ==
    ASSUME NEW a, NEW e, NEW rec, AfterServe(a, e, rec)
    PROVE  pc' = "returned" => (err' = "noAddrs" \/ ctxDone)
BY Zenon DEF AfterServe, Return

\* BackoffTimer's counter is what BackoffTimerFires leaves, unless
\* fallback() resets it.
LEMMA TimerRetries ==
    ASSUME BackoffTimerFires
    PROVE  retries' \in {BackoffTimerRetries(retries), 0}
BY Zenon DEF BackoffTimerFires, SelectNextProtocol

\* selectNextProtocol moves the index to a new protocol and into fallback
\* only when ReachedMaxRetries holds or QUIC is broken.
LEMMA FallbackTaken ==
    ASSUME NEW r, NEW cause, SelectNextProtocol(r, cause),
           protocol' # protocol, inFallback' = TRUE
    PROVE  r = Retries \/ IsQuicBroken(cause)
BY Zenon DEF SelectNextProtocol

\* A step counted by BackoffTimer from a counter behind the failures (or
\* with the failures at the cap) stays within the failures.
LEMMA TimerWithinFailures ==
    ASSUME NEW r \in 0..Retries, NEW f \in 0..Retries, r < f \/ f = Retries
    PROVE  BackoffTimerRetries(r) <= f
BY ConstFacts DEF BackoffTimerRetries

(***************************************************************************)
(* The invariants are inductive.                                           *)
(***************************************************************************)

\* Initially nothing has failed and nothing has been counted.
LEMMA RetryInvInit == Init => FailCountInv /\ WaitedInv
BY DEF Init, FailCountInv, WaitedInv

\* Every step keeps the backoff counter within the failures counted.
LEMMA FailCountStep ==
    ASSUME Inv, FailCountInv, [Next]_vars
    PROVE  FailCountInv'
<1>0. TypeOK
  BY DEF Inv
<1>1. CASE ServeStart
  <2>1. PICK a \in (IF addr = NoAddr THEN Addrs ELSE {addr}), d \in Dials(protocol) :
            IF d # "ok"
            THEN AfterServe(a, d, Recoverable(d))
            ELSE /\ pc' = "session"
                 /\ UNCHANGED <<err, failedSince>>
    BY <1>1, Zenon DEF ServeStart
  <2>2. pc = "serve" /\ retries' = retries /\ retries <= failedSince
    BY <1>1 DEF ServeStart, fbVars, FailCountInv
  <2>3. d \in DialOutcomes
    BY <1>0, ConstFacts DEF TypeOK, Dials, DialFailure, DialOutcomes, DialErrors, Protocols
  <2>4. CASE d # "ok"
    <3>1. d \in Errors /\ d # "nil" /\ Recoverable(d) \in BOOLEAN
      BY <2>3, <2>4 DEF DialOutcomes, DialErrors, Errors, Recoverable
    <3>. QED
      BY <1>0, <2>1, <2>2, <2>4, <3>1, AfterServeCount
  <2>5. CASE d = "ok"
    BY <2>1, <2>2, <2>5 DEF FailCountInv
  <2>. QED
    BY <2>4, <2>5
<1>2. CASE Connected
  BY <1>2 DEF Connected, FailCountInv
<1>3. CASE SessionEnds
  <2>1. PICK e \in SessionFailures \cup (IF ctxDone THEN {"canceled"} ELSE {})
                                   \cup (IF graceful THEN {"nil"} ELSE {}) :
            AfterServe(addr, e, Recoverable(e))
    BY <1>3 DEF SessionEnds
  <2>2. e \in Errors /\ Recoverable(e) \in BOOLEAN /\ (e = "nil" => ~Recoverable(e))
    BY ConstFacts DEF Errors, SessionErrors, Recoverable
  <2>3. pc = "session" /\ retries' = retries /\ retries <= failedSince
    BY <1>3 DEF SessionEnds, fbVars, FailCountInv
  <2>. QED
    BY <1>0, <2>1, <2>2, <2>3, AfterServeCount
<1>4. CASE WaitCtxDone \/ WaitShutdown
  <2>1. /\ pc = "wait" /\ pc' = "returned"
        /\ UNCHANGED <<retries, failedSince>>
    BY <1>4 DEF WaitCtxDone, WaitShutdown, Return, fbVars
  <2>. QED
    BY <2>1 DEF FailCountInv
<1>5. CASE BackoffTimerFires
  <2>1. pc = "wait" /\ pc' = "returned" /\ UNCHANGED <<err, failedSince>>
    BY <1>5 DEF BackoffTimerFires
  <2>2. retries' \in {BackoffTimerRetries(retries), 0}
    BY <1>5, TimerRetries
  <2>3. CASE err # "nil"
    <3>1. retries < failedSince \/ failedSince = Retries
      BY <2>1, <2>3 DEF FailCountInv
    <3>2. BackoffTimerRetries(retries) <= failedSince
      BY <1>0, <3>1, TimerWithinFailures DEF TypeOK
    <3>3. retries' <= failedSince'
      BY <1>0, <2>1, <2>2, <3>2 DEF TypeOK
    <3>. QED
      BY <2>1, <3>3 DEF FailCountInv
  <2>4. CASE err = "nil"
    BY <2>1, <2>4 DEF FailCountInv
  <2>. QED
    BY <2>3, <2>4
<1>6. CASE FirstTunnelRetries
  <2>1. /\ pc = "returned" /\ pc' = "serve" /\ err # "nil"
        /\ UNCHANGED <<retries, failedSince>>
    BY <1>6 DEF FirstTunnelRetries, InlineRetryErrors, fbVars
  <2>. QED
    BY <2>1 DEF FailCountInv
<1>7. CASE FirstTunnelReturns
  BY <1>7 DEF FirstTunnelReturns, FailCountInv
<1>8. CASE CancelContext \/ CloseGracefulShutdown \/ Terminated \/ UNCHANGED vars
  <2>1. UNCHANGED <<pc, retries, failedSince, err, shouldFallback>>
    BY <1>8 DEF CancelContext, CloseGracefulShutdown, Terminated, vars, fbVars
  <2>. QED
    BY <2>1 DEF FailCountInv
<1>. QED
  BY <1>1, <1>2, <1>3, <1>4, <1>5, <1>6, <1>7, <1>8 DEF Next, ServingStep

\* Every step keeps the ways of returning without a wait as they are:
\* ctx never comes back, and the wait sets waited.
LEMMA WaitedStep ==
    ASSUME WaitedInv, [Next]_vars
    PROVE  WaitedInv'
<1>1. CASE ServeStart
  <2>1. PICK a \in (IF addr = NoAddr THEN Addrs ELSE {addr}), d \in Dials(protocol) :
            IF d # "ok"
            THEN AfterServe(a, d, Recoverable(d))
            ELSE pc' = "session"
    BY <1>1, Zenon DEF ServeStart
  <2>2. ctxDone' = ctxDone
    BY <1>1 DEF ServeStart
  <2>3. pc' = "returned" => (err' = "noAddrs" \/ ctxDone)
    BY <2>1, AfterServeReturns
  <2>. QED
    BY <2>2, <2>3 DEF WaitedInv
<1>2. CASE SessionEnds
  <2>1. PICK e \in SessionFailures \cup (IF ctxDone THEN {"canceled"} ELSE {})
                                   \cup (IF graceful THEN {"nil"} ELSE {}) :
            AfterServe(addr, e, Recoverable(e))
    BY <1>2 DEF SessionEnds
  <2>2. ctxDone' = ctxDone
    BY <1>2 DEF SessionEnds
  <2>. QED
    BY <2>1, <2>2, AfterServeReturns DEF WaitedInv
<1>3. CASE WaitCtxDone \/ WaitShutdown
  <2>1. pc' = "returned" /\ ctxDone' = ctxDone /\ (ctxDone \/ err' = "nil")
    BY <1>3 DEF WaitCtxDone, WaitShutdown, Return
  <2>. QED
    BY <2>1 DEF WaitedInv
<1>4. CASE BackoffTimerFires
  BY <1>4 DEF BackoffTimerFires, WaitedInv
<1>5. CASE Connected \/ FirstTunnelRetries \/ FirstTunnelReturns
  <2>1. pc' # "returned"
    BY <1>5 DEF Connected, FirstTunnelRetries, FirstTunnelReturns
  <2>. QED
    BY <2>1 DEF WaitedInv
<1>6. CASE CancelContext
  BY <1>6 DEF CancelContext, WaitedInv
<1>7. CASE CloseGracefulShutdown \/ Terminated \/ UNCHANGED vars
  <2>1. UNCHANGED <<pc, waited, ctxDone, err>>
    BY <1>7 DEF CloseGracefulShutdown, Terminated, vars
  <2>. QED
    BY <2>1 DEF WaitedInv
<1>. QED
  BY <1>1, <1>2, <1>3, <1>4, <1>5, <1>6, <1>7 DEF Next, ServingStep

(***************************************************************************)
(* The steps the action properties are about.                              *)
(***************************************************************************)

\* A step that moves the index to a new protocol and into fallback, for a
\* cause other than a broken QUIC, happens with Retries failures counted.
LEMMA FallbackStep ==
    ASSUME Inv, FailCountInv, [Next]_vars,
           protocol' # protocol, inFallback', ~IsQuicBroken(err)
    PROVE  failedSince >= Retries
<1>1. BackoffTimerFires /\ shouldFallback /\ SelectorCurrent \notin connectedWith
  <2>1. CASE ~BackoffTimerFires
    <3>1. protocol' = protocol
      BY <2>1 DEF Next, ServingStep, ServeStart, Connected, SessionEnds, WaitCtxDone,
                  WaitShutdown, FirstTunnelRetries, FirstTunnelReturns, CancelContext,
                  CloseGracefulShutdown, Terminated, vars, fbVars
    <3>. QED
      BY <3>1
  <2>2. CASE BackoffTimerFires /\ (~shouldFallback \/ SelectorCurrent \in connectedWith)
    <3>1. protocol' = protocol
      BY <2>2 DEF BackoffTimerFires
    <3>. QED
      BY <3>1
  <2>. QED
    BY <2>1, <2>2
<1>2. SelectNextProtocol(BackoffTimerRetries(retries), err)
  BY <1>1, Zenon DEF BackoffTimerFires
<1>3. BackoffTimerRetries(retries) = Retries
  <2>1. inFallback' = TRUE
    BY Zenon DEF Inv, TypeOK
  <2>. QED
    BY <1>2, <2>1, FallbackTaken
<1>4. pc = "wait" /\ err # "nil"
  BY <1>1, Zenon DEF BackoffTimerFires, FailCountInv
<1>5. retries < failedSince \/ failedSince = Retries
  BY <1>4 DEF FailCountInv
<1>6. BackoffTimerRetries(retries) <= failedSince
  BY <1>5, TimerWithinFailures DEF Inv, TypeOK
<1>. QED
  BY <1>3, <1>6, ConstFacts DEF Inv, TypeOK

\* A retry in place that skipped the backoff is a NoAddressesLeft retry on
\* a static edge.
LEMMA RetryStep ==
    ASSUME WaitedInv, [Next]_vars,
           pc = "returned", pc' = "serve", ~waited
    PROVE  err = "noAddrs" /\ StaticEdge
<1>1. FirstTunnelRetries
  BY DEF Next, ServingStep, ServeStart, Connected, SessionEnds, WaitCtxDone,
         WaitShutdown, BackoffTimerFires, FirstTunnelReturns, CancelContext,
         CloseGracefulShutdown, Terminated, vars
<1>2. ~ctxDone /\ (err = "unauthorized" \/ err \in InlineRetryErrors \/ (err = "noAddrs" /\ StaticEdge))
  BY <1>1 DEF FirstTunnelRetries
<1>3. err \in {"nil", "noAddrs"}
  BY <1>2 DEF WaitedInv
<1>. QED
  BY <1>2, <1>3 DEF InlineRetryErrors

(***************************************************************************)
(* Theorems.                                                               *)
(***************************************************************************)

\* FallbackNeedsFailures for every value of the constants: the fallback
\* that selectNextProtocol takes because ReachedMaxRetries holds comes after
\* Retries failed Serve attempts since index 0 last registered, because the
\* backoff counter it reads never runs ahead of the failures.
THEOREM FallbackNeedsFailuresCorrect == Spec => FallbackNeedsFailures
<1>1. Init => Inv /\ FailCountInv
  BY InitInv, RetryInvInit
<1>2. Inv /\ FailCountInv /\ [Next]_vars => (Inv /\ FailCountInv)'
  BY NextInv, FailCountStep
<1>3. Inv /\ FailCountInv /\ [Next]_vars
        => [(protocol' # protocol /\ inFallback' /\ ~IsQuicBroken(err))
              => failedSince >= Retries]_vars
  BY FallbackStep
<1>. QED
  BY <1>1, <1>2, <1>3, PTL DEF Spec, FallbackNeedsFailures

\* startFirstTunnel retries Serve in place without having waited out the
\* backoff only after ErrNoAddressesLeft on a static edge (supervisor.go
\* 834 and 427-432), for every value of the constants.
THEOREM RetryWithoutBackoffOnlyNoAddrs ==
    Spec => [][(pc = "returned" /\ pc' = "serve" /\ ~waited)
                 => (err = "noAddrs" /\ StaticEdge)]_vars
<1>1. Init => WaitedInv
  BY RetryInvInit
<1>2. WaitedInv /\ [Next]_vars => WaitedInv'
  BY WaitedStep
<1>3. WaitedInv /\ [Next]_vars
        => [(pc = "returned" /\ pc' = "serve" /\ ~waited) => (err = "noAddrs" /\ StaticEdge)]_vars
  BY RetryStep
<1>. QED
  BY <1>1, <1>2, <1>3, PTL DEF Spec

\* BackoffBeforeRetry on a dynamic edge (no --edge addresses given), for
\* every Retries, address set, selector and network: every in-place retry
\* of startFirstTunnel waited out the backoff.  On a static edge the instance
\* of run edge_tunnel_server_one_addr_no_fallback has the busy retry.
THEOREM BackoffBeforeRetryCorrect ==
    ASSUME ~StaticEdge
    PROVE  Spec => BackoffBeforeRetry
<1>1. ((pc = "returned" /\ pc' = "serve" /\ ~waited) => (err = "noAddrs" /\ StaticEdge))
        => ((pc = "returned" /\ pc' = "serve") => waited)
  OBVIOUS
<1>. QED
  BY <1>1, RetryWithoutBackoffOnlyNoAddrs, PTL DEF BackoffBeforeRetry

=============================================================================
