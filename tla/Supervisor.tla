----------------------------- MODULE Supervisor -----------------------------
(***************************************************************************)
(* The tunnel supervisor of src/supervisor/supervisor.go: the supervisor   *)
(* goroutine (Run, initialize, the select loop, the ctx drain) composed    *)
(* with one serving goroutine per connection index (startFirstTunnel for   *)
(* index 0, startTunnel for the others).                                   *)
(*                                                                         *)
(* One call of EdgeTunnelServer.Serve is abstracted here to what the       *)
(* supervisor can observe of it: the registration fuse firing (which       *)
(* closes the attempt's connected-signal channel through a separate        *)
(* notifier goroutine) and the class of the error it returns.  The         *)
(* per-attempt detail of Serve is the subject of module EdgeTunnelServer.  *)
(*                                                                         *)
(* Channels are identified by <<index, generation>>: generation 0 of       *)
(* index 0 is the connectedSignal handed to Run, generation g > 0 of index *)
(* i is the g-th channel newConnectedTunnelSignal(i) made.                 *)
(***************************************************************************)
EXTENDS Integers, Sequences, FiniteSets

CONSTANTS
    HAConnections,      \* config.HAConnections as requested
    AvailableAddrs,     \* edgeIPs.AvailableAddrs()
    StaticEdge,         \* len(config.EdgeAddrs) > 0
    MaxFailures,        \* bound: error results of Serve before ctx is cancelled
    MaxReconnects       \* bound: ReconnectSignals the operator sends

ASSUME HAConnectionsAssumption == HAConnections \in Nat
ASSUME AvailableAddrsAssumption == AvailableAddrs \in Nat \ {0}
ASSUME StaticEdgeAssumption == StaticEdge \in BOOLEAN
ASSUME BoundsAssumption == MaxFailures \in Nat /\ MaxReconnects \in Nat

(* initialize clamps HAConnections to the number of available addresses.  *)
NumConns == IF HAConnections > AvailableAddrs THEN AvailableAddrs
                                              ELSE HAConnections

(* Index 0 is served by startFirstTunnel whatever NumConns is.             *)
Idx == 0 .. (IF NumConns > 0 THEN NumConns - 1 ELSE 0)

Chan == Idx \X Nat
NoChan == <<-1, -1>>          \* a nil channel

(* The error classes of Serve that Run and startFirstTunnel tell apart.    *)
(*  Nil       - Serve returned nil (shutdown or ctx observed)              *)
(*  Reconnect - a ReconnectSignal                                          *)
(*  Transient - Unauthorized, DupConnRegisterTunnelError, QUIC idle        *)
(*              timeout or application error, DialError,                   *)
(*              EdgeQuicDialError, ControlStreamError, StreamListenerError,*)
(*              DatagramManagerError                                       *)
(*  NoAddrs   - edgediscovery.ErrNoAddressesLeft                           *)
(*  Fatal     - any other error (permanent registration error, ...)        *)
Results == {"Nil", "Reconnect", "Transient", "NoAddrs", "Fatal"}

Phases == {"init", "initDrain", "spawn", "loop", "drain", "done"}

VARIABLES
    phase,               \* where the supervisor goroutine is in Run
    runResult,           \* what Run returned ("none" while running)
    spawnNext,           \* loop counter i of initialize's sibling loop
    tunnelsActive,       \* Run's local count of started serving goroutines
    tunnelsWaiting,      \* Run's local list of indices awaiting backoffTimer
    backoffTimer,        \* TRUE iff Run's backoffTimer channel is non-nil
    shuttingDown,        \* Run's local flag
    tunnelsConnecting,   \* s.tunnelsConnecting: index -> channel (or NoChan)
    nextConnectedSignal, \* s.nextConnectedSignal (its index is s.nextConnectedIndex)
    task,                \* per index: "idle", "serving" or "sending"
    firstRunner,         \* index 0's goroutine is startFirstTunnel
    result,              \* per index: the error its goroutine is sending
    fused,               \* per index: the current Serve's fuse latched true
    generation,          \* per index: generation of its current channel
    notifying,           \* channels whose fuse fired, Notify not yet run
    closed,              \* channels that have been closed by Notify
    gracefulShutdownC,   \* the graceful shutdown channel is closed
    ctxDone,             \* ctx has been cancelled
    failures,            \* error results so far (bounded)
    reconnects           \* ReconnectSignals delivered so far (bounded)

supVars == <<phase, runResult, spawnNext, tunnelsActive, tunnelsWaiting,
             backoffTimer, shuttingDown, tunnelsConnecting, nextConnectedSignal>>
taskVars == <<task, firstRunner, result, fused, generation, notifying, closed>>
envVars == <<gracefulShutdownC, ctxDone, failures, reconnects>>
vars == <<supVars, taskVars, envVars>>

ChanOf(i) == <<i, generation[i]>>

TypeOK ==
    /\ phase \in Phases
    /\ runResult \in {"none", "ok", "early", "ctxErr"} \cup Results
    /\ spawnNext \in Nat
    /\ tunnelsActive \in Int
    /\ tunnelsWaiting \in Seq(Idx)
    /\ backoffTimer \in BOOLEAN
    /\ shuttingDown \in BOOLEAN
    /\ tunnelsConnecting \in [Idx -> Chan \cup {NoChan}]
    /\ nextConnectedSignal \in Chan \cup {NoChan}
    /\ task \in [Idx -> {"idle", "serving", "sending"}]
    /\ firstRunner \in BOOLEAN
    /\ result \in [Idx -> Results]
    /\ fused \in [Idx -> BOOLEAN]
    /\ generation \in [Idx -> Nat]
    /\ notifying \subseteq Chan
    /\ closed \subseteq Chan
    /\ gracefulShutdownC \in BOOLEAN
    /\ ctxDone \in BOOLEAN
    /\ failures \in Nat
    /\ reconnects \in Nat

(* Mutation: initialize's sibling loop starting at index 0 (an off-by-one *)
(* of `for i := 1`), so index 0 is spawned a second time.                 *)
InitFromZero ==
    /\ phase = "init"
    /\ runResult = "none"
    /\ spawnNext = 0
    /\ tunnelsActive = 0
    /\ tunnelsWaiting = <<>>
    /\ backoffTimer = FALSE
    /\ shuttingDown = FALSE
    /\ tunnelsConnecting = [i \in Idx |-> NoChan]
    /\ nextConnectedSignal = NoChan
    /\ task = [i \in Idx |-> IF i = 0 THEN "serving" ELSE "idle"]
    /\ firstRunner = TRUE
    /\ result = [i \in Idx |-> "Nil"]
    /\ fused = [i \in Idx |-> FALSE]
    /\ generation = [i \in Idx |-> 0]
    /\ notifying = {}
    /\ closed = {}
    /\ gracefulShutdownC = FALSE
    /\ ctxDone = FALSE
    /\ failures = 0
    /\ reconnects = 0

(* Run has started the ICMP router and DNS refresh loops (not modelled),   *)
(* initialize has seeded index 0 and spawned startFirstTunnel, and waits.  *)
Init ==
    /\ phase = "init"
    /\ runResult = "none"
    /\ spawnNext = 1
    /\ tunnelsActive = 0
    /\ tunnelsWaiting = <<>>
    /\ backoffTimer = FALSE
    /\ shuttingDown = FALSE
    /\ tunnelsConnecting = [i \in Idx |-> NoChan]
    /\ nextConnectedSignal = NoChan
    /\ task = [i \in Idx |-> IF i = 0 THEN "serving" ELSE "idle"]
    /\ firstRunner = TRUE
    /\ result = [i \in Idx |-> "Nil"]
    /\ fused = [i \in Idx |-> FALSE]
    /\ generation = [i \in Idx |-> 0]
    /\ notifying = {}
    /\ closed = {}
    /\ gracefulShutdownC = FALSE
    /\ ctxDone = FALSE
    /\ failures = 0
    /\ reconnects = 0

(***************************************************************************)
(* Helpers.                                                                *)
(***************************************************************************)

(* GetMaxBackoffDuration's retry flag.  Both backoff handlers are built    *)
(* with retryForever = TRUE, so it is FALSE only once ctx is done.         *)
Retry == ~ctxDone

(* go s.startTunnel(ctx, i, s.newConnectedTunnelSignal(i)) for every i in  *)
(* S: a fresh channel per index recorded in tunnelsConnecting, and a       *)
(* serving goroutine with a fresh fuse.  nextConnectedSignal is set by the *)
(* caller, to the channel made last.                                       *)
StartTunnels(S) ==
    /\ generation' = [j \in Idx |-> IF j \in S THEN generation[j] + 1
                                              ELSE generation[j]]
    /\ tunnelsConnecting' = [j \in Idx |-> IF j \in S THEN <<j, generation[j] + 1>>
                                                     ELSE tunnelsConnecting[j]]
    /\ task' = [j \in Idx |-> IF j \in S THEN "serving" ELSE task[j]]
    /\ fused' = [j \in Idx |-> IF j \in S THEN FALSE ELSE fused[j]]
    /\ firstRunner' = (firstRunner /\ 0 \notin S)

(* The supervisor receives index i's result: the goroutine exits, and its  *)
(* Serve's fuse and error go with it.                                      *)
Receive(i) ==
    /\ task' = [task EXCEPT ![i] = "idle"]
    /\ result' = [result EXCEPT ![i] = "Nil"]
    /\ fused' = [fused EXCEPT ![i] = FALSE]

(* The channels still awaited once index i is removed.                     *)
OthersConnecting(i) == {k \in Idx \ {i} : tunnelsConnecting[k] # NoChan}

(* waitForNextTunnel(i): delete i, then take any remaining entry (Go map   *)
(* iteration order is unspecified) as the next signal to await.            *)
WaitForNextTunnel(i) ==
    LET remaining == [tunnelsConnecting EXCEPT ![i] = NoChan]
    IN  /\ tunnelsConnecting' = remaining
        /\ IF OthersConnecting(i) = {}
              THEN nextConnectedSignal' = NoChan
              ELSE \E k \in OthersConnecting(i) : nextConnectedSignal' = remaining[k]

(* startFirstTunnel's decision to call Serve again in place.               *)
RetryInline(r) ==
    /\ ~ctxDone
    /\ r # "Nil"
    /\ Retry
    /\ \/ r = "Transient"
       \/ r = "NoAddrs" /\ StaticEdge

(***************************************************************************)
(* Serving goroutines.                                                     *)
(***************************************************************************)

(* The control stream registers: connectedFuse.Connected() latches the     *)
(* fuse true, and the goroutine awaiting the fuse will Notify the signal.  *)
Connected(i) ==
    /\ task[i] = "serving"
    /\ ~fused[i]
    /\ fused' = [fused EXCEPT ![i] = TRUE]
    /\ notifying' = notifying \cup {ChanOf(i)}
    /\ UNCHANGED <<supVars, task, firstRunner, result, generation, closed, envVars>>

(* connectedSignal.Notify(): closes the channel (once).                    *)
Notify(c) ==
    /\ c \in notifying
    /\ notifying' = notifying \ {c}
    /\ closed' = closed \cup {c}
    /\ UNCHANGED <<supVars, task, firstRunner, result, fused, generation, envVars>>

(* Serve returns r.  Nil needs shutdown or ctx to have been observed; a    *)
(* ReconnectSignal is one the operator sent on reconnectCh.                *)
ServeResultPossible(r) ==
    CASE r = "Nil"       -> gracefulShutdownC \/ ctxDone
      [] r = "Reconnect" -> reconnects < MaxReconnects
      [] OTHER           -> ctxDone \/ failures < MaxFailures

ServeReturns(i, r) ==
    /\ task[i] = "serving"
    /\ ServeResultPossible(r)
    /\ reconnects' = IF r = "Reconnect" THEN reconnects + 1 ELSE reconnects
    /\ failures' = IF r \in {"Transient", "NoAddrs", "Fatal"} /\ ~ctxDone
                     THEN failures + 1 ELSE failures
    /\ IF i = 0 /\ firstRunner /\ RetryInline(r)
          THEN \* startFirstTunnel: continue, a new Serve with a new fuse
               /\ fused' = [fused EXCEPT ![0] = FALSE]
               /\ UNCHANGED <<task, result>>
          ELSE \* the deferred send on s.tunnelErrors, blocking
               /\ task' = [task EXCEPT ![i] = "sending"]
               /\ result' = [result EXCEPT ![i] = r]
               /\ UNCHANGED fused
    /\ UNCHANGED <<supVars, firstRunner, generation, notifying, closed,
                   gracefulShutdownC, ctxDone>>

(***************************************************************************)
(* The supervisor goroutine: initialize.  It is parked in the select of    *)
(* initialize from the moment startFirstTunnel is spawned, so the first of *)
(* its channels to become ready decides the case; a send on tunnelErrors   *)
(* is a rendezvous that can only happen while no closed channel has        *)
(* already woken it.                                                       *)
(***************************************************************************)

InitWoken == ctxDone \/ gracefulShutdownC \/ <<0, 0>> \in closed

(* case <-ctx.Done(): wait for the first tunnel's result, return ctx.Err() *)
InitCtxDone ==
    /\ phase = "init"
    /\ ctxDone
    /\ phase' = "initDrain"
    /\ UNCHANGED <<runResult, spawnNext, tunnelsActive, tunnelsWaiting, backoffTimer,
                   shuttingDown, tunnelsConnecting, nextConnectedSignal, taskVars, envVars>>

InitDrain ==
    /\ phase = "initDrain"
    /\ task[0] = "sending"
    /\ Receive(0)
    /\ phase' = "done"
    /\ runResult' = "ctxErr"
    /\ UNCHANGED <<spawnNext, tunnelsActive, tunnelsWaiting, backoffTimer, shuttingDown,
                   tunnelsConnecting, nextConnectedSignal, firstRunner,
                   generation, notifying, closed, envVars>>

(* case tunnelError := <-s.tunnelErrors: initialize returns its err.  A    *)
(* nil err makes Run go on to its loop as if initialize had succeeded.     *)
InitTunnelError ==
    /\ phase = "init"
    /\ ~InitWoken
    /\ task[0] = "sending"
    /\ Receive(0)
    /\ IF result[0] = "Nil"
          THEN /\ phase' = "loop"
               /\ tunnelsActive' = NumConns
               /\ UNCHANGED runResult
          ELSE /\ phase' = "done"
               /\ runResult' = result[0]
               /\ UNCHANGED tunnelsActive
    /\ UNCHANGED <<spawnNext, tunnelsWaiting, backoffTimer, shuttingDown,
                   tunnelsConnecting, nextConnectedSignal, firstRunner,
                   generation, notifying, closed, envVars>>

(* case <-s.gracefulShutdownC: errEarlyShutdown, which Run turns into nil. *)
InitShutdown ==
    /\ phase = "init"
    /\ gracefulShutdownC
    /\ phase' = "done"
    /\ runResult' = "early"
    /\ UNCHANGED <<spawnNext, tunnelsActive, tunnelsWaiting, backoffTimer, shuttingDown,
                   tunnelsConnecting, nextConnectedSignal, taskVars, envVars>>

(* case <-connectedSignal.Wait(): the first tunnel registered.             *)
InitConnected ==
    /\ phase = "init"
    /\ <<0, 0>> \in closed
    /\ phase' = "spawn"
    /\ UNCHANGED <<runResult, spawnNext, tunnelsActive, tunnelsWaiting, backoffTimer,
                   shuttingDown, tunnelsConnecting, nextConnectedSignal, taskVars, envVars>>

(* One turn of `for i := 1; i < HAConnections; i++`: seed index i, spawn   *)
(* startTunnel(i) with a new connected signal, sleep registrationInterval. *)
SpawnTunnel ==
    /\ phase = "spawn"
    /\ spawnNext < NumConns
    /\ StartTunnels({spawnNext})
    /\ nextConnectedSignal' = <<spawnNext, generation[spawnNext] + 1>>
    /\ spawnNext' = spawnNext + 1
    /\ UNCHANGED <<phase, runResult, tunnelsActive, tunnelsWaiting, backoffTimer,
                   shuttingDown, result, notifying, closed, envVars>>

(* initialize returned nil: Run sets up its loop locals.                   *)
StartLoop ==
    /\ phase = "spawn"
    /\ spawnNext >= NumConns
    /\ phase' = "loop"
    /\ tunnelsActive' = NumConns
    /\ UNCHANGED <<runResult, spawnNext, tunnelsWaiting, backoffTimer, shuttingDown,
                   tunnelsConnecting, nextConnectedSignal, taskVars, envVars>>

(***************************************************************************)
(* The supervisor goroutine: the select loop of Run.  One action per case, *)
(* and per branch of the tunnelErrors case.                                *)
(***************************************************************************)

(* case <-ctx.Done(): drain tunnelsActive results, then return nil.       *)
LoopCtxDone ==
    /\ phase = "loop"
    /\ ctxDone
    /\ IF tunnelsActive > 0
          THEN phase' = "drain" /\ UNCHANGED runResult
          ELSE phase' = "done" /\ runResult' = "ok"
    /\ UNCHANGED <<spawnNext, tunnelsActive, tunnelsWaiting, backoffTimer, shuttingDown,
                   tunnelsConnecting, nextConnectedSignal, taskVars, envVars>>

DrainTunnel(i) ==
    /\ phase = "drain"
    /\ task[i] = "sending"
    /\ Receive(i)
    /\ tunnelsActive' = tunnelsActive - 1
    /\ IF tunnelsActive - 1 > 0
          THEN phase' = "drain" /\ UNCHANGED runResult
          ELSE phase' = "done" /\ runResult' = "ok"
    /\ UNCHANGED <<spawnNext, tunnelsWaiting, backoffTimer, shuttingDown,
                   tunnelsConnecting, nextConnectedSignal, firstRunner,
                   generation, notifying, closed, envVars>>

(* The tunnelErrors case receives index i's error and decrements          *)
(* tunnelsActive; FailedWhileRunning is its `err != nil && !shuttingDown`. *)
FailedWhileRunning(i) == result[i] # "Nil" /\ ~shuttingDown

(* ReconnectSignal: respawn index i at once, without backoff.              *)
TunnelErrorReconnect(i) ==
    /\ phase = "loop"
    /\ task[i] = "sending"
    /\ FailedWhileRunning(i)
    /\ result[i] = "Reconnect"
    /\ StartTunnels({i})
    /\ nextConnectedSignal' = <<i, generation[i] + 1>>
    /\ result' = [result EXCEPT ![i] = "Nil"]
    /\ UNCHANGED <<phase, runResult, spawnNext, tunnelsActive, tunnelsWaiting,
                   backoffTimer, shuttingDown, notifying, closed, envVars>>

(* The index's protocolFallback has no retries left: abandon the index.   *)
TunnelErrorAbandon(i) ==
    /\ phase = "loop"
    /\ task[i] = "sending"
    /\ FailedWhileRunning(i)
    /\ result[i] # "Reconnect"
    /\ ~Retry
    /\ Receive(i)
    /\ tunnelsActive' = tunnelsActive - 1
    /\ UNCHANGED <<phase, runResult, spawnNext, tunnelsWaiting, backoffTimer,
                   shuttingDown, tunnelsConnecting, nextConnectedSignal, firstRunner,
                    generation, notifying, closed, envVars>>

(* Queue index i for the shared backoff timer, starting it if needed.     *)
TunnelErrorRetry(i) ==
    /\ phase = "loop"
    /\ task[i] = "sending"
    /\ FailedWhileRunning(i)
    /\ result[i] # "Reconnect"
    /\ Retry
    /\ Receive(i)
    /\ tunnelsActive' = tunnelsActive - 1
    /\ tunnelsWaiting' = Append(tunnelsWaiting, i)
    /\ WaitForNextTunnel(i)
    /\ backoffTimer' = TRUE
    /\ UNCHANGED <<phase, runResult, spawnNext, shuttingDown, firstRunner,
                   generation, notifying, closed, envVars>>

(* Mutation: the exit test made on the count before `tunnelsActive--`.   *)
TunnelErrorExitEarlyTest(i) ==
    /\ phase = "loop"
    /\ task[i] = "sending"
    /\ ~FailedWhileRunning(i)
    /\ Receive(i)
    /\ tunnelsActive' = tunnelsActive - 1
    /\ IF tunnelsActive = 0
          THEN phase' = "done" /\ runResult' = "ok"
          ELSE UNCHANGED <<phase, runResult>>
    /\ UNCHANGED <<spawnNext, tunnelsWaiting, backoffTimer, shuttingDown,
                   tunnelsConnecting, nextConnectedSignal, firstRunner,
                   generation, notifying, closed, envVars>>

(* A nil error, or any error once shutting down: return when none is left. *)
TunnelErrorExit(i) ==
    /\ phase = "loop"
    /\ task[i] = "sending"
    /\ ~FailedWhileRunning(i)
    /\ Receive(i)
    /\ tunnelsActive' = tunnelsActive - 1
    /\ IF tunnelsActive - 1 = 0
          THEN phase' = "done" /\ runResult' = "ok"
          ELSE UNCHANGED <<phase, runResult>>
    /\ UNCHANGED <<spawnNext, tunnelsWaiting, backoffTimer, shuttingDown,
                   tunnelsConnecting, nextConnectedSignal, firstRunner,
                   generation, notifying, closed, envVars>>

(* Mutation: the timer case restarts the waiting tunnels but forgets     *)
(* `tunnelsActive += len(tunnelsWaiting)`.                                *)
BackoffTimerFiresUncounted ==
    /\ phase = "loop"
    /\ backoffTimer
    /\ backoffTimer' = FALSE
    /\ LET W == {tunnelsWaiting[k] : k \in 1 .. Len(tunnelsWaiting)}
       IN  StartTunnels(W)
    /\ nextConnectedSignal' =
          IF tunnelsWaiting = <<>> THEN nextConnectedSignal
          ELSE LET last == tunnelsWaiting[Len(tunnelsWaiting)]
               IN  <<last, generation[last] + 1>>
    /\ tunnelsWaiting' = <<>>
    /\ UNCHANGED <<phase, runResult, spawnNext, shuttingDown, tunnelsActive, result,
                   notifying, closed, envVars>>

(* case <-backoffTimer: restart every waiting index.                       *)
BackoffTimerFires ==
    /\ phase = "loop"
    /\ backoffTimer
    /\ backoffTimer' = FALSE
    /\ LET W == {tunnelsWaiting[k] : k \in 1 .. Len(tunnelsWaiting)}
       IN  StartTunnels(W)
    /\ nextConnectedSignal' =
          IF tunnelsWaiting = <<>> THEN nextConnectedSignal
          ELSE LET last == tunnelsWaiting[Len(tunnelsWaiting)]
               IN  <<last, generation[last] + 1>>
    /\ tunnelsActive' = tunnelsActive + Len(tunnelsWaiting)
    /\ tunnelsWaiting' = <<>>
    /\ UNCHANGED <<phase, runResult, spawnNext, shuttingDown, result, notifying,
                   closed, envVars>>

(* case <-s.nextConnectedSignal, another tunnel is still connecting or     *)
(* waiting: only move on to the next signal.                               *)
NextConnected ==
    /\ phase = "loop"
    /\ nextConnectedSignal \in closed
    /\ OthersConnecting(nextConnectedSignal[1]) # {} \/ tunnelsWaiting # <<>>
    /\ WaitForNextTunnel(nextConnectedSignal[1])
    /\ UNCHANGED <<phase, runResult, spawnNext, tunnelsActive, tunnelsWaiting,
                   backoffTimer, shuttingDown, taskVars, envVars>>

(* Mutation: SetGracePeriod guarded only by waitForNextTunnel's result,   *)
(* without `len(tunnelsWaiting) == 0`.                                    *)
SetGracePeriodIgnoringWaiting ==
    /\ phase = "loop"
    /\ nextConnectedSignal \in closed
    /\ OthersConnecting(nextConnectedSignal[1]) = {}
    /\ WaitForNextTunnel(nextConnectedSignal[1])
    /\ UNCHANGED <<phase, runResult, spawnNext, tunnelsActive, tunnelsWaiting,
                   backoffTimer, shuttingDown, taskVars, envVars>>

(* The same case when it was the last: backoff.SetGracePeriod().           *)
SetGracePeriod ==
    /\ phase = "loop"
    /\ nextConnectedSignal \in closed
    /\ OthersConnecting(nextConnectedSignal[1]) = {}
    /\ tunnelsWaiting = <<>>
    /\ WaitForNextTunnel(nextConnectedSignal[1])
    /\ UNCHANGED <<phase, runResult, spawnNext, tunnelsActive, tunnelsWaiting,
                   backoffTimer, shuttingDown, taskVars, envVars>>

(* case <-s.gracefulShutdownC.                                             *)
LoopShutdown ==
    /\ phase = "loop"
    /\ gracefulShutdownC
    /\ ~shuttingDown
    /\ shuttingDown' = TRUE
    /\ UNCHANGED <<phase, runResult, spawnNext, tunnelsActive, tunnelsWaiting,
                   backoffTimer, tunnelsConnecting, nextConnectedSignal, taskVars, envVars>>

(***************************************************************************)
(* The environment: ctx cancellation and the graceful shutdown channel.    *)
(***************************************************************************)

CancelContext ==
    /\ phase # "done"
    /\ ~ctxDone
    /\ ctxDone' = TRUE
    /\ UNCHANGED <<supVars, taskVars, gracefulShutdownC, failures, reconnects>>

CloseGracefulShutdown ==
    /\ phase # "done"
    /\ ~gracefulShutdownC
    /\ gracefulShutdownC' = TRUE
    /\ UNCHANGED <<supVars, taskVars, ctxDone, failures, reconnects>>

(* Run has returned and nothing is left to happen.                         *)
Terminated ==
    /\ phase = "done"
    /\ UNCHANGED vars

SupervisorStep ==
    \/ InitCtxDone \/ InitDrain \/ InitTunnelError \/ InitShutdown \/ InitConnected
    \/ SpawnTunnel \/ StartLoop
    \/ LoopCtxDone \/ BackoffTimerFires \/ NextConnected \/ SetGracePeriod \/ LoopShutdown
    \/ \E i \in Idx : \/ DrainTunnel(i)
                      \/ TunnelErrorReconnect(i) \/ TunnelErrorAbandon(i)
                      \/ TunnelErrorRetry(i) \/ TunnelErrorExit(i)

NotifyStep == \E c \in notifying : Notify(c)

TunnelStep ==
    \/ \E i \in Idx : Connected(i) \/ \E r \in Results : ServeReturns(i, r)
    \/ NotifyStep

Next ==
    \/ SupervisorStep
    \/ TunnelStep
    \/ CancelContext \/ CloseGracefulShutdown
    \/ Terminated

(***************************************************************************)
(* Fairness.  Go's select picks uniformly among ready cases, so a case     *)
(* that stays ready is eventually taken: weak fairness per case.  The      *)
(* notifier goroutine runs.  The backoff timer fires.  Once ctx is         *)
(* cancelled every Serve returns (the dial deadline, the session and the   *)
(* backoff select watch ctx, and startFirstTunnel tests ctx.Err() after    *)
(* each Serve).  After graceful shutdown a Serve returns only if it is one *)
(* that watches gracefulShutdownC: the session drains and the backoff      *)
(* select has the shutdown case ready.  startFirstTunnel on a static edge  *)
(* is not one: its in-place retry of ErrNoAddressesLeft (427-432) calls    *)
(* Serve, which returns at GetAddr or GetDifferentAddr (834) before any    *)
(* select, so it gets no such fairness.  Nothing forces the environment to *)
(* cancel or shut down, or a healthy tunnel to fail.                       *)
(***************************************************************************)
WatchesShutdown(i) == ~(i = 0 /\ firstRunner /\ StaticEdge)

Fairness ==
    /\ WF_vars(InitCtxDone) /\ WF_vars(InitDrain) /\ WF_vars(InitTunnelError)
    /\ WF_vars(InitShutdown) /\ WF_vars(InitConnected)
    /\ WF_vars(SpawnTunnel) /\ WF_vars(StartLoop)
    /\ WF_vars(LoopCtxDone) /\ WF_vars(BackoffTimerFires) /\ WF_vars(NextConnected)
    /\ WF_vars(SetGracePeriod) /\ WF_vars(LoopShutdown)
    /\ \A i \in Idx :
          /\ WF_vars(DrainTunnel(i))
          /\ WF_vars(TunnelErrorReconnect(i)) /\ WF_vars(TunnelErrorAbandon(i))
          /\ WF_vars(TunnelErrorRetry(i)) /\ WF_vars(TunnelErrorExit(i))
          /\ WF_vars(ServeReturns(i, "Nil") /\ (ctxDone \/ WatchesShutdown(i)))
    /\ WF_vars(NotifyStep)

Spec == Init /\ [][Next]_vars

LiveSpec == Spec /\ Fairness

(***************************************************************************)
(* Properties.                                                             *)
(***************************************************************************)

(* Run's tunnelsActive is exactly the number of serving goroutines that    *)
(* have not yet delivered their result on tunnelErrors.  The ctx drain     *)
(* (`for tunnelsActive > 0 { <-s.tunnelErrors }`) and the exit test        *)
(* `tunnelsActive == 0` are only right if this holds: a count too high     *)
(* blocks Run forever, too low returns while goroutines still send.        *)
ActiveCountMatches ==
    phase \in {"loop", "drain"} =>
        tunnelsActive = Cardinality({i \in Idx : task[i] # "idle"})

(* Every index the supervisor still keeps alive (a goroutine serving or    *)
(* sending it, or queued in tunnelsWaiting), other than index 0 while      *)
(* startFirstTunnel retries it in place, has a registered attempt.         *)
PoolConnected ==
    \A i \in Idx :
        /\ task[i] # "idle" \/ \E k \in 1 .. Len(tunnelsWaiting) : tunnelsWaiting[k] = i
        /\ ~(i = 0 /\ firstRunner)
        => task[i] # "idle" /\ fused[i]

(* Run calls backoff.SetGracePeriod() (so the next failure retries fast)   *)
(* only when the whole pool has registered, as its comment intends.        *)
GraceOnlyWhenPoolConnected == [][SetGracePeriod => PoolConnected]_vars

(* Serve calls of one index are strictly sequential: a new Serve for an    *)
(* index (a new connected-signal generation) starts only after the         *)
(* previous one has returned, never while it is still serving.             *)
SequentialServePerIndex ==
    [][\A i \in Idx : generation'[i] # generation[i] => task[i] # "serving"]_vars

(* Once graceful shutdown is signalled or ctx is cancelled, Run returns:   *)
(* the ctx case drains tunnelsActive results, and after shutdown the      *)
(* tunnelErrors case returns when `tunnelsActive == 0` (272).  It needs    *)
(* every counted goroutine to send, and the count to be exact.            *)
Termination == (gracefulShutdownC \/ ctxDone) ~> phase = "done"

(* Run returns only after every serving goroutine has delivered its       *)
(* result (spec: in-flight tunnels drain rather than being torn down).     *)
DrainedOnReturn == phase = "done" => \A i \in Idx : task[i] = "idle"

=============================================================================
