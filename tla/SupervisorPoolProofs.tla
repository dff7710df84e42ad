------------------------- MODULE SupervisorPoolProofs -------------------------
(***************************************************************************)
(* Proofs of the supervisor's two action properties, for every value of    *)
(* the constants (HAConnections = 0 included): no index gets a second      *)
(* Serve while one is running, and Run gives the backoff its grace period  *)
(* only when every index it keeps alive has registered.                    *)
(***************************************************************************)
EXTENDS SupervisorProofs

(***************************************************************************)
(* Serve calls of one index are sequential.                                *)
(***************************************************************************)

\* The indices initialize has not spawned yet have no goroutine: the loop
\* `for i := 1; i < HAConnections; i++` starts each once, in order.
UnspawnedIdle ==
    /\ spawnNext >= 1
    /\ phase \in {"init", "initDrain", "spawn"} =>
          \A k \in Idx : k >= spawnNext => task[k] = "idle"

\* What a restart may rely on: every index it restarts is idle.
SeqInv == TypeOK /\ WaitingIdle /\ WaitingEmptyEarly /\ UnspawnedIdle

\* The supervisor starts.
LEMMA SeqInit == Init => SeqInv
<1> SUFFICES ASSUME Init PROVE SeqInv
  OBVIOUS
<1>1. TypeOK
  BY TypeInit
<1>2. WaitingIdle /\ WaitingEmptyEarly
  BY DEF Init, WaitingIdle, WaitingEmptyEarly
<1>3. UnspawnedIdle
  BY IdxFacts DEF Init, UnspawnedIdle
<1>. QED
  BY <1>1, <1>2, <1>3 DEF SeqInv

\* Every step keeps the indices that may be restarted idle.
LEMMA SeqStep ==
    ASSUME SeqInv, [Next]_vars
    PROVE  SeqInv'
<1> USE IdxFacts DEF supVars, taskVars, envVars
<1>0. TypeOK /\ TypeOK'
  BY TypeStep DEF SeqInv
<1> SUFFICES (WaitingIdle /\ WaitingEmptyEarly /\ UnspawnedIdle)'
  BY <1>0 DEF SeqInv
<1> USE DEF SeqInv, WaitingIdle, WaitingEmptyEarly, UnspawnedIdle
\* Steps that leave the phase, the loop index, the statuses and the queue.
<1>1. CASE UNCHANGED <<phase, spawnNext, task, tunnelsWaiting>>
  BY <1>1
<1>2. CASE InitCtxDone \/ InitShutdown \/ InitConnected \/ StartLoop \/ LoopCtxDone
  BY <1>2 DEF InitCtxDone, InitShutdown, InitConnected, StartLoop, LoopCtxDone
<1>3. CASE InitDrain \/ InitTunnelError
  <2>1. task' = [task EXCEPT ![0] = "idle"] /\ UNCHANGED <<spawnNext, tunnelsWaiting>>
    BY <1>3 DEF InitDrain, InitTunnelError, Receive
  <2>2. phase \in {"init", "initDrain"}
    BY <1>3 DEF InitDrain, InitTunnelError
  <2>. QED
    BY <1>0, <2>1, <2>2 DEF TypeOK
<1>4. CASE SpawnTunnel
  <2>1. /\ phase = "spawn" /\ phase' = "spawn" /\ spawnNext \in Idx
        /\ spawnNext' = spawnNext + 1 /\ UNCHANGED tunnelsWaiting
    BY <1>4, <1>0 DEF SpawnTunnel, TypeOK, Idx
  <2>2. task' = [task EXCEPT ![spawnNext] = "serving"]
    BY <1>4, <1>0, <2>1 DEF SpawnTunnel, StartTunnels, TypeOK
  <2>. QED
    BY <1>0, <2>1, <2>2 DEF TypeOK
<1>5. CASE BackoffTimerFires
  BY <1>5 DEF BackoffTimerFires
<1>6. CASE NextConnected \/ SetGracePeriod \/ LoopShutdown
  BY <1>6, <1>1 DEF NextConnected, SetGracePeriod, LoopShutdown
<1>7. ASSUME NEW i \in Idx,
             DrainTunnel(i) \/ TunnelErrorAbandon(i) \/ TunnelErrorExit(i)
      PROVE  (WaitingIdle /\ WaitingEmptyEarly /\ UnspawnedIdle)'
  <2>1. /\ task' = [task EXCEPT ![i] = "idle"] /\ UNCHANGED <<spawnNext, tunnelsWaiting>>
        /\ phase \in {"loop", "drain"} /\ phase' \in {"loop", "drain", "done"}
    BY <1>7 DEF DrainTunnel, TunnelErrorAbandon, TunnelErrorExit, Receive
  <2>. QED
    BY <1>0, <2>1 DEF TypeOK
<1>8. ASSUME NEW i \in Idx, TunnelErrorReconnect(i)
      PROVE  (WaitingIdle /\ WaitingEmptyEarly /\ UnspawnedIdle)'
  <2>1. /\ task[i] = "sending" /\ phase = "loop"
        /\ UNCHANGED <<phase, spawnNext, tunnelsWaiting>>
    BY <1>8 DEF TunnelErrorReconnect
  <2>2. task' = [task EXCEPT ![i] = "serving"]
    BY <1>8, <1>0 DEF TunnelErrorReconnect, StartTunnels, TypeOK
  <2>3. \A k \in 1 .. Len(tunnelsWaiting) : tunnelsWaiting[k] # i
    BY <2>1
  <2>. QED
    BY <1>0, <2>1, <2>2, <2>3 DEF TypeOK
<1>9. ASSUME NEW i \in Idx, TunnelErrorRetry(i)
      PROVE  (WaitingIdle /\ WaitingEmptyEarly /\ UnspawnedIdle)'
  <2>1. /\ task' = [task EXCEPT ![i] = "idle"]
        /\ tunnelsWaiting' = Append(tunnelsWaiting, i)
        /\ UNCHANGED <<phase, spawnNext>> /\ phase = "loop"
    BY <1>9 DEF TunnelErrorRetry, Receive
  <2>. QED
    BY <1>0, <2>1 DEF TypeOK
<1>10. ASSUME NEW i \in Idx, NEW r \in Results, ServeReturns(i, r)
       PROVE  (WaitingIdle /\ WaitingEmptyEarly /\ UnspawnedIdle)'
  <2>1. task[i] = "serving" /\ UNCHANGED <<phase, spawnNext, tunnelsWaiting>>
    BY <1>10 DEF ServeReturns
  <2>2. \A k \in 1 .. Len(tunnelsWaiting) : tunnelsWaiting[k] # i
    BY <2>1
  <2>3. phase \in {"init", "initDrain", "spawn"} => i < spawnNext
    BY <2>1, <1>0 DEF TypeOK
  <2>4. CASE task' = task
    BY <2>1, <2>4
  <2>5. CASE task' = [task EXCEPT ![i] = "sending"]
    <3>1. WaitingIdle'
      BY <1>0, <2>1, <2>2, <2>5 DEF TypeOK
    <3>2. UnspawnedIdle'
      BY <1>0, <2>1, <2>3, <2>5 DEF TypeOK
    <3>. QED
      BY <2>1, <3>1, <3>2
  <2>. QED
    BY <1>10, <2>4, <2>5 DEF ServeReturns
<1>11. CASE (\E i \in Idx : Connected(i)) \/ NotifyStep \/ CancelContext
            \/ CloseGracefulShutdown \/ Terminated \/ UNCHANGED vars
  BY <1>11, <1>1 DEF Connected, NotifyStep, Notify, CancelContext, CloseGracefulShutdown,
                     Terminated, vars
<1>. QED
  BY <1>2, <1>3, <1>4, <1>5, <1>6, <1>7, <1>8, <1>9, <1>10, <1>11
  DEF Next, SupervisorStep, TunnelStep

\* Only the three places that call startTunnel give an index a new
\* connected signal, and each of them restarts an index with no goroutine:
\* initialize's loop an unspawned one, the ReconnectSignal branch the
\* index whose result it has just received, the backoff timer the queued.
LEMMA SequentialStep ==
    ASSUME SeqInv, [Next]_vars
    PROVE  \A i \in Idx : generation'[i] # generation[i] => task[i] # "serving"
<1> SUFFICES ASSUME NEW i \in Idx, generation'[i] # generation[i]
             PROVE  task[i] # "serving"
  OBVIOUS
<1>0. TypeOK
  BY DEF SeqInv
<1>1. CASE SpawnTunnel
  <2>1. phase = "spawn" /\ spawnNext \in Idx
    BY <1>1, <1>0, IdxFacts DEF SpawnTunnel, TypeOK, Idx
  <2>2. i = spawnNext
    BY <1>1, <1>0 DEF SpawnTunnel, StartTunnels, TypeOK
  <2>. QED
    BY <2>1, <2>2, <1>0 DEF SeqInv, UnspawnedIdle, TypeOK
<1>2. CASE BackoffTimerFires
  <2>1. \E k \in 1 .. Len(tunnelsWaiting) : tunnelsWaiting[k] = i
    BY <1>2, <1>0 DEF BackoffTimerFires, StartTunnels, TypeOK
  <2>. QED
    BY <2>1 DEF SeqInv, WaitingIdle
<1>3. ASSUME NEW j \in Idx, TunnelErrorReconnect(j) PROVE task[i] # "serving"
  <2>1. i = j
    BY <1>3, <1>0 DEF TunnelErrorReconnect, StartTunnels, TypeOK
  <2>. QED
    BY <1>3, <2>1 DEF TunnelErrorReconnect
<1>4. CASE ~SpawnTunnel /\ ~BackoffTimerFires /\ ~\E j \in Idx : TunnelErrorReconnect(j)
  <2>1. generation' = generation
    BY <1>4 DEF Next, SupervisorStep, TunnelStep, InitCtxDone, InitDrain, InitTunnelError,
                InitShutdown, InitConnected, StartLoop, LoopCtxDone, NextConnected,
                SetGracePeriod, LoopShutdown, DrainTunnel, TunnelErrorAbandon,
                TunnelErrorRetry, TunnelErrorExit, Connected, ServeReturns, NotifyStep,
                Notify, CancelContext, CloseGracefulShutdown, Terminated, vars, taskVars
  <2>. QED
    BY <2>1
<1>. QED
  BY <1>1, <1>2, <1>3, <1>4

\* SequentialServePerIndex for every value of the constants: no index is
\* given a new Serve (initialize's loop, the ReconnectSignal respawn or the
\* backoff timer's restart) while a Serve of the same index still runs.
THEOREM SequentialServeCorrect == Spec => SequentialServePerIndex
<1>1. Init => SeqInv
  BY SeqInit
<1>2. SeqInv /\ [Next]_vars => SeqInv'
  BY SeqStep
<1>3. SeqInv /\ [Next]_vars
        => [\A i \in Idx : generation'[i] # generation[i] => task[i] # "serving"]_vars
  BY SequentialStep
<1>. QED
  BY <1>1, <1>2, <1>3, PTL DEF Spec, SequentialServePerIndex

(***************************************************************************)
(* The grace period is given only when the pool has registered.            *)
(***************************************************************************)

\* An index Run keeps alive with a Serve of its own whose registration Run
\* awaits: a goroutine serving or sending it, other than startFirstTunnel
\* (whose signal initialize consumed).
KeptAlive(k) == task[k] # "idle" /\ ~(k = 0 /\ firstRunner)

\* s.tunnelsConnecting[k] is the signal of k's current attempt, or absent.
ConnectingCurrent == \A k \in Idx : tunnelsConnecting[k] \in {NoChan, ChanOf(k)}

\* s.nextConnectedSignal is the signal of the current attempt of its index.
AwaitedCurrent ==
    nextConnectedSignal # NoChan => nextConnectedSignal = ChanOf(nextConnectedSignal[1])

\* No signal of an attempt that has not started yet has fired.
SignalsPast == \A c \in notifying \cup closed : c[2] <= generation[c[1]]

\* A kept index whose current signal fired has registered: its fuse, set
\* by Connected() before the notifier runs, is still latched.
SignalledFused ==
    \A k \in Idx : KeptAlive(k) /\ ChanOf(k) \in notifying \cup closed => fused[k]

\* A kept index that has not registered is still in s.tunnelsConnecting:
\* waitForNextTunnel removes only an index whose signal was received.
UnregisteredAwaited ==
    \A k \in Idx : KeptAlive(k) /\ ~fused[k] => tunnelsConnecting[k] = ChanOf(k)

GraceInv ==
    /\ TypeOK
    /\ ConnectingCurrent
    /\ AwaitedCurrent
    /\ SignalsPast
    /\ SignalledFused
    /\ UnregisteredAwaited

\* No channel of an index is the nil channel.
LEMMA NoChanNotChan == NoChan \notin Chan
BY DEF NoChan, Chan, Idx

\* The supervisor starts with no signal recorded and none fired.
LEMMA GraceInit == Init => GraceInv
<1> SUFFICES ASSUME Init PROVE GraceInv
  OBVIOUS
<1>1. TypeOK
  BY TypeInit
<1>. QED
  BY <1>1 DEF Init, GraceInv, ConnectingCurrent, AwaitedCurrent, SignalsPast,
              SignalledFused, UnregisteredAwaited, KeptAlive

\* Starting the goroutines of S gives each a fresh signal, recorded in
\* s.tunnelsConnecting, that has not fired, and an unlatched fuse.
LEMMA StartTunnelsGrace ==
    ASSUME GraceInv, NEW S \in SUBSET Idx, StartTunnels(S),
           UNCHANGED <<notifying, closed>>
    PROVE  (ConnectingCurrent /\ SignalsPast /\ SignalledFused /\ UnregisteredAwaited)'
<1>0. TypeOK /\ SignalsPast
  BY DEF GraceInv
<1>1. /\ generation' = [j \in Idx |-> IF j \in S THEN generation[j] + 1 ELSE generation[j]]
      /\ tunnelsConnecting' = [j \in Idx |-> IF j \in S THEN <<j, generation[j] + 1>>
                                                        ELSE tunnelsConnecting[j]]
      /\ task' = [j \in Idx |-> IF j \in S THEN "serving" ELSE task[j]]
      /\ fused' = [j \in Idx |-> IF j \in S THEN FALSE ELSE fused[j]]
      /\ firstRunner' = (firstRunner /\ 0 \notin S)
  BY DEF StartTunnels
<1>2. \A k \in Idx \ S : KeptAlive(k)' = KeptAlive(k) /\ ChanOf(k)' = ChanOf(k)
  BY <1>1 DEF KeptAlive, ChanOf
<1>3. \A k \in S : ChanOf(k)' = <<k, generation[k] + 1>> /\ ChanOf(k)' \notin notifying \cup closed
  <2>1. \A c \in notifying \cup closed : c \in Idx \X Nat
    BY <1>0 DEF TypeOK, Chan
  <2>. QED
    BY <1>0, <1>1, <2>1 DEF ChanOf, SignalsPast, TypeOK
<1>4. ConnectingCurrent'
  BY <1>1, <1>3 DEF GraceInv, ConnectingCurrent, ChanOf
<1>5. SignalsPast'
  <2>1. \A c \in notifying \cup closed : c[1] \in Idx /\ c[2] <= generation'[c[1]]
    BY <1>0, <1>1 DEF SignalsPast, TypeOK, Chan
  <2>. QED
    BY <1>1, <2>1 DEF SignalsPast
<1>6. SignalledFused'
  BY <1>1, <1>2, <1>3 DEF GraceInv, SignalledFused
<1>7. UnregisteredAwaited'
  BY <1>1, <1>2, <1>3 DEF GraceInv, UnregisteredAwaited
<1>. QED
  BY <1>4, <1>5, <1>6, <1>7

\* Receiving index i's result ends its goroutine: it is no longer kept.
LEMMA ReceiveGrace ==
    ASSUME GraceInv, NEW i \in Idx, Receive(i),
           UNCHANGED <<tunnelsConnecting, nextConnectedSignal, firstRunner,
                       generation, notifying, closed>>
    PROVE  (ConnectingCurrent /\ AwaitedCurrent /\ SignalsPast /\ SignalledFused
            /\ UnregisteredAwaited)'
<1>1. /\ ~KeptAlive(i)'
      /\ \A k \in Idx \ {i} : KeptAlive(k)' = KeptAlive(k) /\ fused'[k] = fused[k]
      /\ \A k \in Idx : ChanOf(k)' = ChanOf(k)
  BY DEF GraceInv, TypeOK, Receive, KeptAlive, ChanOf
<1>2. (ConnectingCurrent /\ AwaitedCurrent /\ SignalsPast)'
  BY DEF GraceInv, ConnectingCurrent, AwaitedCurrent, SignalsPast, ChanOf
<1>3. SignalledFused'
  BY <1>1 DEF GraceInv, SignalledFused
<1>4. UnregisteredAwaited'
  BY <1>1 DEF GraceInv, UnregisteredAwaited
<1>. QED
  BY <1>2, <1>3, <1>4

\* waitForNextTunnel(i) deletes i and awaits another current signal; it is
\* safe when i, after the step, is not a kept index that has not registered.
LEMMA WaitGrace ==
    ASSUME GraceInv, NEW i \in Idx, WaitForNextTunnel(i),
           UNCHANGED <<firstRunner, generation, notifying, closed>>,
           \A k \in Idx \ {i} : task'[k] = task[k] /\ fused'[k] = fused[k],
           ~(KeptAlive(i) /\ ~fused[i])'
    PROVE  (ConnectingCurrent /\ AwaitedCurrent /\ SignalsPast /\ SignalledFused
            /\ UnregisteredAwaited)'
<1>0. TypeOK
  BY DEF GraceInv
<1>1. /\ \A k \in Idx \ {i} : KeptAlive(k)' = KeptAlive(k)
      /\ \A k \in Idx : ChanOf(k)' = ChanOf(k)
  BY DEF KeptAlive, ChanOf
<1>2. tunnelsConnecting' = [tunnelsConnecting EXCEPT ![i] = NoChan]
  BY DEF WaitForNextTunnel
<1>3. ConnectingCurrent'
  BY <1>0, <1>1, <1>2 DEF GraceInv, ConnectingCurrent, TypeOK
<1>4. AwaitedCurrent'
  <2>1. CASE OthersConnecting(i) = {}
    BY <2>1 DEF WaitForNextTunnel, AwaitedCurrent
  <2>2. CASE OthersConnecting(i) # {}
    <3>1. PICK k \in OthersConnecting(i) : nextConnectedSignal' = tunnelsConnecting'[k]
      BY <2>2, <1>2 DEF WaitForNextTunnel
    <3>2. k \in Idx \ {i} /\ tunnelsConnecting[k] = ChanOf(k)
      BY <3>1 DEF OthersConnecting, GraceInv, ConnectingCurrent
    <3>. QED
      BY <3>1, <3>2, <1>0, <1>1, <1>2 DEF TypeOK, ChanOf, AwaitedCurrent
  <2>. QED
    BY <2>1, <2>2
<1>5. SignalsPast'
  BY DEF GraceInv, SignalsPast
<1>6. SignalledFused'
  BY <1>1 DEF GraceInv, SignalledFused
<1>7. UnregisteredAwaited'
  BY <1>0, <1>1, <1>2 DEF GraceInv, UnregisteredAwaited, TypeOK
<1>. QED
  BY <1>3, <1>4, <1>5, <1>6, <1>7

\* The signal the loop's select received is the current one of its index,
\* which is therefore registered unless no Serve of its own is kept.
LEMMA ReceivedSignal ==
    ASSUME GraceInv, nextConnectedSignal \in closed
    PROVE  /\ nextConnectedSignal[1] \in Idx
           /\ nextConnectedSignal = ChanOf(nextConnectedSignal[1])
           /\ KeptAlive(nextConnectedSignal[1]) => fused[nextConnectedSignal[1]]
<1>1. nextConnectedSignal \in Chan
  BY DEF GraceInv, TypeOK
<1>2. nextConnectedSignal # NoChan /\ nextConnectedSignal[1] \in Idx
  BY <1>1, NoChanNotChan DEF Chan
<1>3. nextConnectedSignal = ChanOf(nextConnectedSignal[1])
  BY <1>2 DEF GraceInv, AwaitedCurrent
<1>. QED
  BY <1>2, <1>3 DEF GraceInv, SignalledFused

GraceParts == ConnectingCurrent /\ AwaitedCurrent /\ SignalsPast /\ SignalledFused
              /\ UnregisteredAwaited

\* Every step keeps the signals the supervisor awaits current and the
\* fuses of fired signals latched.
LEMMA GraceStep ==
    ASSUME GraceInv, [Next]_vars
    PROVE  GraceInv'
<1> USE IdxFacts DEF supVars, taskVars, envVars
<1>0. TypeOK /\ TypeOK'
  BY TypeStep DEF GraceInv
<1> SUFFICES GraceParts'
  BY <1>0 DEF GraceInv, GraceParts
\* Steps that touch neither the signals nor the goroutines.
<1>1. CASE UNCHANGED <<tunnelsConnecting, nextConnectedSignal, task, firstRunner, fused,
                       generation, notifying, closed>>
  BY <1>1 DEF GraceInv, GraceParts, ConnectingCurrent, AwaitedCurrent, SignalsPast,
              SignalledFused, UnregisteredAwaited, KeptAlive, ChanOf
<1>2. CASE InitCtxDone \/ InitShutdown \/ InitConnected \/ StartLoop \/ LoopCtxDone
           \/ LoopShutdown \/ CancelContext \/ CloseGracefulShutdown \/ Terminated
           \/ UNCHANGED vars
  BY <1>2, <1>1 DEF InitCtxDone, InitShutdown, InitConnected, StartLoop, LoopCtxDone,
                    LoopShutdown, CancelContext, CloseGracefulShutdown, Terminated, vars
\* initialize and the drain receive a result and start nothing.
<1>3. ASSUME NEW i \in Idx,
             \/ i = 0 /\ (InitDrain \/ InitTunnelError)
             \/ DrainTunnel(i) \/ TunnelErrorAbandon(i) \/ TunnelErrorExit(i)
      PROVE  GraceParts'
  <2>1. Receive(i) /\ UNCHANGED <<tunnelsConnecting, nextConnectedSignal, firstRunner,
                                  generation, notifying, closed>>
    BY <1>3 DEF InitDrain, InitTunnelError, DrainTunnel, TunnelErrorAbandon, TunnelErrorExit
  <2>. QED
    BY <2>1, ReceiveGrace DEF GraceParts
<1>4. CASE InitDrain \/ InitTunnelError
  BY <1>4, <1>3
\* The three callers of startTunnel.
<1>5. CASE SpawnTunnel
  <2>1. spawnNext \in Idx
    BY <1>5, <1>0 DEF SpawnTunnel, TypeOK, Idx
  <2>2. (ConnectingCurrent /\ SignalsPast /\ SignalledFused /\ UnregisteredAwaited)'
    BY <1>5, <2>1, StartTunnelsGrace DEF SpawnTunnel
  <2>3. AwaitedCurrent'
    BY <1>5, <2>1 DEF SpawnTunnel, StartTunnels, AwaitedCurrent, ChanOf
  <2>. QED
    BY <2>2, <2>3 DEF GraceParts
<1>6. ASSUME NEW i \in Idx, TunnelErrorReconnect(i)
      PROVE  GraceParts'
  <2>1. (ConnectingCurrent /\ SignalsPast /\ SignalledFused /\ UnregisteredAwaited)'
    BY <1>6, StartTunnelsGrace DEF TunnelErrorReconnect
  <2>2. AwaitedCurrent'
    BY <1>6 DEF TunnelErrorReconnect, StartTunnels, AwaitedCurrent, ChanOf
  <2>. QED
    BY <2>1, <2>2 DEF GraceParts
<1>7. CASE BackoffTimerFires
  <2> DEFINE W == {tunnelsWaiting[k] : k \in 1 .. Len(tunnelsWaiting)}
  <2>1. W \in SUBSET Idx /\ StartTunnels(W)
    BY <1>7, <1>0 DEF BackoffTimerFires, TypeOK
  <2>2. (ConnectingCurrent /\ SignalsPast /\ SignalledFused /\ UnregisteredAwaited)'
    BY <1>7, <2>1, StartTunnelsGrace DEF BackoffTimerFires
  <2>3. AwaitedCurrent'
    <3>1. CASE tunnelsWaiting = <<>>
      <4>1. W = {} /\ nextConnectedSignal' = nextConnectedSignal
        BY <1>7, <3>1 DEF BackoffTimerFires
      <4>2. generation' = generation
        BY <2>1, <4>1, <1>0 DEF StartTunnels, TypeOK
      <4>. QED
        BY <4>1, <4>2 DEF GraceInv, AwaitedCurrent, ChanOf
    <3>2. CASE tunnelsWaiting # <<>>
      <4> DEFINE last == tunnelsWaiting[Len(tunnelsWaiting)]
      <4>1. last \in W /\ last \in Idx
        BY <3>2, <1>0 DEF TypeOK
      <4>2. nextConnectedSignal' = <<last, generation[last] + 1>>
        BY <1>7, <3>2 DEF BackoffTimerFires
      <4>. QED
        BY <2>1, <4>1, <4>2 DEF StartTunnels, AwaitedCurrent, ChanOf
    <3>. QED
      BY <3>1, <3>2
  <2>. QED
    BY <2>2, <2>3 DEF GraceParts
\* The loop's select receives the awaited signal: its index registered.
<1>8. CASE NextConnected \/ SetGracePeriod
  <2>1. /\ nextConnectedSignal \in closed
        /\ WaitForNextTunnel(nextConnectedSignal[1])
        /\ UNCHANGED <<task, firstRunner, fused, generation, notifying, closed>>
    BY <1>8 DEF NextConnected, SetGracePeriod
  <2>2. PICK j \in Idx : j = nextConnectedSignal[1]
    BY <2>1, ReceivedSignal
  <2>3. KeptAlive(j) => fused[j]
    BY <2>1, <2>2, ReceivedSignal
  <2>4. ~(KeptAlive(j) /\ ~fused[j])'
    BY <2>1, <2>3 DEF KeptAlive
  <2>. QED
    BY <2>1, <2>2, <2>4, WaitGrace DEF GraceParts
\* A failed index is queued for the backoff timer and no longer awaited.
<1>9. ASSUME NEW i \in Idx, TunnelErrorRetry(i)
      PROVE  GraceParts'
  <2>1. /\ Receive(i) /\ WaitForNextTunnel(i)
        /\ UNCHANGED <<firstRunner, generation, notifying, closed>>
    BY <1>9 DEF TunnelErrorRetry
  <2>2. /\ \A k \in Idx \ {i} : task'[k] = task[k] /\ fused'[k] = fused[k]
        /\ ~KeptAlive(i)'
    BY <2>1, <1>0 DEF Receive, TypeOK, KeptAlive
  <2>. QED
    BY <2>1, <2>2, WaitGrace DEF GraceParts
\* The control stream registers: the fuse latches before the signal fires.
<1>10. ASSUME NEW i \in Idx, Connected(i)
       PROVE  GraceParts'
  <2>1. /\ fused' = [fused EXCEPT ![i] = TRUE]
        /\ notifying' = notifying \cup {ChanOf(i)}
        /\ UNCHANGED <<tunnelsConnecting, nextConnectedSignal, task, firstRunner,
                       generation, closed>>
    BY <1>10 DEF Connected
  <2>2. \A k \in Idx : KeptAlive(k)' = KeptAlive(k) /\ ChanOf(k)' = ChanOf(k)
    BY <2>1 DEF KeptAlive, ChanOf
  <2>3. (ConnectingCurrent /\ AwaitedCurrent)'
    BY <2>1, <2>2 DEF GraceInv, ConnectingCurrent, AwaitedCurrent, ChanOf
  <2>4. SignalsPast'
    BY <2>1, <1>0 DEF GraceInv, SignalsPast, ChanOf, TypeOK
  <2>5. SignalledFused'
    <3>1. \A k \in Idx \ {i} : ChanOf(k) # ChanOf(i)
      BY DEF ChanOf
    <3>. QED
      BY <2>1, <2>2, <3>1, <1>0 DEF GraceInv, SignalledFused, TypeOK
  <2>6. UnregisteredAwaited'
    BY <2>1, <2>2, <1>0 DEF GraceInv, UnregisteredAwaited, TypeOK
  <2>. QED
    BY <2>3, <2>4, <2>5, <2>6 DEF GraceParts
\* The notifier closes a signal that was already pending.
<1>11. CASE NotifyStep
  <2>1. PICK c \in notifying : Notify(c)
    BY <1>11 DEF NotifyStep
  <2>2. notifying' \cup closed' = notifying \cup closed
    BY <2>1 DEF Notify
  <2>3. UNCHANGED <<tunnelsConnecting, nextConnectedSignal, task, firstRunner, fused,
                    generation>>
    BY <2>1 DEF Notify
  <2>. QED
    BY <2>2, <2>3 DEF GraceInv, GraceParts, ConnectingCurrent, AwaitedCurrent, SignalsPast,
                      SignalledFused, UnregisteredAwaited, KeptAlive, ChanOf
\* Serve returns: a send on tunnelErrors, or startFirstTunnel's retry.
<1>12. ASSUME NEW i \in Idx, NEW r \in Results, ServeReturns(i, r)
       PROVE  GraceParts'
  <2>1. /\ task[i] = "serving"
        /\ UNCHANGED <<tunnelsConnecting, nextConnectedSignal, firstRunner, generation,
                       notifying, closed>>
    BY <1>12 DEF ServeReturns
  <2>2. CASE i = 0 /\ firstRunner /\ RetryInline(r)
    <3>1. fused' = [fused EXCEPT ![0] = FALSE] /\ task' = task
      BY <1>12, <2>2 DEF ServeReturns
    <3>2. \A k \in Idx : KeptAlive(k)' = KeptAlive(k) /\ ChanOf(k)' = ChanOf(k)
      BY <2>1, <3>1 DEF KeptAlive, ChanOf
    <3>3. ~KeptAlive(0) /\ \A k \in Idx \ {0} : fused'[k] = fused[k]
      BY <2>2, <3>1, <1>0 DEF KeptAlive, TypeOK
    <3>. QED
      BY <2>1, <2>2, <3>2, <3>3 DEF GraceInv, GraceParts, ConnectingCurrent,
         AwaitedCurrent, SignalsPast, SignalledFused, UnregisteredAwaited, ChanOf
  <2>3. CASE ~(i = 0 /\ firstRunner /\ RetryInline(r))
    <3>1. task' = [task EXCEPT ![i] = "sending"] /\ fused' = fused
      BY <1>12, <2>3 DEF ServeReturns
    <3>2. \A k \in Idx : KeptAlive(k)' = KeptAlive(k) /\ ChanOf(k)' = ChanOf(k)
      BY <2>1, <3>1, <1>0 DEF KeptAlive, ChanOf, TypeOK
    <3>. QED
      BY <2>1, <3>1, <3>2 DEF GraceInv, GraceParts, ConnectingCurrent,
         AwaitedCurrent, SignalsPast, SignalledFused, UnregisteredAwaited, ChanOf
  <2>. QED
    BY <2>2, <2>3
<1>. QED
  BY <1>2, <1>3, <1>4, <1>5, <1>6, <1>7, <1>8, <1>9, <1>10, <1>11, <1>12
  DEF Next, SupervisorStep, TunnelStep

\* When the received signal was the last one awaited and no index is
\* queued, every kept index has registered: an unregistered one would still
\* be in s.tunnelsConnecting, so it is the index whose signal fired.
LEMMA GraceStepProperty ==
    ASSUME GraceInv, SetGracePeriod
    PROVE  PoolConnected
<1>1. /\ nextConnectedSignal \in closed
      /\ OthersConnecting(nextConnectedSignal[1]) = {}
      /\ tunnelsWaiting = <<>>
  BY DEF SetGracePeriod
<1>2. PICK j \in Idx : j = nextConnectedSignal[1]
  BY <1>1, ReceivedSignal
<1>3. KeptAlive(j) => fused[j]
  BY <1>1, <1>2, ReceivedSignal
<1> SUFFICES ASSUME NEW i \in Idx,
                    task[i] # "idle" \/ \E k \in 1 .. Len(tunnelsWaiting) : tunnelsWaiting[k] = i,
                    ~(i = 0 /\ firstRunner)
             PROVE  task[i] # "idle" /\ fused[i]
  BY DEF PoolConnected
<1>4. KeptAlive(i)
  BY <1>1 DEF KeptAlive
<1>5. CASE ~fused[i]
  <2>1. tunnelsConnecting[i] = ChanOf(i) /\ ChanOf(i) \in Chan
    BY <1>4, <1>5 DEF GraceInv, UnregisteredAwaited, TypeOK, ChanOf, Chan
  <2>2. tunnelsConnecting[i] # NoChan
    BY <2>1, NoChanNotChan
  <2>3. i = j
    BY <1>1, <1>2, <2>2 DEF OthersConnecting
  <2>. QED
    BY <1>3, <1>4, <1>5, <2>3
<1>. QED
  BY <1>4, <1>5 DEF KeptAlive

\* Run calls backoff.SetGracePeriod() only when every index it keeps alive
\* (startFirstTunnel apart) has registered and none is queued for the
\* backoff timer, for every value of the constants.
THEOREM GraceOnlyWhenPoolConnectedCorrect == Spec => GraceOnlyWhenPoolConnected
<1>1. Init => GraceInv
  BY GraceInit
<1>2. GraceInv /\ [Next]_vars => GraceInv'
  BY GraceStep
<1>3. GraceInv /\ [Next]_vars => [SetGracePeriod => PoolConnected]_vars
  BY GraceStepProperty
<1>. QED
  BY <1>1, <1>2, <1>3, PTL DEF Spec, GraceOnlyWhenPoolConnected

=============================================================================
