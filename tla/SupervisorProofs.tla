-------------------------- MODULE SupervisorProofs --------------------------
(***************************************************************************)
(* Proofs about module Supervisor: type correctness for every value of the *)
(* constants, and that Run's tunnelsActive counts exactly the goroutines   *)
(* that have not delivered their result, whenever HAConnections > 0.       *)
(***************************************************************************)
EXTENDS Supervisor, FiniteSetTheorems, TLAPS

(* The connection indices are the naturals below NumConns (index 0 at     *)
(* least, which startFirstTunnel always serves).                           *)
LEMMA IdxFacts ==
    /\ NumConns \in Nat
    /\ 0 \in Idx
    /\ Idx \subseteq Nat
    /\ IsFiniteSet(Idx)
    /\ NumConns > 0 => Idx = 0 .. NumConns - 1
<1>1. NumConns \in Nat
  BY HAConnectionsAssumption, AvailableAddrsAssumption DEF NumConns
<1>2. IsFiniteSet(Idx)
  BY <1>1, FS_Interval DEF Idx
<1> QED  BY <1>1, <1>2 DEF Idx

-----------------------------------------------------------------------------
(***************************************************************************)
(* Type correctness.                                                       *)
(***************************************************************************)

(* go startTunnel for a set of indices leaves every per-index variable in  *)
(* its type.                                                               *)
StartTunnelsTyped ==
    /\ generation' \in [Idx -> Nat]
    /\ tunnelsConnecting' \in [Idx -> Chan \cup {NoChan}]
    /\ task' \in [Idx -> {"idle", "serving", "sending"}]
    /\ fused' \in [Idx -> BOOLEAN]
    /\ firstRunner' \in BOOLEAN

(* The Boolean-valued part of TypeOK, which Zenon or SMT proves apart.   *)
FlagsTyped ==
    /\ backoffTimer \in BOOLEAN /\ shuttingDown \in BOOLEAN
    /\ firstRunner \in BOOLEAN
    /\ gracefulShutdownC \in BOOLEAN /\ ctxDone \in BOOLEAN

(* Starting the goroutines of a set of indices (startTunnel with a fresh   *)
(* connected signal each) keeps the per-index state well typed.           *)
LEMMA StartTunnelsType ==
    ASSUME TypeOK, NEW S \in SUBSET Idx, StartTunnels(S)
    PROVE  StartTunnelsTyped
<1>1. /\ generation' \in [Idx -> Nat]
      /\ tunnelsConnecting' \in [Idx -> Chan \cup {NoChan}]
      /\ task' \in [Idx -> {"idle", "serving", "sending"}]
  BY DEF StartTunnels, TypeOK, Chan
<1>2. fused' \in [Idx -> BOOLEAN] /\ firstRunner' \in BOOLEAN
  BY Zenon DEF StartTunnels, TypeOK
<1> QED  BY <1>1, <1>2 DEF StartTunnelsTyped

(* Every step of the supervisor, of the serving goroutines and of the      *)
(* environment keeps each variable in its type: in particular a waiting    *)
(* index, a recorded channel and the next awaited channel always name a    *)
(* connection index.                                                       *)
LEMMA TypeStep == TypeOK /\ [Next]_vars => TypeOK'
<1> SUFFICES ASSUME TypeOK, [Next]_vars PROVE TypeOK'
  OBVIOUS
<1> USE IdxFacts DEF supVars, taskVars, envVars
<1>1. CASE InitCtxDone
  BY <1>1 DEF InitCtxDone, TypeOK, Phases
<1>2. CASE InitDrain
  BY <1>2 DEF InitDrain, Receive, TypeOK, Phases, Results
<1>3. CASE InitTunnelError
  BY <1>3 DEF InitTunnelError, Receive, TypeOK, Phases, Results
<1>4. CASE InitShutdown
  BY <1>4 DEF InitShutdown, TypeOK, Phases
<1>5. CASE InitConnected
  BY <1>5 DEF InitConnected, TypeOK, Phases
<1>6. CASE SpawnTunnel
  <2>1. spawnNext \in Idx
    BY <1>6 DEF SpawnTunnel, TypeOK
  <2>2. StartTunnels({spawnNext})
    BY <1>6 DEF SpawnTunnel
  <2>3. StartTunnelsTyped
    BY <2>1, <2>2, StartTunnelsType
  <2>8. FlagsTyped'
    BY <1>6, <2>1, <2>3 DEF SpawnTunnel, StartTunnelsTyped, TypeOK, FlagsTyped
  <2>9. /\ phase' \in Phases
        /\ runResult' \in {"none", "ok", "early", "ctxErr"} \cup Results
        /\ spawnNext' \in Nat /\ tunnelsActive' \in Int
        /\ tunnelsWaiting' \in Seq(Idx)
        /\ nextConnectedSignal' \in Chan \cup {NoChan}
        /\ result' \in [Idx -> Results]
        /\ notifying' \subseteq Chan /\ closed' \subseteq Chan
        /\ failures' \in Nat /\ reconnects' \in Nat
    BY <1>6, <2>1, <2>3 DEF SpawnTunnel, TypeOK, Chan, Results
  <2> QED  BY <2>1, <2>3, <2>8, <2>9 DEF StartTunnelsTyped, FlagsTyped, TypeOK
<1>7. CASE StartLoop
  BY <1>7 DEF StartLoop, TypeOK, Phases
<1>8. CASE LoopCtxDone
  BY <1>8 DEF LoopCtxDone, TypeOK, Phases
<1>9. CASE BackoffTimerFires
  <2> DEFINE W == {tunnelsWaiting[k] : k \in 1 .. Len(tunnelsWaiting)}
  <2>1. W \in SUBSET Idx /\ StartTunnels(W)
    BY <1>9 DEF BackoffTimerFires, TypeOK
  <2>2. StartTunnelsTyped
    BY <2>1, StartTunnelsType
  <2>8. FlagsTyped'
    BY <1>9, <2>2 DEF BackoffTimerFires, StartTunnelsTyped, TypeOK, FlagsTyped
  <2>7. nextConnectedSignal' \in Chan \cup {NoChan}
    <3>1. CASE tunnelsWaiting = <<>>
      BY <1>9, <3>1 DEF BackoffTimerFires, TypeOK
    <3>2. CASE tunnelsWaiting # <<>>
      <4>0. tunnelsWaiting \in Seq(Idx)
        BY DEF TypeOK
      <4>1. tunnelsWaiting[Len(tunnelsWaiting)] \in Idx
        BY ONLY <4>0, <3>2
      <4> DEFINE last == tunnelsWaiting[Len(tunnelsWaiting)]
      <4>2. nextConnectedSignal' = <<last, generation[last] + 1>>
        BY <1>9, <3>2 DEF BackoffTimerFires
      <4>3. generation[last] + 1 \in Nat
        BY <4>1 DEF TypeOK
      <4> QED  BY ONLY <4>1, <4>2, <4>3 DEF Chan
    <3> QED  BY <3>1, <3>2
  <2>9. /\ phase' \in Phases
        /\ runResult' \in {"none", "ok", "early", "ctxErr"} \cup Results
        /\ spawnNext' \in Nat /\ tunnelsActive' \in Int
        /\ tunnelsWaiting' \in Seq(Idx)
        /\ result' \in [Idx -> Results]
        /\ notifying' \subseteq Chan /\ closed' \subseteq Chan
        /\ failures' \in Nat /\ reconnects' \in Nat
    BY <1>9 DEF BackoffTimerFires, TypeOK
  <2> QED  BY <2>2, <2>7, <2>8, <2>9 DEF StartTunnelsTyped, FlagsTyped, TypeOK
<1>10. CASE NextConnected
  BY <1>10 DEF NextConnected, WaitForNextTunnel, OthersConnecting, TypeOK, Chan, NoChan
<1>11. CASE SetGracePeriod
  BY <1>11 DEF SetGracePeriod, WaitForNextTunnel, OthersConnecting, TypeOK, Chan, NoChan
<1>12. CASE LoopShutdown
  BY <1>12 DEF LoopShutdown, TypeOK
<1>13. ASSUME NEW i \in Idx, DrainTunnel(i) PROVE TypeOK'
  BY <1>13 DEF DrainTunnel, Receive, TypeOK, Phases, Results
<1>14. ASSUME NEW i \in Idx, TunnelErrorReconnect(i) PROVE TypeOK'
  <2>1. StartTunnels({i})
    BY <1>14 DEF TunnelErrorReconnect
  <2>2. StartTunnelsTyped
    BY <2>1, StartTunnelsType
  <2>8. FlagsTyped'
    BY <1>14, <2>2 DEF TunnelErrorReconnect, StartTunnelsTyped, TypeOK, FlagsTyped
  <2>9. /\ phase' \in Phases
        /\ runResult' \in {"none", "ok", "early", "ctxErr"} \cup Results
        /\ spawnNext' \in Nat /\ tunnelsActive' \in Int
        /\ tunnelsWaiting' \in Seq(Idx)
        /\ nextConnectedSignal' \in Chan \cup {NoChan}
        /\ result' \in [Idx -> Results]
        /\ notifying' \subseteq Chan /\ closed' \subseteq Chan
        /\ failures' \in Nat /\ reconnects' \in Nat
    BY <1>14, <2>2 DEF TunnelErrorReconnect, TypeOK, Chan, Results
  <2> QED  BY <2>2, <2>8, <2>9 DEF StartTunnelsTyped, FlagsTyped, TypeOK
<1>15. ASSUME NEW i \in Idx, TunnelErrorAbandon(i) PROVE TypeOK'
  BY <1>15 DEF TunnelErrorAbandon, Receive, TypeOK, Results
<1>16. ASSUME NEW i \in Idx, TunnelErrorRetry(i) PROVE TypeOK'
  BY <1>16 DEF TunnelErrorRetry, Receive, WaitForNextTunnel, OthersConnecting,
               TypeOK, Results, Chan, NoChan
<1>17. ASSUME NEW i \in Idx, TunnelErrorExit(i) PROVE TypeOK'
  BY <1>17 DEF TunnelErrorExit, Receive, TypeOK, Phases, Results
<1>18. ASSUME NEW i \in Idx, Connected(i) PROVE TypeOK'
  BY <1>18 DEF Connected, TypeOK, ChanOf, Chan
<1>19. ASSUME NEW i \in Idx, NEW r \in Results, ServeReturns(i, r) PROVE TypeOK'
  <2>1. fused' \in [Idx -> BOOLEAN]
    BY <1>19, Zenon DEF ServeReturns, TypeOK
  <2>2. task' \in [Idx -> {"idle", "serving", "sending"}] /\ result' \in [Idx -> Results]
    BY <1>19 DEF ServeReturns, TypeOK
  <2> QED  BY <1>19, <2>1, <2>2 DEF ServeReturns, TypeOK
<1>20. CASE NotifyStep
  BY <1>20 DEF NotifyStep, Notify, TypeOK
<1>21. CASE CancelContext
  BY <1>21 DEF CancelContext, TypeOK
<1>22. CASE CloseGracefulShutdown
  BY <1>22 DEF CloseGracefulShutdown, TypeOK
<1>23. CASE Terminated \/ UNCHANGED vars
  BY <1>23 DEF Terminated, vars, supVars, taskVars, envVars, TypeOK
<1> QED
  BY <1>1, <1>2, <1>3, <1>4, <1>5, <1>6, <1>7, <1>8, <1>9, <1>10, <1>11,
     <1>12, <1>13, <1>14, <1>15, <1>16, <1>17, <1>18, <1>19, <1>20, <1>21,
     <1>22, <1>23
  DEF Next, SupervisorStep, TunnelStep

(* The initial state is well typed.                                       *)
LEMMA TypeInit == Init => TypeOK
<1> SUFFICES ASSUME Init PROVE TypeOK
  OBVIOUS
<1>1. /\ tunnelsConnecting \in [Idx -> Chan \cup {NoChan}]
      /\ task \in [Idx -> {"idle", "serving", "sending"}]
      /\ result \in [Idx -> Results]
      /\ fused \in [Idx -> BOOLEAN]
      /\ generation \in [Idx -> Nat]
  BY DEF Init, Results
<1>2. tunnelsWaiting \in Seq(Idx) /\ nextConnectedSignal \in Chan \cup {NoChan}
  BY DEF Init
<1>3. /\ phase \in Phases
      /\ runResult \in {"none", "ok", "early", "ctxErr"} \cup Results
      /\ spawnNext \in Nat /\ tunnelsActive \in Int
      /\ notifying \subseteq Chan /\ closed \subseteq Chan
      /\ failures \in Nat /\ reconnects \in Nat
  BY DEF Init, Phases
<1>4. /\ backoffTimer \in BOOLEAN /\ shuttingDown \in BOOLEAN
      /\ firstRunner \in BOOLEAN
      /\ gracefulShutdownC \in BOOLEAN /\ ctxDone \in BOOLEAN
  BY Zenon DEF Init
<1> QED  BY <1>1, <1>2, <1>3, <1>4 DEF TypeOK

(* Every reachable state is well typed, for every value of the constants   *)
(* the assumptions of Supervisor allow.                                    *)
THEOREM TypeCorrect == Spec => []TypeOK
<1> QED  BY TypeInit, TypeStep, PTL DEF Spec

-----------------------------------------------------------------------------
(***************************************************************************)
(* Run's count of active tunnels.                                          *)
(***************************************************************************)

(* The indices whose goroutine has not delivered its result yet.           *)
NonIdle == {i \in Idx : task[i] # "idle"}

(* The indices queued in Run's tunnelsWaiting.                             *)
WaitingSet == {tunnelsWaiting[k] : k \in 1 .. Len(tunnelsWaiting)}

(* The strengthening of ActiveCountMatches that is inductive.  A nil       *)
(* error is only sent after shutdown or cancellation (so initialize never  *)
(* takes its nil-error branch into the loop), a queued index has no        *)
(* goroutine and is queued once (so the timer's `+= len(tunnelsWaiting)`   *)
(* counts exactly the goroutines it starts), and before the loop the       *)
(* running goroutines are exactly the indices initialize has spawned.      *)
NilOnlyAfterStop ==
    \A i \in Idx : task[i] = "sending" /\ result[i] = "Nil"
                    => gracefulShutdownC \/ ctxDone
WaitingIdle == \A k \in 1 .. Len(tunnelsWaiting) : task[tunnelsWaiting[k]] = "idle"
WaitingDistinct ==
    \A k, l \in 1 .. Len(tunnelsWaiting) :
        tunnelsWaiting[k] = tunnelsWaiting[l] => k = l
WaitingEmptyEarly == phase \in {"init", "initDrain", "spawn"} => tunnelsWaiting = <<>>
SpawnedPrefix ==
    phase \in {"init", "spawn"} =>
        /\ spawnNext \in 1 .. NumConns
        /\ NonIdle = 0 .. spawnNext - 1

CountInv ==
    /\ TypeOK
    /\ NilOnlyAfterStop
    /\ WaitingIdle
    /\ WaitingDistinct
    /\ WaitingEmptyEarly
    /\ SpawnedPrefix
    /\ ActiveCountMatches

(* Appending an element the sequence does not hold keeps it free of       *)
(* repetitions: the timer's queue when the loop queues a failed index.     *)
LEMMA AppendDistinct ==
    ASSUME NEW S, NEW q \in Seq(S), NEW x \in S,
           \A k \in 1 .. Len(q) : q[k] # x,
           \A k, l \in 1 .. Len(q) : q[k] = q[l] => k = l
    PROVE  \A k, l \in 1 .. Len(Append(q, x)) :
               Append(q, x)[k] = Append(q, x)[l] => k = l
<1> SUFFICES ASSUME NEW k \in 1 .. Len(q) + 1, NEW l \in 1 .. Len(q) + 1,
                    Append(q, x)[k] = Append(q, x)[l]
             PROVE  k = l
  OBVIOUS
<1>1. \A m \in 1 .. Len(q) + 1 : Append(q, x)[m] = IF m = Len(q) + 1 THEN x ELSE q[m]
  OBVIOUS
<1>. QED
  BY <1>1

(* A sequence without repetitions has as many distinct elements as its     *)
(* length.                                                                 *)
LEMMA DistinctSeqCard ==
    ASSUME NEW S, NEW s \in Seq(S),
           \A k, l \in 1 .. Len(s) : s[k] = s[l] => k = l
    PROVE  /\ IsFiniteSet({s[k] : k \in 1 .. Len(s)})
           /\ Cardinality({s[k] : k \in 1 .. Len(s)}) = Len(s)
<1> DEFINE R == {s[k] : k \in 1 .. Len(s)}
<1>1. s \in Bijection(1 .. Len(s), R)
  BY DEF Bijection, Injection, Surjection, IsInjective
<1>2. IsFiniteSet(1 .. Len(s)) /\ Cardinality(1 .. Len(s)) = Len(s)
  <2>1. Len(s) \in Nat
    OBVIOUS
  <2>2. IsFiniteSet(1 .. Len(s))
         /\ Cardinality(1 .. Len(s)) = IF 1 > Len(s) THEN 0 ELSE Len(s) - 1 + 1
    BY <2>1, FS_Interval
  <2> QED  BY <2>1, <2>2
<1>3. ExistsBijection(1 .. Len(s), R)
  BY <1>1 DEF ExistsBijection
<1>4. IsFiniteSet(R) /\ Cardinality(R) = Cardinality(1 .. Len(s))
  BY <1>2, <1>3, FS_Bijection
<1> QED  BY <1>2, <1>4

(* With at least one connection requested, the indices are 0..NumConns-1. *)
LEMMA PositiveConns ==
    ASSUME HAConnections > 0
    PROVE  NumConns \in Nat \ {0} /\ Idx = 0 .. NumConns - 1
BY HAConnectionsAssumption, AvailableAddrsAssumption DEF NumConns, Idx

(* Changing the status of one index i moves it in or out of NonIdle and    *)
(* leaves the other indices where they were.                              *)
LEMMA NonIdleUpdate ==
    ASSUME NEW i \in Idx, NEW v, TypeOK,
           task' = [task EXCEPT ![i] = v]
    PROVE  NonIdle' = IF v = "idle" THEN NonIdle \ {i} ELSE NonIdle \cup {i}
BY DEF NonIdle, TypeOK

(* Receiving index i's result retires one goroutine: i leaves NonIdle and  *)
(* its size drops by one.                                                 *)
LEMMA ReceiveCount ==
    ASSUME TypeOK, NEW i \in Idx, task[i] # "idle", Receive(i)
    PROVE  /\ NonIdle' = NonIdle \ {i}
           /\ IsFiniteSet(NonIdle)
           /\ Cardinality(NonIdle') = Cardinality(NonIdle) - 1
<1>1. NonIdle' = NonIdle \ {i}
  BY NonIdleUpdate DEF Receive
<1>2. IsFiniteSet(NonIdle)
  BY FS_Subset, IdxFacts DEF NonIdle
<1>3. i \in NonIdle
  BY DEF NonIdle
<1> QED  BY <1>1, <1>2, <1>3, FS_RemoveElement

(* The initial state satisfies the strengthened invariant.                 *)
LEMMA CountInit ==
    ASSUME HAConnections > 0, Init
    PROVE  CountInv
<1>1. TypeOK
  BY TypeInit
<1> USE PositiveConns
<1>2. NonIdle = {0}
  BY DEF Init, NonIdle
<1>3. NilOnlyAfterStop /\ WaitingIdle /\ WaitingDistinct /\ WaitingEmptyEarly
  BY DEF Init, NilOnlyAfterStop, WaitingIdle, WaitingDistinct, WaitingEmptyEarly
<1>4. SpawnedPrefix /\ ActiveCountMatches
  BY <1>2 DEF Init, SpawnedPrefix, ActiveCountMatches
<1> QED  BY <1>1, <1>3, <1>4 DEF CountInv

(* Every step preserves the strengthened invariant.  The steps that start  *)
(* or retire a goroutine are the ones that move tunnelsActive; the others  *)
(* leave it, the statuses and the waiting list alone.                      *)
LEMMA CountStep ==
    ASSUME HAConnections > 0, CountInv, [Next]_vars
    PROVE  CountInv'
<1> USE PositiveConns DEF supVars, taskVars, envVars
<1>0. TypeOK /\ TypeOK'
  BY TypeStep DEF CountInv
<1>1. IsFiniteSet(NonIdle)
  BY <1>0, FS_Subset, IdxFacts DEF NonIdle
<1> DEFINE Rest == NilOnlyAfterStop /\ WaitingIdle /\ WaitingDistinct /\ WaitingEmptyEarly
                  /\ SpawnedPrefix /\ ActiveCountMatches
<1> SUFFICES Rest'
  BY <1>0 DEF CountInv
<1> USE DEF CountInv, NilOnlyAfterStop, WaitingIdle, WaitingDistinct, WaitingEmptyEarly,
            SpawnedPrefix, ActiveCountMatches
(* Steps that touch neither a status, nor the waiting list, nor the count, *)
(* nor the phase.                                                          *)
<1>2. ASSUME /\ UNCHANGED <<phase, spawnNext, tunnelsActive, tunnelsWaiting, task, result>>
             /\ gracefulShutdownC \/ ctxDone => gracefulShutdownC' \/ ctxDone'
      PROVE  Rest'
  <2>1. NonIdle' = NonIdle
    BY <1>2 DEF NonIdle
  <2> QED  BY <1>2, <2>1 DEF NonIdle
<1>3. CASE InitCtxDone
  BY <1>3 DEF InitCtxDone, NonIdle
<1>4. CASE InitDrain
  BY <1>4 DEF InitDrain, Receive, TypeOK
<1>5. CASE InitTunnelError
  <2>1. result[0] # "Nil"
    BY <1>5, IdxFacts DEF InitTunnelError, InitWoken
  <2> QED  BY <1>5, <2>1 DEF InitTunnelError, Receive, TypeOK
<1>6. CASE InitShutdown
  BY <1>6 DEF InitShutdown
<1>7. CASE InitConnected
  BY <1>7 DEF InitConnected, NonIdle
<1>8. CASE SpawnTunnel
  <2>0. spawnNext \in Idx /\ spawnNext \in 1 .. NumConns - 1
    BY <1>8 DEF SpawnTunnel
  <2>1. task' = [task EXCEPT ![spawnNext] = "serving"]
    BY <1>8, <1>0, <2>0 DEF SpawnTunnel, StartTunnels, TypeOK
  <2>2. NonIdle' = NonIdle \cup {spawnNext}
    BY <2>0, <2>1, <1>0, NonIdleUpdate
  <2>3. NonIdle' = 0 .. spawnNext
    BY <1>8, <2>0, <2>2 DEF SpawnTunnel
  <2> QED  BY <1>8, <2>0, <2>1, <2>3, <1>0 DEF SpawnTunnel, TypeOK
<1>9. CASE StartLoop
  <2>1. NonIdle = 0 .. NumConns - 1
    BY <1>9 DEF StartLoop
  <2>2. Cardinality(NonIdle) = NumConns
    BY <2>1, FS_Interval
  <2> QED  BY <1>9, <2>1, <2>2 DEF StartLoop, NonIdle
<1>10. CASE LoopCtxDone
  BY <1>10 DEF LoopCtxDone, NonIdle
<1>11. CASE BackoffTimerFires
  <2>0. WaitingSet \subseteq Idx
    BY <1>0 DEF WaitingSet, TypeOK
  <2>1. WaitingSet \cap NonIdle = {}
    BY DEF WaitingSet, NonIdle
  <2>2. IsFiniteSet(WaitingSet) /\ Cardinality(WaitingSet) = Len(tunnelsWaiting)
    BY <1>0, DistinctSeqCard DEF WaitingSet, TypeOK
  <2>3. task' = [j \in Idx |-> IF j \in WaitingSet THEN "serving" ELSE task[j]]
    BY <1>11 DEF BackoffTimerFires, StartTunnels, WaitingSet
  <2>4. NonIdle' = NonIdle \cup WaitingSet
    BY <2>0, <2>3, <1>0 DEF NonIdle, TypeOK
  <2>5. Cardinality(NonIdle') = Cardinality(NonIdle) + Len(tunnelsWaiting)
    <3>1. Cardinality(NonIdle \cap WaitingSet) = 0
      BY <2>1, FS_EmptySet
    <3>2. Cardinality(NonIdle \cup WaitingSet)
            = Cardinality(NonIdle) + Cardinality(WaitingSet)
              - Cardinality(NonIdle \cap WaitingSet)
      BY <1>1, <2>2, FS_Union
    <3> QED  BY <2>2, <2>4, <3>1, <3>2, FS_CardinalityType, <1>1
  <2>6. NilOnlyAfterStop'
    BY <1>11, <2>3, <1>0 DEF BackoffTimerFires, TypeOK
  <2> QED  BY <1>11, <2>4, <2>5, <2>6 DEF BackoffTimerFires, NonIdle
<1>12. CASE NextConnected \/ SetGracePeriod \/ LoopShutdown
  BY <1>12, <1>2 DEF NextConnected, SetGracePeriod, LoopShutdown, WaitForNextTunnel
<1>13. ASSUME NEW i \in Idx, DrainTunnel(i) PROVE Rest'
  <2>1. NonIdle' = NonIdle \ {i} /\ Cardinality(NonIdle') = Cardinality(NonIdle) - 1
    BY <1>13, <1>0, ReceiveCount DEF DrainTunnel
  <2> QED  BY <1>13, <2>1, <1>0 DEF DrainTunnel, Receive, NonIdle, TypeOK
<1>14. ASSUME NEW i \in Idx, TunnelErrorReconnect(i) PROVE Rest'
  <2>1. task' = [task EXCEPT ![i] = "serving"]
    BY <1>14, <1>0 DEF TunnelErrorReconnect, StartTunnels, TypeOK
  <2>2. NonIdle' = NonIdle
    <3>1. NonIdle' = NonIdle \cup {i}
      BY <2>1, <1>0, NonIdleUpdate
    <3> QED  BY <3>1, <1>14 DEF TunnelErrorReconnect, NonIdle
  <2>3. \A k \in 1 .. Len(tunnelsWaiting) : tunnelsWaiting[k] # i
    BY <1>14 DEF TunnelErrorReconnect
  <2>4. NilOnlyAfterStop'
    BY <1>14, <2>1, <1>0 DEF TunnelErrorReconnect, TypeOK
  <2>5. WaitingIdle'
    BY <1>14, <2>1, <2>3, <1>0 DEF TunnelErrorReconnect, TypeOK
  <2>6. ActiveCountMatches'
    BY <1>14, <2>2 DEF TunnelErrorReconnect, NonIdle
  <2> QED  BY <1>14, <2>4, <2>5, <2>6 DEF TunnelErrorReconnect
<1>15. ASSUME NEW i \in Idx, TunnelErrorAbandon(i) PROVE Rest'
  <2>1. NonIdle' = NonIdle \ {i} /\ Cardinality(NonIdle') = Cardinality(NonIdle) - 1
    BY <1>15, <1>0, ReceiveCount DEF TunnelErrorAbandon
  <2>2. /\ phase = "loop" /\ UNCHANGED <<phase, spawnNext, tunnelsWaiting>>
        /\ task' = [task EXCEPT ![i] = "idle"]
        /\ result' = [result EXCEPT ![i] = "Nil"]
        /\ tunnelsActive' = tunnelsActive - 1
        /\ UNCHANGED <<gracefulShutdownC, ctxDone>>
    BY <1>15 DEF TunnelErrorAbandon, Receive, envVars
  <2>3. NilOnlyAfterStop'
    BY <2>2, <1>0 DEF NilOnlyAfterStop, TypeOK
  <2>4. WaitingIdle' /\ WaitingDistinct'
    BY <2>2, <1>0 DEF WaitingIdle, WaitingDistinct, TypeOK
  <2>5. WaitingEmptyEarly' /\ SpawnedPrefix'
    BY <2>2 DEF WaitingEmptyEarly, SpawnedPrefix
  <2>6. ActiveCountMatches'
    BY <2>1, <2>2 DEF ActiveCountMatches, NonIdle
  <2> QED  BY <2>3, <2>4, <2>5, <2>6
<1>16. ASSUME NEW i \in Idx, TunnelErrorRetry(i) PROVE Rest'
  <2>1. NonIdle' = NonIdle \ {i} /\ Cardinality(NonIdle') = Cardinality(NonIdle) - 1
    BY <1>16, <1>0, ReceiveCount DEF TunnelErrorRetry
  <2>2. \A k \in 1 .. Len(tunnelsWaiting) : tunnelsWaiting[k] # i
    BY <1>16 DEF TunnelErrorRetry
  <2>3. /\ task' = [task EXCEPT ![i] = "idle"]
        /\ tunnelsWaiting' = Append(tunnelsWaiting, i)
    BY <1>16 DEF TunnelErrorRetry, Receive
  <2>4. WaitingIdle'
    <3>1. /\ WaitingIdle /\ tunnelsWaiting \in Seq(Idx)
          /\ task \in [Idx -> {"idle", "serving", "sending"}]
      BY <1>0 DEF CountInv, TypeOK
    <3>2. Len(tunnelsWaiting') = Len(tunnelsWaiting) + 1
      BY <2>3, <3>1
    <3>3. ASSUME NEW k \in 1 .. Len(tunnelsWaiting')
          PROVE  task'[tunnelsWaiting'[k]] = "idle"
      <4>1. CASE k <= Len(tunnelsWaiting)
        <5>1. tunnelsWaiting'[k] = tunnelsWaiting[k] /\ tunnelsWaiting[k] # i
          BY <2>2, <2>3, <3>1, <3>2, <4>1
        <5>2. tunnelsWaiting[k] \in Idx /\ task[tunnelsWaiting[k]] = "idle"
          BY <3>1, <3>2, <4>1 DEF WaitingIdle
        <5>. QED
          BY <2>3, <5>1, <5>2
      <4>2. CASE k = Len(tunnelsWaiting) + 1
        BY <2>3, <3>1, <4>2
      <4>. QED
        BY <3>2, <4>1, <4>2
    <3>. QED
      BY <3>3 DEF WaitingIdle
  <2>5. WaitingDistinct'
    <3>1. tunnelsWaiting \in Seq(Idx) /\ WaitingDistinct
      BY <1>0 DEF TypeOK
    <3>2. \A k, l \in 1 .. Len(Append(tunnelsWaiting, i)) :
              Append(tunnelsWaiting, i)[k] = Append(tunnelsWaiting, i)[l] => k = l
      BY <2>2, <3>1, AppendDistinct
    <3>. QED
      BY <2>3, <3>2
  <2>6. phase = "loop" /\ UNCHANGED <<phase, spawnNext, gracefulShutdownC, ctxDone>>
        /\ result' = [result EXCEPT ![i] = "Nil"]
        /\ tunnelsActive' = tunnelsActive - 1
    BY <1>16 DEF TunnelErrorRetry, Receive
  <2>7. NilOnlyAfterStop'
    BY <2>3, <2>6, <1>0 DEF NilOnlyAfterStop, TypeOK
  <2>8. WaitingEmptyEarly' /\ SpawnedPrefix'
    BY <2>6 DEF WaitingEmptyEarly, SpawnedPrefix
  <2>9. ActiveCountMatches'
    BY <2>1, <2>6 DEF ActiveCountMatches, NonIdle
  <2> QED  BY <2>4, <2>5, <2>7, <2>8, <2>9
<1>17. ASSUME NEW i \in Idx, TunnelErrorExit(i) PROVE Rest'
  <2>1. NonIdle' = NonIdle \ {i} /\ Cardinality(NonIdle') = Cardinality(NonIdle) - 1
    BY <1>17, <1>0, ReceiveCount DEF TunnelErrorExit
  <2>2. /\ phase = "loop" /\ phase' \in {"loop", "done"}
        /\ UNCHANGED <<spawnNext, tunnelsWaiting>>
        /\ task' = [task EXCEPT ![i] = "idle"]
        /\ result' = [result EXCEPT ![i] = "Nil"]
        /\ tunnelsActive' = tunnelsActive - 1
        /\ phase' = "loop" => phase' = phase
        /\ UNCHANGED <<gracefulShutdownC, ctxDone>>
    BY <1>17 DEF TunnelErrorExit, Receive, envVars
  <2>3. NilOnlyAfterStop'
    BY <2>2, <1>0 DEF NilOnlyAfterStop, TypeOK
  <2>4. WaitingIdle' /\ WaitingDistinct'
    BY <2>2, <1>0 DEF WaitingIdle, WaitingDistinct, TypeOK
  <2>5. WaitingEmptyEarly' /\ SpawnedPrefix'
    BY <2>2 DEF WaitingEmptyEarly, SpawnedPrefix
  <2>6. ActiveCountMatches'
    BY <2>1, <2>2 DEF ActiveCountMatches, NonIdle
  <2> QED  BY <2>3, <2>4, <2>5, <2>6
<1>18. ASSUME NEW i \in Idx, NEW r \in Results, ServeReturns(i, r) PROVE Rest'
  <2>1. NonIdle' = NonIdle
    <3>1. CASE i = 0 /\ firstRunner /\ RetryInline(r)
      BY <1>18, <3>1 DEF ServeReturns, NonIdle
    <3>2. CASE ~(i = 0 /\ firstRunner /\ RetryInline(r))
      <4>1. task' = [task EXCEPT ![i] = "sending"]
        BY <1>18, <3>2 DEF ServeReturns
      <4>2. NonIdle' = NonIdle \cup {i}
        BY <4>1, <1>0, NonIdleUpdate
      <4> QED  BY <4>2, <1>18 DEF ServeReturns, NonIdle
    <3> QED  BY <3>1, <3>2
  <2>2. \A k \in 1 .. Len(tunnelsWaiting) : tunnelsWaiting[k] # i
    BY <1>18 DEF ServeReturns
  <2>3. NilOnlyAfterStop'
    BY <1>18, <1>0 DEF ServeReturns, ServeResultPossible, TypeOK
  <2>4. WaitingIdle'
    BY <1>18, <2>2, <1>0 DEF ServeReturns, TypeOK
  <2>5. ActiveCountMatches' /\ SpawnedPrefix'
    BY <1>18, <2>1 DEF ServeReturns, NonIdle
  <2> QED  BY <1>18, <2>3, <2>4, <2>5 DEF ServeReturns
<1>19. CASE (\E i \in Idx : Connected(i)) \/ NotifyStep \/ CancelContext
            \/ CloseGracefulShutdown \/ Terminated \/ UNCHANGED vars
  <2>1. CASE \E i \in Idx : Connected(i)
    BY <2>1, <1>2 DEF Connected, supVars, envVars
  <2>2. CASE NotifyStep
    BY <2>2, <1>2 DEF NotifyStep, Notify, supVars, envVars
  <2>3. CASE CancelContext
    BY <2>3, <1>2 DEF CancelContext, supVars, taskVars
  <2>4. CASE CloseGracefulShutdown
    BY <2>4, <1>2 DEF CloseGracefulShutdown, supVars, taskVars
  <2>5. CASE Terminated \/ UNCHANGED vars
    BY <2>5, <1>2 DEF Terminated, vars, supVars, taskVars, envVars
  <2> QED  BY <1>19, <2>1, <2>2, <2>3, <2>4, <2>5
<1> QED
  BY <1>3, <1>4, <1>5, <1>6, <1>7, <1>8, <1>9, <1>10, <1>11, <1>12, <1>13,
     <1>14, <1>15, <1>16, <1>17, <1>18, <1>19
  DEF Next, SupervisorStep, TunnelStep

(* Whenever at least one connection is requested, Run's tunnelsActive is,  *)
(* in its select loop and its ctx drain, exactly the number of serving     *)
(* goroutines that have not yet sent on tunnelErrors: the decrement per    *)
(* received error, the increment per ReconnectSignal respawn and the       *)
(* `+= len(tunnelsWaiting)` of the backoff timer keep it in step.  (With   *)
(* HAConnections = 0 it is false: see run ZeroHA.)                        *)
THEOREM ActiveCountCorrect ==
    ASSUME HAConnections > 0
    PROVE  Spec => []ActiveCountMatches
<1>1. Init => CountInv
  BY CountInit
<1>2. CountInv /\ [Next]_vars => CountInv'
  BY CountStep
<1>3. CountInv => ActiveCountMatches
  BY DEF CountInv
<1> QED  BY <1>1, <1>2, <1>3, PTL DEF Spec

=============================================================================
