----------------------------- MODULE Initialize -----------------------------
(***************************************************************************)
(* Supervisor.initialize (supervisor.go 317-373) running beside the        *)
(* serving goroutine of index 0 that it starts (EdgeTunnelServer).         *)
(* initialize seeds tunnelsProtocolFallback[0] with the selector's         *)
(* protocol, waits in its select for the first registration, and then, in  *)
(* a loop with a one-second sleep per index, seeds each further index with *)
(* a copy of tunnelsProtocolFallback[0].protocol (364) and starts it.      *)
(* Index 0's goroutine keeps running that whole time: its Serve calls may  *)
(* write the same field in selectNextProtocol, with no lock between the    *)
(* two goroutines.  The sleeps are left to the interleaving: any number of *)
(* index 0's steps may fall between two spawns.  The started indices' own  *)
(* goroutines are Supervisor's concern and are not modelled here.          *)
(***************************************************************************)
EXTENDS EdgeTunnelServer

CONSTANT HAConnections  \* config.HAConnections after the clamp to AvailableAddrs

VARIABLES
    initPc,     \* "select" | "spawning" | "returned"
    nextIndex,  \* the loop variable i of initialize's spawning loop
    seeded      \* i -> the protocol tunnelsProtocolFallback[i] was given, or "none"

initVars == <<initPc, nextIndex, seeded>>
allVars == <<vars, initVars>>

Siblings == 1..(HAConnections - 1)

InitTypeOK ==
    /\ TypeOK
    /\ initPc \in {"select", "spawning", "returned"}
    /\ nextIndex \in 1..HAConnections
    /\ seeded \in [Siblings -> Protocols \cup {"none"}]

\* tunnelsProtocolFallback[0] holds Current() (Init of EdgeTunnelServer) and
\* startFirstTunnel is started; no further index is seeded yet.
InitializeInit ==
    /\ Init
    /\ initPc = "select"
    /\ nextIndex = 1
    /\ seeded = [i \in Siblings |-> "none"]

\* The select's connectedSignal case: index 0's connectedFuse latched true
\* and its goroutine notified the signal.
FirstRegistration ==
    /\ initPc = "select"
    /\ connectedWith # {}
    /\ initPc' = "spawning"
    /\ UNCHANGED <<vars, nextIndex, seeded>>

\* The select's other cases: startFirstTunnel's result arrives on
\* tunnelErrors (after ctx.Done, initialize also waits for it), or graceful
\* shutdown (errEarlyShutdown).
InitializeFails ==
    /\ initPc = "select"
    /\ pc = "done" \/ graceful
    /\ initPc' = "returned"
    /\ UNCHANGED <<vars, nextIndex, seeded>>

\* One iteration of the loop: tunnelsProtocolFallback[i] gets a fresh
\* backoff and a copy of index 0's protocol as it is at this moment, then
\* startTunnel(i) is started and initialize sleeps registrationInterval.
SpawnTunnel ==
    /\ initPc = "spawning"
    /\ nextIndex < HAConnections
    /\ seeded' = [seeded EXCEPT ![nextIndex] = protocol]
    /\ nextIndex' = nextIndex + 1
    /\ UNCHANGED <<vars, initPc>>

\* The loop is done and initialize returns nil.
SpawningDone ==
    /\ initPc = "spawning"
    /\ nextIndex = HAConnections
    /\ initPc' = "returned"
    /\ UNCHANGED <<vars, nextIndex, seeded>>

\* Index 0's goroutine takes a step; initialize does not move.
FirstTunnelStep ==
    /\ Next
    /\ UNCHANGED initVars

InitializeNext ==
    \/ FirstTunnelStep
    \/ FirstRegistration \/ InitializeFails
    \/ SpawnTunnel \/ SpawningDone

InitializeSpec == InitializeInit /\ [][InitializeNext]_allVars

(***************************************************************************)
(* Properties.                                                             *)
(***************************************************************************)

\* Spec 4.5 step 6 and 9: each further index is seeded with the protocol
\* the first tunnel settled on, so that it does not redo a protocol that
\* failed for index 0: every seeded protocol is one index 0 registered with.
SeededWithRegisteredProtocol ==
    \A i \in Siblings : seeded[i] \in connectedWith \cup {"none"}
=============================================================================
