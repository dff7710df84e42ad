# TLA+ models of the cloudflared tunnel supervisor and edge dialer

This directory holds TLA+ models of the connection-management core of this
cloudflared fork. Each model is checked with TLC on small instances, and some
are also proved with TLAPS. The models cover four parts:

- the tunnel supervisor (`src/supervisor/supervisor.go`);
- its per-connection serving loop with the address and protocol fallback
  logic (same file);
- initialize seeding the further indices while index 0 runs (same file);
- the SOCKS5-capable edge dialer (`src/unnamed/part_001`, package
  `edgediscovery`, file `dial.go`).

`PROJECT.json` lists every module definition with the source lines it
translates, and every run, mutant, finding, hazard and theorem.

## The system and how its parts interact

`Supervisor.Run` first calls `initialize`, which:

1. clamps `HAConnections` to the number of available edge addresses;
2. seeds index 0's `protocolFallback`;
3. starts `startFirstTunnel`;
4. blocks in a `select` until one of these happens:
   - the first tunnel registers (its connected signal closes);
   - the first tunnel returns an error on the unbuffered channel `tunnelErrors`;
   - `ctx` is cancelled;
   - graceful shutdown is signalled.

Once the first tunnel registers, `initialize` starts `startTunnel` for
indices `1..HAConnections-1`. Run then enters its select loop, which keeps a
local count `tunnelsActive` and a list `tunnelsWaiting`:

- a failed index is queued for one shared backoff timer;
- a `ReconnectSignal` is respawned at once;
- each connected signal advances `nextConnectedSignal`;
  - when the pool has fully registered, the backoff gets a grace period;
- a `ctx` cancellation drains `tunnelsActive` results.

Each serving goroutine calls `EdgeTunnelServer.Serve`, which makes one
connection attempt:

1. `GetAddr`;
2. `serveTunnel` / `serveConnection`:
   - QUIC: `DialQuic`, then `serveQUIC`;
   - HTTP2: `DialEdgeWithProxy`, then `serveHTTP2`;
3. the classification of the error as recoverable or not;
4. `ipAddrFallback.ShouldGetNewAddress` and `GetDifferentAddr`;
5. the backoff `select`;
6. `selectNextProtocol`, which may switch the index to the fallback protocol.

`startFirstTunnel` retries some errors in place. Every other result goes to
Run on `tunnelErrors`. Registration calls `connectedFuse.Connected`, which
does two things:

- it resets the protocolFallback;
- a notifier goroutine closes the attempt's connected-signal channel.

## Modules

| Module | Models | Runs |
|---|---|---|
| `Supervisor` | Run, initialize, startFirstTunnel/startTunnel as per-index tasks, newConnectedTunnelSignal, waitForNextTunnel, the fuse and notifier | `MCSupervisor*.cfg` |
| `SupervisorProofs` | TLAPS proofs about `Supervisor` | (tlapm) |
| `SupervisorPoolProofs` | TLAPS proofs of the supervisor's action properties (extends `SupervisorProofs`) | (tlapm) |
| `EdgeTunnelServerProofs` | TLAPS proofs about `EdgeTunnelServer` | (tlapm) |
| `EdgeTunnelServerRetryProofs` | TLAPS proofs of index 0's retry discipline (extends `EdgeTunnelServerProofs`) | (tlapm) |
| `EdgeTunnelServer` | index 0's startFirstTunnel loop around Serve: serveTunnel classification, ipAddrFallback, the backoff select, selectNextProtocol, isQuicBroken, connectedFuse.Connected | `MCEdgeTunnelServer*.cfg` |
| `Initialize` | initialize's select and spawning loop running beside index 0's Serve loop (`EdgeTunnelServer`), with the copy of index 0's protocol each further index is seeded with | `MCInitialize*.cfg` |
| `DialEdge` | DialEdgeWithProxy, dialViaProxy, dialDirect, DialError on a discrete clock, and serveConnection's use of the returned connection (serveHTTP2 in both post-quantum modes) | `MCDialEdge*.cfg` |
| `DialEdgeProofs` | TLAPS proofs about `DialEdge` and its refinement of `LegacyDialEdge` | (tlapm) |
| `ProtocolFallback` | the protocolFallback object of one index: reset(), the BackoffTimer count, selectNextProtocol's refresh and fallback() | refined by `EdgeTunnelServer` |
| `LegacyDialEdge` | the abstract direct-only dialer that spec §8 promises the proxy-less path behaves as | refined by `DialEdge` |
| `MC*` | the constants of the model-checking instances | |

### Supervisor

The state is the supervisor goroutine's locals:

- `phase`, standing for the program counter across initialize and Run;
- `tunnelsActive`, `tunnelsWaiting`, `backoffTimer`, `shuttingDown`;
- the fields `tunnelsConnecting` and `nextConnectedSignal`.

Each index has a task (`idle`/`serving`/`sending`), the error it is sending,
its fuse and the generation of its connected-signal channel. A channel is
`<<index, generation>>`. There is one action per select case and per branch
of the `tunnelErrors` case:

- `TunnelErrorReconnect`, `TunnelErrorAbandon`, `TunnelErrorRetry`, `TunnelErrorExit`;
- `BackoffTimerFires`;
- `NextConnected` and `SetGracePeriod`;
- `LoopShutdown`;
- `LoopCtxDone` and `DrainTunnel`;
- one per case of initialize's select (`Init*`).

A send on `tunnelErrors` is a rendezvous: the task stays `sending` until
the supervisor receives. The detail of `Serve` is abstracted to two things:

- `Connected(i)`, the fuse firing;
- `ServeReturns(i, r)`, the class of the returned error: Nil, Reconnect,
  Transient, NoAddrs or Fatal.

`ServeReturns` for index 0 applies startFirstTunnel's in-place retry
(`RetryInline`).

### EdgeTunnelServer

The state:

- `pc`, one of serve/session/wait/returned/done;
- the held address;
- `ipRetries`, for `retriesByConnIndex[0]`;
- the protocolFallback: `retries`, `protocol`, `inFallback`;
- the attempt's fuse;
- Serve's local `shouldFallback`;
- the attempt's error;
- the ConnTracker's set `connectedWith`.

Errors are abstracted to their classes. `ServeStart` covers GetAddr and the
dial; `SessionEnds` covers the session's end and its classification.
`AfterServe` contains all of this, because it is part of the same handler:

- ShouldGetNewAddress;
- GetDifferentAddr, including its failure as ErrNoAddressesLeft;
- the ConnectivityError override of `shouldFallback`;
- GetMaxBackoffDuration.

The three backoff-select cases are `WaitCtxDone`, `WaitShutdown` and
`BackoffTimerFires`. The last one includes `HasConnectedWith` and
`SelectNextProtocol`. Then startFirstTunnel either retries
(`FirstTunnelRetries`) or returns (`FirstTunnelReturns`).

There are two history variables, which no action reads in a guard:

- `waited`: the attempt went through the timer;
- `failedSince`: failed attempts since the last registration.

`ProtocolFallback` is the abstract object that `EdgeTunnelServer` refines.
It has the same three variables, `retries`, `protocol` and `inFallback`.
Its steps are the only ways the code changes them:

- `PFReset` is reset();
- `PFBackoff` is a BackoffTimer that counts one more retry;
- `PFBackoffFollow` is that count followed by selectNextProtocol's refresh
  from the selector, for an index not in fallback;
- `PFFallback` is fallback() to the selector's alternative when the index is
  not on it yet.

The refinement mapping is the identity on these three variables and hides
the rest of the retry loop. The backoff count is translated from spec §4.2,
because `retry.BackoffHandler` is not in `src/`.

### DialEdge

Time is counted in ticks:

- `dialCtx` expires at `Timeout`;
- the handshake deadline is its start plus `Timeout`;
- a black-holed TCP peer or a stalled handshake runs to its deadline;
- a failing SOCKS5 dial (`ProxyEnds`) ends at any tick up to the dialCtx
  deadline, because how long a proxy takes to give up on the edge is not
  under the dialer's control;
- every other exchange takes one tick.

`open` holds the sockets the call holds. `ReturnError` adds what remains
open to `leaked`, because no error path closes it.

The caller is part of the model, because the connection's fate is decided
there. `held` is true while serveConnection holds the TLS connection
DialEdge returned; no new call starts while it does. `ServeHTTP2` hands
the connection on:

- with `PostQuantum = "prefer"`, the HTTP2 connection owns it and closes it;
- with `PostQuantum = "strict"`, serveHTTP2 returns its unrecoverable error
  first (supervisor.go 1177-1181) and nothing closes it, so it counts as
  leaked.

`proxyOutcome` and `directOutcome` are history variables recording what
each dial of the current call met; no guard reads them.

### Initialize

`Initialize` composes initialize's own control (`initPc`, the loop index
`nextIndex`, and `seeded`, the protocol each further index was seeded
with) with the whole `EdgeTunnelServer` model of index 0's goroutine. The
two interleave freely: `FirstTunnelStep` is any step of index 0, and
initialize's actions are

- `FirstRegistration`: the select's connected-signal case;
- `InitializeFails`: the error or shutdown cases;
- `SpawnTunnel`: one loop iteration, which copies index 0's current
  `protocol` (364), with no lock against index 0's `selectNextProtocol`;
- `SpawningDone`.

The one-second sleep between spawns is left to the interleaving: any number
of index 0's steps may fall between two spawns.

### Code not under `src/`

The following are modelled from the spec and marked `spec_modelled` in the
map:

- the `retry.BackoffHandler` counter (`Retry`, `BackoffTimerRetries`). It is
  built with `retryForever = true`, so only ctx cancellation stops a retry,
  and the counter saturates at `Retries`;
- the ConnTracker (`connectedWith`, "ever connected with");
- the legacy dialer.

## Runs

| Run | Expect | What it shows |
|---|---|---|
| `supervisor` | pass | see the first property list below |
| `edge_tunnel_server` | pass | see the second property list below |
| `edge_tunnel_server_quic_blocked` | pass | see the third property list below |
| `dial_edge` | pass | `DialEdgeBounded`: whatever proxy (answering, refusing at any tick, black-holing), edge and handshake do, a call returns within dial timeout + handshake timeout |
| `supervisor_early_shutdown` | violation | `DrainedOnReturn` |
| `supervisor_zero_ha` | violation | `Termination` with HAConnections = 0 |
| `edge_tunnel_server_one_addr_no_fallback` | violation | `FallbackConnects` on a static edge of one address |
| `edge_tunnel_server_static_shutdown` | violation | `ShutdownEndsFirstTunnel` on a static edge of one address |
| `dial_edge_slow_proxy` | violation | `DialErrorFromDirectDial` with a proxy slow to refuse |
| `dial_edge_handshake_leak` | violation | `NoSocketLeak` when the handshake fails |
| `dial_edge_pq_strict_leak` | violation | `NoSocketLeak` with PostQuantumStrict over HTTP2 |
| `initialize_sibling_protocol` | violation | `SeededWithRegisteredProtocol` |

The `supervisor` run checks four properties:

- `ActiveCountMatches`: `tunnelsActive` equals the number of serving
  goroutines that have not yet delivered their result;
- `GraceOnlyWhenPoolConnected`: SetGracePeriod only when every kept index is
  registered;
- `SequentialServePerIndex`: Serve calls of one index never overlap;
- `Termination`: shutdown or cancellation leads to Run returning. The run
  uses a dynamically resolved edge, where every Serve watches the shutdown
  channel; on a static edge it is false (see the fairness section and
  finding 4).

The refinement `ImplementsLegacy` of `LegacyDialEdge` (with no proxy URL)
has no run: `ImplementsLegacyCorrect` proves it for every value of the
constants.

The `edge_tunnel_server` run checks two:

- `FallbackNeedsFailures`: a fallback not caused by a broken QUIC needs
  `Retries` failures since the last registration;
- `ImplementsProtocolFallback`: the retry loop refines `ProtocolFallback`.
  Its mutant is a registration that calls only `ResetNow()` and leaves
  `inFallback` set.

The `edge_tunnel_server_quic_blocked` run checks two:

- `BackoffBeforeRetry`: every in-place retry waited out the backoff;
- `FallbackConnects`: QUIC blocked on a dynamic edge eventually registers
  over HTTP2.

Every property of a passing run has a mutant in `PROJECT.json`. A mutant
replaces one mapped definition with a plausible bug, for example:

- the timer forgetting `tunnelsActive += len(tunnelsWaiting)`;
- the exit test made before the decrement;
- the fallback counter tested one retry early;
- the direct dial given a fresh timeout.

Under the run's own configuration, TLC finds the property violated.

### Findings (violation runs)

1. **Early shutdown leaks the first tunnel** (supervisor.go 350-352, 396).
   `initialize` returns `errEarlyShutdown` while startFirstTunnel is still in
   Serve. Its deferred send on `tunnelErrors` then never finds a receiver.
2. **HAConnections = 0.** `tunnelsActive` starts at 0 while index 0 runs.
   The count goes to -1 and Run never returns after shutdown (220, 244, 272).
   The run uses a dynamic edge, so the hang is the count's and not finding 4's.
3. **Static edge with one address and QUIC blocked** (834, 427-432).
   - `GetDifferentAddr` fails, so Serve returns ErrNoAddressesLeft before the
     backoff and before `selectNextProtocol`.
   - startFirstTunnel retries it in place.
   - The index never falls back to HTTP2 (spec scenario 3).
   - TLC's counterexample is also a busy loop: Serve is called again at
     once, without the backoff that spec §5 requires before a retry.
4. **Graceful shutdown does not end startFirstTunnel's static-edge loop**
   (427-432, 834). The in-place retry of `ErrNoAddressesLeft` calls Serve,
   which returns from `GetAddr`/`GetDifferentAddr` before the backoff select
   (the one place Serve watches `gracefulShutdownC`), and startFirstTunnel
   tests only ctx. After shutdown, index 0 loops forever in the situation of
   finding 3. Run, once in its loop, waits for index 0's result and never
   returns. Spec §4.5 says tunnels observe the shutdown channel themselves,
   and scenario 6 says Run returns once the active count is 0.
5. **TLS handshake failure leaks the TCP connection** (dial.go 66-67).
6. **A slow SOCKS5 proxy makes a reachable edge fail** (dial.go 38, 46,
   56). Both dials share one `dialCtx`. A proxy that refuses only at the
   deadline, or never answers, leaves `dialDirect` an expired context, and
   DialEdgeWithProxy returns a DialError. Spec §4.1 says a SOCKS5 failure,
   a timeout included, falls through to the direct dial, so that
   availability does not depend on the proxy. SOCKS5_PROXY_GUIDE.md
   scenario 3 says a slow or hung proxy falls back to a normal direct
   connection.
7. **PostQuantumStrict over HTTP2 leaks the TLS connection**
   (supervisor.go 1177-1181). serveHTTP2 returns its unrecoverable error
   before `NewHTTP2Connection`, and nothing closes the connection
   DialEdgeWithProxy returned. One call is enough.
8. **Further indices may be seeded with a protocol index 0 never
   registered with** (supervisor.go 364). Index 0 registers over HTTP2 after
   a fallback, its session then ends with a reconnect, and its next
   `selectNextProtocol` restores QUIC (the registration had reset
   `inFallback`). initialize, already past its select, copies that QUIC
   into index 1. Spec §4.5 step 6 says the others are seeded with the
   protocol the first tunnel settled on. The read is also unsynchronised
   with index 0's write (954), a data race in Go's memory model; the model
   shows that even with atomic reads the copied value can be the wrong one.

## Bounds and why they suffice

**`MCSupervisor`:**

- 2 indices on a dynamically resolved edge;
- 4 available addresses, so no clamping;
- at most 2 failing Serve results;
- 1 operator reconnect;
- about 450k states.

Two indices are enough for the cross-index interleavings the supervisor
has: one waiting while the other connects, the timer restarting one while
the other fails, and two results racing the drain. Two failures let an
index fail twice in a row and both indices fail in the same timer window.
The violation runs use the smallest constants that reach their bug.

**`MCEdgeTunnelServer`:**

- `Retries = 2`, so the fallback needs two failed attempts and the counter
  reaches its ceiling;
- `MaxEdgeAddrRetries = 1`, so a ConnectivityError reaches "max retries"
  on the second dial failure;
- one or two addresses, so that rotation can both succeed and fail;
- the general run lets the edge return every error class.

**`MCDialEdge`:**

- `Timeout = 4` ticks, so a one-tick exchange and a timeout are distinct,
  and a proxy refusal can come early (time left for the direct dial), late,
  or at the deadline;
- 6 calls, so sockets accumulate across calls;
- the proxy: SOCKS5 with every outcome (`dial_edge`); the proofs cover every
  setting and every Timeout.

**`MCInitialize`:** `HAConnections = 3`, so two further indices are seeded
at different moments of index 0's run; the `EdgeTunnelServer` constants of
the general run with two addresses and a dynamic edge, so the QUIC to
HTTP2 fallback and back is reachable. The violation needs 11 states.

## Fairness

**Supervisor.** Go's `select` chooses uniformly among ready cases, so a case
that stays ready is eventually taken; this gives weak fairness per case.
Beyond that:

- goroutines are never starved forever;
- a Serve returns once ctx is cancelled: the dial deadline, the session and
  the backoff select watch ctx, and startFirstTunnel tests `ctx.Err()` after
  every Serve;
- after graceful shutdown, a Serve returns only if it watches the shutdown
  channel (`WatchesShutdown`). The session drains, and the backoff select has
  the shutdown case ready. startFirstTunnel on a static edge gets no such
  fairness: its in-place `ErrNoAddressesLeft` retry never reaches a select
  (finding 4), so the model lets it run forever;
- nothing forces the environment to cancel, or a healthy tunnel to fail.

**EdgeTunnelServer.** It assumes weak fairness of the serving goroutine, of
the backoff timer and of `Connected`. The edge answers a registration within
the RPC timeout. Nothing forces a session to end. So in
`edge_tunnel_server_static_shutdown`, where QUIC is blocked and no session
ever starts, the only way for index 0 to miss the shutdown is the in-place
retry loop itself.

## What is proved (TLAPS)

### `SupervisorProofs`

- `TypeCorrect`: `Spec => []TypeOK`. The proof has one step per action and
  rests on lemmas about `StartTunnels` and the index set.
- `ActiveCountCorrect`: for `HAConnections > 0`, `Spec => []ActiveCountMatches`.

`ActiveCountMatches` is not inductive by itself. The proof uses the
strengthening `CountInv`, which holds, besides `TypeOK`:

- a nil result is only sent after shutdown or cancellation, so initialize
  never enters the loop counting goroutines it has not started;
- every index queued in `tunnelsWaiting` is idle, and is queued once
  (`WaitingIdle`, `WaitingDistinct`). This makes
  `tunnelsActive += len(tunnelsWaiting)` count exactly the goroutines the
  timer starts. It rests on two lemmas. `DistinctSeqCard`: a sequence
  without repetitions has as many elements as its length. `AppendDistinct`:
  appending an element the sequence does not hold keeps it free of
  repetitions;
- the waiting list is empty before the loop;
- before the loop, the running goroutines are exactly the indices initialize
  has spawned.

The proof shows `Init => CountInv` (`CountInit`) and
`CountInv /\ [Next]_vars => CountInv'` (`CountStep`, one case per action).
It ends with `PTL`. The theorem's hypothesis `HAConnections > 0` is
necessary: run `supervisor_zero_ha` shows the count is wrong without it.

### `DialEdgeProofs`

The constants are assumed as `DialConstantsAssumption` states them, in
particular `Timeout >= 1`.

- `DialTypeCorrect`: `DialSpec => []DialTypeOK`.
- `DialEdgeBoundedCorrect`: `DialSpec => []DialEdgeBounded`.
- `ImplementsLegacyCorrect`: with `ProxyURL = ""`,
  `DialSpec => ImplementsLegacy`.

All rest on the inductive invariant `IInv`:

- `DialTypeOK`;
- `ClockInv`: a call is at 0 in the proxy dial, within the dialCtx deadline
  in the direct dial and the handshake, and within deadline + Timeout once
  returned. The bound at `returned` alone is not inductive: the handshake
  step needs to know it starts by the deadline.

`InitIInv` and `NextIInv` (one lemma per action: `CallStep`, `ProxyStep`,
`DirectStep`, `TlsStep`, `ServeStep`) give the two theorems by `PTL`.
The refinement adds `NoProxyInv`: with no proxy URL no call is in the
proxy branch and the direct dial starts at 0. `LegacyStep` then maps each
step to a `LegacyDialEdge` step: the call to `LegacyCall`, the direct dial
to `LegacyDirect` (a dial started at 0 ends at 1 or at the deadline, as the
legacy dialer's does), the handshake to `LegacyHandshake`, and
`ServeHTTP2` to a stutter.

### `EdgeTunnelServerProofs`

- `TypeCorrect`: `Spec => []TypeOK`. The backoff counter stays in
  `0..Retries`, and the ipAddrFallback counter stays in
  `0..MaxEdgeAddrRetries`.
- `ImplementsProtocolFallbackCorrect`: `Spec => ImplementsProtocolFallback`,
  for every value of the constants.

`TypeCorrect` rests on the inductive invariant
`TypeOK /\ FallbackProtocol`, where
`FallbackProtocol` says an index in fallback is on the selector's fallback
protocol. It is needed because of `selectNextProtocol`: when the retries
are exhausted, the `protocol == fallback` early return is the only thing
that keeps an index already in fallback from being switched again. The
assumption used is `ConstantsAssumption`, through the lemma `ConstFacts`.

The proof is split into steps:

- one step per action;
- lemmas for `selectNextProtocol` (`SelectStep`), for the backoff counter
  (`RetriesStep`) and for `AfterServe` (`AfterServeType`).

The refinement needs no invariant: each step maps to an abstract step on its
own. `PFStep` shows that:

- `Connected` is `PFReset`;
- the other actions leave the three variables unchanged;
- `BackoffTimerFires` is a `PFBackoff` when it skips the selection.

Otherwise `SelectRefines` splits `SelectNextProtocol` into its four
branches:

- a refused switch is `PFBackoff`;
- fallback() is `PFFallback`;
- the else branch in fallback is `PFBackoff`;
- the else branch not in fallback is `PFBackoffFollow`.

`Init` is `PFInit`, and `PTL` joins the two facts.

### `SupervisorPoolProofs`

Both theorems hold for every value of the constants, `HAConnections = 0`
included. They use only the assumptions `Supervisor` declares.

- `SequentialServeCorrect`: `Spec => SequentialServePerIndex`.
- `GraceOnlyWhenPoolConnectedCorrect`: `Spec => GraceOnlyWhenPoolConnected`.

`SequentialServeCorrect` rests on `SeqInv`: `TypeOK`, `WaitingIdle` and
`WaitingEmptyEarly` from `SupervisorProofs`, and `UnspawnedIdle`.
`UnspawnedIdle` says that before the loop, the indices initialize has not
spawned are idle. `SequentialStep` then checks the three places that call
`startTunnel`:

- the spawning loop restarts an unspawned index;
- the `ReconnectSignal` branch restarts the index whose result it has just
  received;
- the backoff timer restarts the queued indices.

Each index restarted this way has no goroutine.

`GraceOnlyWhenPoolConnectedCorrect` rests on `GraceInv`. In it, an index is
*kept* when it has a goroutine and is not startFirstTunnel.

- `ConnectingCurrent`: every entry of `tunnelsConnecting` is the current
  signal of its index.
- `AwaitedCurrent`: so is `nextConnectedSignal`.
- `SignalsPast`: no fired signal belongs to an attempt that has not started.
- `SignalledFused`: a kept index whose current signal fired has its fuse
  latched.
- `UnregisteredAwaited`: a kept index that has not registered is still in
  `tunnelsConnecting`.

The last two are the point of the invariant. The other three are needed to
preserve them:

- a restart must get a signal that has not fired (`SignalsPast`);
- `waitForNextTunnel` must remove only an index whose signal was received,
  so the signal the loop awaits must be that index's current one.

With `GraceInv`, `GraceStepProperty` is a short argument. An unregistered
kept index would be in `tunnelsConnecting`, so it is the index whose signal
was just received, and that index is registered. Helper lemmas:

- `StartTunnelsGrace`, `ReceiveGrace` and `WaitGrace`, one per helper of
  `Supervisor`;
- `ReceivedSignal`;
- `GraceStep`, one case per action.

### `EdgeTunnelServerRetryProofs`

These theorems use the constants' assumption `ConstantsAssumption` only:

- `FallbackNeedsFailuresCorrect`: `Spec => FallbackNeedsFailures`;
- `RetryWithoutBackoffOnlyNoAddrs`: a return to `Serve` that did not wait on
  the backoff follows a `NoAddressesLeft` on a static edge;
- `BackoffBeforeRetryCorrect`: with `~StaticEdge`,
  `Spec => BackoffBeforeRetry`.

The hypothesis `~StaticEdge` is the condition that
`RetryWithoutBackoffOnlyNoAddrs` identifies as exact. Run
`edge_tunnel_server_quic_blocked` checks the property under the same
condition, `StaticEdge = FALSE`. On a static edge the exception is real. On
the instance of `edge_tunnel_server_one_addr_no_fallback`, TLC finds the
property violated within three steps: `NoAddressesLeft` sends
startFirstTunnel back to Serve without a wait, as that run's finding
describes.

The invariants:

- `FailCountInv` bounds the backoff counter by the failures since the last
  registration at every control point. A failed Serve waiting on the
  backoff has either one more failure than retries, or reached `Retries`.
  This makes the fallback in `selectNextProtocol` require `Retries` failures.
- `WaitedInv` says a return that skipped the backoff wait is a
  cancellation, a nil error or `NoAddressesLeft`.

Helper lemmas:

- `AfterServeCount` and `AfterServeReturns` for the error classification;
- `TimerRetries`, `FallbackTaken` and `TimerWithinFailures` for the backoff;
- one step lemma per invariant.

## Only model-checked

These stay with TLC:

- liveness: `Termination` and `FallbackConnects`. They depend on weak
  fairness and `ENABLED`, which the installed provers do not handle;
- `BackoffBeforeRetry` on a static edge, where it is false (see above);
- the properties of the violation runs: `DrainedOnReturn`,
  `SeededWithRegisteredProtocol`, `NoSocketLeak`, `ShutdownEndsFirstTunnel`,
  `DialErrorFromDirectDial`, and `Termination` with no connections. These are disagreements between
  the code and its spec or comments, so there is nothing to prove.

## Not modelled

- **QUIC and HTTP2 session internals.** These are the datagram managers,
  curve preferences and control stream RPCs. They appear only through the
  errors they can return.
- **The `ReconnectSignal` delay** (1048). `DelayBeforeReconnect` sleeps
  without watching ctx, so a cancellation is late by up to the delay. The
  model has no real time outside `DialEdge`.
- **The connection tracker shared by all indices** (868). The model's
  `connectedWith` is index 0's view only.
- **The shared `reconnectCh`** (1387). One operator reconnect is delivered
  to whichever index's session reads it first; the models abstract the
  signal to a session result.
- **The indices other than 0 inside `Initialize`.** Their goroutines are
  `Supervisor`'s concern.
- **Sentry reporting, ICMP and DNS loops, logging, configuration
  construction.** These are I/O or plumbing that do not affect control.
- **The test report and the test file in `src/unnamed`.**
