---------------------------- MODULE DialEdgeProofs ----------------------------
(***************************************************************************)
(* Proofs about DialEdge for every Timeout, proxy setting, network         *)
(* behaviour and number of calls: the call is bounded in time, and with no *)
(* proxy URL the dialer implements the legacy direct-only dialer.          *)
(***************************************************************************)
EXTENDS DialEdge, TLAPS, FiniteSetTheorems

(***************************************************************************)
(* The inductive invariant.                                                *)
(***************************************************************************)

\* Where the clock can be at each control point: a call starts at 0, both
\* dials end by the dialCtx deadline, and the handshake adds at most one
\* more Timeout.
ClockInv ==
    /\ pc = "proxy" => now = 0
    /\ pc \in {"direct", "tls"} => now <= DialDeadline
    /\ pc = "returned" => now <= DialDeadline + Timeout

IInv ==
    /\ DialTypeOK
    /\ ClockInv

(***************************************************************************)
(* Facts about the constants and the helpers.                              *)
(***************************************************************************)

\* What the proofs use of DialConstantsAssumption.
LEMMA DialConstFacts ==
    /\ Timeout \in Nat /\ Timeout >= 1
    /\ DialDeadline = Timeout
    /\ ProxyResults \subseteq {"ok", "refused", "blackhole"}
    /\ DirectResults \subseteq {"ok", "refused", "blackhole"}
    /\ HandshakeResults \subseteq {"ok", "fail", "stall"}
    /\ MaxDials \in Nat
    /\ PostQuantum \in {"prefer", "strict"}
<1>1. /\ Timeout \in Nat \ {0}
      /\ ProxyResults \subseteq TcpOutcomes
      /\ DirectResults \subseteq TcpOutcomes
      /\ HandshakeResults \subseteq HandshakeOutcomes
      /\ MaxDials \in Nat
      /\ PostQuantum \in {"prefer", "strict"}
  BY DialConstantsAssumption, Zenon
<1>2. Timeout \in Nat /\ Timeout # 0
  BY <1>1, Zenon
<1>3. Timeout >= 1
  BY <1>2, SMT
<1>. QED
  BY <1>1, <1>2, <1>3 DEF DialDeadline, TcpOutcomes, HandshakeOutcomes

\* ReturnError adds the number of sockets still open to the leak count:
\* a set of at most the two sockets of a call has a natural cardinality.
LEMMA OpenCard ==
    ASSUME NEW S \in SUBSET {"proxy", "direct"}
    PROVE  Cardinality(S) \in Nat
<1>1. IsFiniteSet({"proxy"} \cup {"direct"})
  BY FS_Singleton, FS_AddElement
<1>2. {"proxy", "direct"} = {"proxy"} \cup {"direct"}
  OBVIOUS
<1>3. IsFiniteSet(S)
  BY <1>1, <1>2, FS_Subset
<1>. QED
  BY <1>3, FS_CardinalityType

\* A TCP dial that starts no later than the dialCtx deadline ends by it, and
\* one that starts at 0 and does not black-hole ends at 1.
LEMMA DialEndBound ==
    ASSUME NEW o \in {"ok", "refused", "blackhole"}, now \in 0..DialDeadline
    PROVE  /\ DialEnd(o) \in 0..DialDeadline
           /\ (now = 0 /\ o # "blackhole") => DialEnd(o) = 1
           /\ now < DialDeadline => (DialSucceeds(o) <=> o = "ok")
<1>1. DialDeadline = Timeout /\ Timeout \in Nat /\ Timeout >= 1
  BY DialConstFacts
<1>. QED
  BY <1>1 DEF DialEnd, DialSucceeds

(***************************************************************************)
(* IInv is inductive.                                                      *)
(***************************************************************************)

\* The invariant holds in the initial state: no call has started.
LEMMA InitIInv == Init => IInv
<1> SUFFICES ASSUME Init PROVE IInv
  OBVIOUS
<1>0. now = 0 /\ tlsDeadline = 0 /\ dials = 0 /\ leaked = 0
  BY DEF Init
<1>1. /\ now \in 0..(2 * Timeout) /\ tlsDeadline \in 0..(2 * Timeout)
      /\ dials \in 0..MaxDials /\ leaked \in Nat
  BY <1>0, DialConstFacts
<1>2. DialTypeOK
  BY <1>1, Zenon DEF Init, DialTypeOK, TcpOutcomes
<1>3. ClockInv
  BY DEF Init, ClockInv
<1>. QED
  BY <1>2, <1>3 DEF IInv

\* A call starts: the clock is back at 0 and nothing is returned yet.
LEMMA CallStep ==
    ASSUME IInv, CallDialEdge
    PROVE  IInv'
<1>1. /\ pc' \in {"proxy", "direct"} /\ now' = 0 /\ result' = "none"
      /\ proxyOutcome' = "none" /\ directOutcome' = "none" /\ tlsDeadline' = 0
      /\ edgeConn' = "none" /\ UNCHANGED <<open, held, leaked>>
  BY Zenon DEF CallDialEdge
<1>2. dials < MaxDials /\ dials' = dials + 1 /\ dials \in 0..MaxDials
  BY Zenon DEF CallDialEdge, IInv, DialTypeOK
<1>6. dials' \in 0..MaxDials
  BY <1>2, DialConstFacts
<1>3. now' \in 0..(2 * Timeout) /\ tlsDeadline' \in 0..(2 * Timeout) /\ 0 < DialDeadline
  BY <1>1, DialConstFacts
<1>4. DialTypeOK'
  BY <1>1, <1>6, <1>3, Zenon DEF IInv, DialTypeOK, TcpOutcomes
<1>5. ClockInv'
  BY <1>1, <1>3, DialConstFacts DEF ClockInv, DialDeadline
<1>. QED
  BY <1>4, <1>5 DEF IInv

\* The SOCKS5 dial starts at 0 and ends by the dialCtx deadline, whether it
\* connects, refuses at some tick or black-holes.
LEMMA ProxyStep ==
    ASSUME IInv, ProxyDial
    PROVE  IInv'
<1>0. /\ pc = "proxy" /\ now = 0 /\ DialTypeOK
      /\ UNCHANGED <<tlsDeadline, result, directOutcome, held, dials, leaked>>
  BY Zenon DEF ProxyDial, IInv, ClockInv
<1>1. CASE ProxyURL = "malformed"
  <2>1. /\ pc' = "direct" /\ proxyOutcome' = "malformed"
        /\ UNCHANGED <<now, edgeConn, open>>
    BY <1>1, Zenon DEF ProxyDial
  <2>2. DialTypeOK'
    BY <1>0, <2>1, Zenon DEF DialTypeOK
  <2>3. ClockInv'
    BY <1>0, <2>1, DialConstFacts DEF ClockInv, DialDeadline
  <2>. QED
    BY <2>2, <2>3 DEF IInv
<1>2. CASE ProxyURL # "malformed"
  <2>1. PICK o \in ProxyResults :
            /\ proxyOutcome' = o
            /\ now' \in ProxyEnds(o)
            /\ IF DialSucceeds(o)
               THEN edgeConn' = "proxy" /\ open' = open \cup {"proxy"} /\ pc' = "tls"
               ELSE pc' = "direct" /\ UNCHANGED <<edgeConn, open>>
    BY <1>2, Zenon DEF ProxyDial
  <2>2. o \in {"ok", "refused", "blackhole"} /\ DialEnd(o) \in 0..DialDeadline
    BY <1>0, <2>1, DialEndBound, DialConstFacts
  <2>3. now' \in 0..DialDeadline
    BY <1>0, <2>1, <2>2 DEF ProxyEnds
  <2>4. now' \in 0..(2 * Timeout) /\ now' <= DialDeadline
    BY <2>3, DialConstFacts
  <2>5. pc' \in {"tls", "direct"} /\ edgeConn' \in {"none", "proxy", "direct"}
        /\ open' \subseteq {"proxy", "direct"}
    BY <1>0, <2>1 DEF DialTypeOK
  <2>6. DialTypeOK'
    BY <1>0, <2>1, <2>2, <2>4, <2>5, Zenon DEF DialTypeOK, TcpOutcomes
  <2>7. ClockInv'
    BY <2>4, <2>5 DEF ClockInv
  <2>. QED
    BY <2>6, <2>7 DEF IInv
<1>. QED
  BY <1>1, <1>2

\* The direct dial ends by the deadline, or fails at once on an expired
\* dialCtx.
LEMMA DirectStep ==
    ASSUME IInv, DirectDial
    PROVE  IInv'
<1>0. /\ pc = "direct" /\ DialTypeOK /\ now <= DialDeadline
      /\ UNCHANGED <<tlsDeadline, proxyOutcome, held, dials>>
  BY Zenon DEF DirectDial, IInv, ClockInv
<1>1. now \in 0..DialDeadline /\ DialDeadline = Timeout /\ Timeout \in Nat
  BY <1>0, DialConstFacts DEF DialTypeOK
<1>2. PICK o \in DirectResults :
        /\ directOutcome' = IF now >= DialDeadline THEN "expired" ELSE o
        /\ IF now < DialDeadline /\ DialSucceeds(o)
           THEN /\ now' = DialEnd(o)
                /\ edgeConn' = "direct" /\ open' = open \cup {"direct"} /\ pc' = "tls"
                /\ UNCHANGED <<result, leaked>>
           ELSE /\ now' = IF now >= DialDeadline THEN now ELSE DialEnd(o)
                /\ ReturnError("dialError")
                /\ UNCHANGED edgeConn
  BY Zenon DEF DirectDial
<1>3. o \in {"ok", "refused", "blackhole"} /\ DialEnd(o) \in 0..DialDeadline
  BY <1>1, DialEndBound, DialConstFacts
<1>7. directOutcome' \in {"none", "expired", "ok", "refused", "blackhole"}
  BY <1>2, <1>3, Zenon
<1>4. CASE now < DialDeadline /\ DialSucceeds(o)
  <2>1. /\ now' = DialEnd(o)
        /\ edgeConn' = "direct" /\ open' = open \cup {"direct"} /\ pc' = "tls"
        /\ UNCHANGED <<result, leaked>>
    BY <1>2, <1>4, Zenon
  <2>2. now' \in 0..(2 * Timeout) /\ now' <= DialDeadline
    BY <1>1, <1>3, <2>1
  <2>3. DialTypeOK'
    BY <1>0, <1>7, <2>1, <2>2, Zenon DEF DialTypeOK, TcpOutcomes
  <2>4. ClockInv'
    BY <2>1, <2>2 DEF ClockInv
  <2>. QED
    BY <2>3, <2>4 DEF IInv
<1>5. CASE ~(now < DialDeadline /\ DialSucceeds(o))
  <2>1. /\ now' = IF now >= DialDeadline THEN now ELSE DialEnd(o)
        /\ result' = "dialError" /\ pc' = "returned" /\ open' = {}
        /\ leaked' = leaked + Cardinality(open)
        /\ UNCHANGED edgeConn
    BY <1>2, <1>5, Zenon DEF ReturnError
  <2>2. now' \in 0..(2 * Timeout) /\ now' <= DialDeadline + Timeout
    BY <1>1, <1>3, <2>1
  <2>3. leaked' \in Nat
    BY <1>0, <2>1, OpenCard DEF DialTypeOK
  <2>5. DialTypeOK'
    BY <1>0, <1>7, <2>1, <2>2, <2>3, Zenon DEF DialTypeOK, TcpOutcomes
  <2>6. ClockInv'
    BY <2>1, <2>2 DEF ClockInv
  <2>. QED
    BY <2>5, <2>6 DEF IInv
<1>. QED
  BY <1>4, <1>5 DEF IInv

\* The handshake starts by the dialCtx deadline and takes at most one more
\* Timeout; it returns a connection or a TLS error, never a dial error.
LEMMA TlsStep ==
    ASSUME IInv, TlsHandshake
    PROVE  IInv'
<1>0. /\ pc = "tls" /\ DialTypeOK /\ now <= DialDeadline
      /\ UNCHANGED <<edgeConn, directOutcome, proxyOutcome, dials>>
  BY Zenon DEF TlsHandshake, IInv, ClockInv
<1>1. now \in 0..DialDeadline /\ DialDeadline = Timeout /\ Timeout \in Nat /\ Timeout >= 1
  BY <1>0, DialConstFacts DEF DialTypeOK
<1>2. PICK h \in HandshakeResults :
        IF h = "ok"
        THEN /\ now' = now + 1 /\ tlsDeadline' = 0 /\ result' = "conn"
             /\ pc' = "returned" /\ open' = open \ {edgeConn} /\ held' = TRUE
             /\ UNCHANGED leaked
        ELSE /\ now' = IF h = "stall" THEN now + Timeout ELSE now + 1
             /\ tlsDeadline' = now + Timeout
             /\ ReturnError("tlsError")
             /\ UNCHANGED held
  BY Zenon DEF TlsHandshake
<1>3. /\ now + 1 \in 0..(2 * Timeout) /\ now + 1 <= DialDeadline + Timeout
      /\ now + Timeout \in 0..(2 * Timeout) /\ now + Timeout <= DialDeadline + Timeout
  BY <1>1
<1>4. CASE h = "ok"
  <2>1. /\ now' = now + 1 /\ tlsDeadline' = 0 /\ result' = "conn"
        /\ pc' = "returned" /\ open' = open \ {edgeConn} /\ held' = TRUE
        /\ UNCHANGED leaked
    BY <1>2, <1>4, Zenon
  <2>2. tlsDeadline' \in 0..(2 * Timeout)
    BY <1>1, <2>1
  <2>3. DialTypeOK'
    BY <1>0, <1>3, <2>1, <2>2, Zenon DEF DialTypeOK
  <2>4. ClockInv'
    BY <1>3, <2>1 DEF ClockInv
  <2>. QED
    BY <2>3, <2>4 DEF IInv
<1>5. CASE h # "ok"
  <2>1. /\ now' \in {now + 1, now + Timeout} /\ tlsDeadline' = now + Timeout
        /\ result' = "tlsError" /\ pc' = "returned" /\ open' = {}
        /\ leaked' = leaked + Cardinality(open) /\ UNCHANGED held
    BY <1>2, <1>5, Zenon DEF ReturnError
  <2>2. /\ now' \in 0..(2 * Timeout) /\ now' <= DialDeadline + Timeout
        /\ tlsDeadline' \in 0..(2 * Timeout)
    BY <1>3, <2>1
  <2>3. leaked' \in Nat
    BY <1>0, <2>1, OpenCard DEF DialTypeOK
  <2>4. DialTypeOK'
    BY <1>0, <2>1, <2>2, <2>3, Zenon DEF DialTypeOK
  <2>5. ClockInv'
    BY <2>1, <2>2 DEF ClockInv
  <2>. QED
    BY <2>4, <2>5 DEF IInv
<1>. QED
  BY <1>4, <1>5

\* serveHTTP2 only gives up the held connection and may count it leaked.
LEMMA ServeStep ==
    ASSUME IInv, ServeHTTP2
    PROVE  IInv'
<1>1. /\ held' = FALSE
      /\ leaked' \in {leaked, leaked + 1}
      /\ UNCHANGED <<pc, now, edgeConn, open, tlsDeadline, result, directOutcome,
                     proxyOutcome, dials>>
  BY Zenon DEF ServeHTTP2
<1>2. leaked' \in Nat
  BY <1>1 DEF IInv, DialTypeOK
<1>3. DialTypeOK'
  BY <1>1, <1>2, Zenon DEF IInv, DialTypeOK
<1>4. ClockInv'
  BY <1>1 DEF IInv, ClockInv
<1>. QED
  BY <1>3, <1>4 DEF IInv

\* A step of DialNext, or a step that leaves every variable alone, keeps
\* the invariant.
LEMMA NextIInv == IInv /\ [DialNext]_dialVars => IInv'
<1> SUFFICES ASSUME IInv, [DialNext]_dialVars PROVE IInv'
  OBVIOUS
<1>1. CASE CallDialEdge
  BY <1>1, CallStep
<1>2. CASE ProxyDial
  BY <1>2, ProxyStep
<1>3. CASE DirectDial
  BY <1>3, DirectStep
<1>4. CASE TlsHandshake
  BY <1>4, TlsStep
<1>5. CASE ServeHTTP2
  BY <1>5, ServeStep
<1>6. CASE DialsExhausted \/ UNCHANGED dialVars
  <2>1. UNCHANGED dialVars
    BY <1>6 DEF DialsExhausted
  <2>. QED
    BY <2>1 DEF dialVars, IInv, DialTypeOK, ClockInv, DialDeadline, TcpOutcomes
<1>. QED
  BY <1>1, <1>2, <1>3, <1>4, <1>5, <1>6 DEF DialNext

(***************************************************************************)
(* Theorems.                                                               *)
(***************************************************************************)

\* Every reachable state of DialEdge and its caller is well typed.
THEOREM DialTypeCorrect == DialSpec => []DialTypeOK
<1>1. IInv => DialTypeOK
  BY DEF IInv
<1>. QED
  BY InitIInv, NextIInv, <1>1, PTL DEF DialSpec

\* DialEdge returns within the dialCtx deadline plus one handshake
\* Timeout, whatever the proxy and the network do (DialEdgeBounded).
THEOREM DialEdgeBoundedCorrect == DialSpec => []DialEdgeBounded
<1>1. IInv => DialEdgeBounded
  BY DEF IInv, ClockInv, DialEdgeBounded
<1>. QED
  BY InitIInv, NextIInv, <1>1, PTL DEF DialSpec

(***************************************************************************)
(* With no proxy URL, DialEdge implements the legacy direct-only dialer.   *)
(***************************************************************************)

\* EdgeProxyURL unset.  Kept as a named predicate: the proofs expand it only
\* in the steps that need it.
NoProxyURL == ProxyURL = ""

\* With no proxy URL no call is ever in the proxy branch, and the direct
\* dial starts at the beginning of the call.
NoProxyInv ==
    /\ pc # "proxy"
    /\ pc = "direct" => now = 0

LInv == IInv /\ NoProxyInv

\* The invariant holds initially.
LEMMA NoProxyInit == Init => NoProxyInv
  BY DEF Init, NoProxyInv

\* Every step keeps it when no proxy URL is set.
LEMMA NoProxyNext ==
    ASSUME NoProxyURL, IInv, NoProxyInv, [DialNext]_dialVars
    PROVE  NoProxyInv'
<1>1. CASE CallDialEdge
  <2>1. pc' = "direct" /\ now' = 0
    BY <1>1, Zenon DEF CallDialEdge, NoProxyURL
  <2>. QED
    BY <2>1 DEF NoProxyInv
<1>2. CASE ProxyDial
  BY <1>2 DEF ProxyDial, NoProxyInv
<1>3. CASE DirectDial
  <2>1. pc' \in {"tls", "returned"}
    BY <1>3, Zenon DEF DirectDial, ReturnError
  <2>. QED
    BY <2>1 DEF NoProxyInv
<1>4. CASE TlsHandshake
  <2>1. pc' = "returned"
    BY <1>4, Zenon DEF TlsHandshake, ReturnError
  <2>. QED
    BY <2>1 DEF NoProxyInv
<1>5. CASE ServeHTTP2 \/ DialsExhausted \/ UNCHANGED dialVars
  <2>1. UNCHANGED <<pc, now>>
    BY <1>5 DEF ServeHTTP2, DialsExhausted, dialVars
  <2>. QED
    BY <2>1 DEF NoProxyInv
<1>. QED
  BY <1>1, <1>2, <1>3, <1>4, <1>5 DEF DialNext

\* Under the refinement mapping every step of DialEdge and its caller is a
\* step of the legacy dialer or leaves its variables alone.
LEMMA LegacyStep ==
    ASSUME NoProxyURL, IInv, NoProxyInv, NoProxyInv', [DialNext]_dialVars
    PROVE  [Legacy!LegacyNext]_Legacy!legacyVars
<1>0. /\ DialTypeOK /\ DialDeadline = Timeout /\ Timeout \in Nat /\ Timeout >= 1
      /\ pc # "proxy" /\ pc' # "proxy"
  BY DialConstFacts DEF IInv, NoProxyInv
<1>1. CASE CallDialEdge
  <2>1. /\ pc \in {"idle", "returned"} /\ pc' = "direct"
        /\ dials < MaxDials /\ dials' = dials + 1 /\ now' = 0 /\ result' = "none"
    BY <1>1, Zenon DEF CallDialEdge, NoProxyURL
  <2>2. Legacy!LegacyCall
    BY <2>1 DEF Legacy!LegacyCall
  <2>. QED
    BY <2>2 DEF Legacy!LegacyNext
<1>2. CASE ProxyDial
  BY <1>0, <1>2 DEF ProxyDial
<1>3. CASE DirectDial
  <2>1. pc = "direct" /\ now = 0 /\ UNCHANGED dials
    BY <1>3, Zenon DEF DirectDial, NoProxyInv
  <2>2. PICK o \in DirectResults :
          IF now < DialDeadline /\ DialSucceeds(o)
          THEN /\ now' = DialEnd(o) /\ pc' = "tls" /\ UNCHANGED result
          ELSE /\ now' = IF now >= DialDeadline THEN now ELSE DialEnd(o)
               /\ result' = "dialError" /\ pc' = "returned"
    BY <1>3, Zenon DEF DirectDial, ReturnError
  <2>3. /\ o \in {"ok", "refused", "blackhole"}
        /\ now < DialDeadline /\ ~(now >= DialDeadline)
        /\ DialEnd(o) = IF o = "blackhole" THEN Timeout ELSE now + 1
        /\ DialSucceeds(o) <=> o = "ok"
    BY <1>0, <2>1, DialConstFacts DEF DialEnd, DialSucceeds
  <2>4. CASE o = "ok"
    <3>1. now' = now + 1 /\ pc' = "tls" /\ UNCHANGED result
      BY <2>2, <2>3, <2>4
    <3>2. Legacy!LegacyDirect
      BY <2>1, <2>4, <3>1 DEF Legacy!LegacyDirect
    <3>. QED
      BY <3>2 DEF Legacy!LegacyNext
  <2>5. CASE o # "ok"
    <3>1. /\ now' = IF o = "blackhole" THEN Timeout ELSE now + 1
          /\ result' = "dialError" /\ pc' = "returned"
      BY <2>2, <2>3, <2>5
    <3>2. Legacy!LegacyDirect
      BY <2>1, <2>5, <3>1 DEF Legacy!LegacyDirect
    <3>. QED
      BY <3>2 DEF Legacy!LegacyNext
  <2>. QED
    BY <2>4, <2>5
<1>4. CASE TlsHandshake
  <2>1. pc = "tls" /\ UNCHANGED dials
    BY <1>4, Zenon DEF TlsHandshake
  <2>2. PICK h \in HandshakeResults :
          /\ now' = IF h = "stall" THEN now + Timeout ELSE now + 1
          /\ result' = IF h = "ok" THEN "conn" ELSE "tlsError"
          /\ pc' = "returned"
    BY <1>4, Zenon DEF TlsHandshake, ReturnError
  <2>3. Legacy!LegacyHandshake
    BY <2>1, <2>2 DEF Legacy!LegacyHandshake
  <2>. QED
    BY <2>3 DEF Legacy!LegacyNext
<1>5. CASE ServeHTTP2 \/ DialsExhausted \/ UNCHANGED dialVars
  <2>1. UNCHANGED <<pc, now, result, dials>>
    BY <1>5 DEF ServeHTTP2, DialsExhausted, dialVars
  <2>. QED
    BY <2>1 DEF Legacy!legacyVars
<1>. QED
  BY <1>1, <1>2, <1>3, <1>4, <1>5 DEF DialNext

\* Spec 8: with EdgeProxyURL unset, DialEdgeWithProxy behaves exactly like
\* the legacy direct-only dialer (ImplementsLegacy), for every Timeout and
\* every network behaviour.
THEOREM ImplementsLegacyCorrect ==
    ASSUME NoProxyURL
    PROVE  DialSpec => ImplementsLegacy
<1>1. Init => Legacy!LegacyInit
  BY DEF Init, Legacy!LegacyInit
<1>2. Init => LInv
  BY InitIInv, NoProxyInit DEF LInv
<1>3. LInv /\ [DialNext]_dialVars => LInv'
  BY NoProxyNext, NextIInv DEF LInv
<1>4. LInv /\ LInv' /\ [DialNext]_dialVars => [Legacy!LegacyNext]_Legacy!legacyVars
  BY LegacyStep DEF LInv
<1>. QED
  BY <1>1, <1>2, <1>3, <1>4, PTL DEF DialSpec, ImplementsLegacy, Legacy!LegacySpec

=============================================================================
