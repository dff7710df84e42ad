-------------------------- MODULE ProtocolFallback --------------------------
(***************************************************************************)
(* The protocolFallback of one connection index (supervisor.go 886-959)   *)
(* as an object with its own state: the embedded BackoffHandler's retry    *)
(* counter, the protocol and the inFallback flag.  Its steps are the ways  *)
(* the code may change that state: reset() on a registration, a            *)
(* BackoffTimer that counts one more retry, optionally followed by         *)
(* selectNextProtocol either following the selector (not in fallback) or   *)
(* switching once to the selector's fallback through fallback().          *)
(***************************************************************************)
EXTENDS Naturals

CONSTANTS
    Retries,            \* config.Retries: the BackoffHandler's MaxRetries
    SelectorCurrent,    \* ProtocolSelector.Current()
    SelectorFallback    \* ProtocolSelector.Fallback(), or NoFallback

NoFallback == "none"

VARIABLES retries, protocol, inFallback

pfVars == <<retries, protocol, inFallback>>

\* s.tunnelsProtocolFallback[i] = &protocolFallback{BackoffHandler{...},
\* selector.Current(), false}.
PFInit ==
    /\ retries = 0
    /\ protocol = SelectorCurrent
    /\ inFallback = FALSE

\* reset(): ResetNow() clears the retry counter, inFallback is lifted.
PFReset ==
    /\ retries' = 0
    /\ inFallback' = FALSE
    /\ UNCHANGED protocol

\* BackoffTimer() with retryForever counts one more retry up to MaxRetries.
BackoffTimerCount == retries' = IF retries < Retries THEN retries + 1 ELSE retries

\* The timer fired and the protocol is kept: no fallback was asked for, the
\* selector's protocol has connected, selectNextProtocol refused to switch,
\* or the index is in fallback.
PFBackoff ==
    /\ BackoffTimerCount
    /\ UNCHANGED <<protocol, inFallback>>

\* The timer fired and selectNextProtocol's else branch refreshed the
\* protocol of an index that is not in fallback from selector.Current().
PFBackoffFollow ==
    /\ BackoffTimerCount
    /\ ~inFallback
    /\ protocol' = SelectorCurrent
    /\ UNCHANGED inFallback

\* The timer fired and selectNextProtocol called fallback(alt): there is an
\* alternative and the index is not on it yet; ResetNow() clears the count.
PFFallback ==
    /\ SelectorFallback # NoFallback
    /\ protocol # SelectorFallback
    /\ retries' = 0
    /\ protocol' = SelectorFallback
    /\ inFallback' = TRUE

PFNext == PFReset \/ PFBackoff \/ PFBackoffFollow \/ PFFallback

PFSpec == PFInit /\ [][PFNext]_pfVars
=============================================================================
