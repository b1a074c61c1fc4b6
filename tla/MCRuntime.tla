----------------------------- MODULE MCRuntime -----------------------------
(***************************************************************************)
(* The parts of the runtime that depend on the host's timers and promises: *)
(* package context, timers and tickers, and the HTTP client, one at a      *)
(* time.  part says which one the behaviour is about; the variables of the *)
(* others keep their initial values.                                       *)
(***************************************************************************)
EXTENDS Context

CONSTANTS Objects, MaxClock, MaxStarts, Delays, LongestDelay,
          MaxReads

ASSUME TimersAssumption ==
  Delays \subseteq Nat /\ LongestDelay \in Nat \ {0} /\ MaxClock \in Nat /\ MaxStarts \in Nat

VARIABLES
  part,
  clock, tm, host,
  reqCtx, method, closes, rt, rtErr, net, watch, stopped, aborted, winner,
  body, rd, rdWatch, rdWinner, loaded, closed, readErr, reads

T == INSTANCE Timers WITH MaxDelay <- LongestDelay
H == INSTANCE HTTPFetch WITH ctx <- reqCtx

timerVars == <<clock, tm, host>>
fetchVars == <<reqCtx, method, closes, rt, rtErr, net, watch, stopped, aborted, winner,
               body, rd, rdWatch, rdWinner, loaded, closed, readErr, reads>>
runtimeVars == <<part, vars, timerVars, fetchVars>>

\* A part that is not under way has one initial state.
RuntimeInit ==
  /\ part \in {"context", "timers", "fetch"}
  /\ Init /\ T!TimersInit /\ H!FetchInit
  /\ part # "fetch" => method = "GET"

ContextStep == part = "context" /\ Next /\ UNCHANGED <<part, timerVars, fetchVars>>
TimersStep == part = "timers" /\ T!TimersNext /\ UNCHANGED <<part, vars, fetchVars>>
FetchStep == part = "fetch" /\ H!FetchNext /\ UNCHANGED <<part, vars, timerVars>>

RuntimeNext == ContextStep \/ TimersStep \/ FetchStep

\* Nothing of the fairness is asked of a part that is not under way: it has no
\* timer, watcher or promise.
RuntimeSpec ==
  RuntimeInit /\ [][RuntimeNext]_runtimeVars /\ Fairness /\ H!FetchFairness

-----------------------------------------------------------------------------
(* Properties of the parts; those of context come from its module. *)

\* Timers and tickers run their callback when it is due, and not after Stop.
FiresWhenDue == T!FiresWhenDue

\* The HTTP client closes the request's body once, and names the error that
\* ended the request.
RequestReleased == H!RequestReleased

\* A cancelled request or body read returns without the network, and leaves no
\* watcher behind.
CancelledReturns == H!CancelledReturns
=============================================================================
