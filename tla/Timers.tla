------------------------------- MODULE Timers -------------------------------
(***************************************************************************)
(* Timer, Ticker, After, AfterFunc and Sleep of gs/time/time.ts over the   *)
(* host's setTimeout and setInterval.  The channel C has capacity one; a   *)
(* callback that finds it full leaves a blocked sender behind (module      *)
(* Channel), which is what its queue holds after the first value.          *)
(***************************************************************************)
EXTENDS Naturals, Sequences, FiniteSets

CONSTANTS Objects,   \* Timers and Tickers of the program
          MaxClock,  \* bound: the clock stops here
          MaxStarts, \* bound: starts of an object
          Delays,    \* durations asked for, in milliseconds
          MaxDelay   \* maxTimerDelayMilliseconds

VARIABLES
  clock,
  tm,     \* the objects
  host    \* host timers: [of, due, period], period 0 for a timeout

timerVars == <<clock, tm, host>>

Kinds == {"timer", "func", "ticker"}
New == [kind |-> "none", id |-> 0, starts |-> 0, queue |-> <<>>, asked |-> 0,
        since |-> 0, stopped |-> FALSE, fired |-> 0, wrong |-> FALSE]

TimersInit ==
  /\ clock = 0
  /\ tm = [o \in Objects |-> New]
  /\ host = {}

TimeoutMilliseconds(d) == IF d > MaxDelay THEN MaxDelay ELSE d

\* start(d): a new host timer, remembered in _timeout or _interval.
Start(o, kind, d) ==
  [of |-> o, id |-> tm[o].starts + 1, due |-> clock + TimeoutMilliseconds(d),
   period |-> IF kind = "ticker" THEN TimeoutMilliseconds(d) ELSE 0]
Started(o, kind, d) ==
  [tm[o] EXCEPT !.kind = kind, !.id = @ + 1, !.starts = @ + 1, !.asked = d,
                !.since = clock, !.stopped = FALSE, !.fired = 0]
\* clearTimeout(this._timeout)
Cleared(o) == {h \in host : ~(h.of = o /\ h.id = tm[o].id)}

\* NewTimer and After, AfterFunc, NewTicker and Tick.  A ticker of no
\* duration is refused by Go and not asked for.
Create(o, kind, d) ==
  /\ tm[o].kind = "none" /\ (kind = "ticker" => d > 0)
  /\ tm' = [tm EXCEPT ![o] = Started(o, kind, d)]
  /\ host' = host \cup {Start(o, kind, d)}
  /\ UNCHANGED clock

Stop(o) ==
  /\ tm[o].kind # "none"
  /\ host' = Cleared(o)
  /\ tm' = [tm EXCEPT ![o].stopped = TRUE]
  /\ UNCHANGED clock

\* Mutant: the old host timer is left running.
ResetOnly(o, d) ==
  /\ tm[o].kind # "none" /\ tm[o].starts < MaxStarts
  /\ tm[o].kind = "ticker" => d > 0
  /\ host' = host \cup {Start(o, tm[o].kind, d)}
  /\ tm' = [tm EXCEPT ![o] = Started(o, tm[o].kind, d)]
  /\ UNCHANGED clock
\* Reset: Stop, then start.
Reset(o, d) ==
  /\ tm[o].kind # "none" /\ tm[o].starts < MaxStarts
  /\ tm[o].kind = "ticker" => d > 0
  /\ host' = Cleared(o) \cup {Start(o, tm[o].kind, d)}
  /\ tm' = [tm EXCEPT ![o] = Started(o, tm[o].kind, d)]
  /\ UNCHANGED clock

\* The host runs a callback: f, or a send of Now() that is not awaited.
\* wrong notes a callback of a stopped object or before its time, where a
\* duration beyond the longest delay counts as that delay.
Fire(h) ==
  LET o == h.of   n == tm[o].fired + 1
      delay == TimeoutMilliseconds(tm[o].asked)
      early == clock < tm[o].since + (IF tm[o].kind = "ticker" THEN n ELSE 1) * delay
  IN
  /\ h.due <= clock
  /\ host' = (host \ {h}) \cup
       (IF h.period = 0 THEN {} ELSE {[h EXCEPT !.due = clock + h.period]})
  /\ tm' = [tm EXCEPT ![o].fired = n,
                      ![o].queue = IF tm[o].kind = "func" THEN @ ELSE Append(@, clock),
                      ![o].wrong = @ \/ tm[o].stopped \/ early
                                     \/ (tm[o].kind # "ticker" /\ n > 1)]
  /\ UNCHANGED clock

Receive(o) ==
  /\ tm[o].queue # <<>>
  /\ tm' = [tm EXCEPT ![o].queue = Tail(@)]
  /\ UNCHANGED <<clock, host>>

Tick ==
  /\ clock < MaxClock /\ \A h \in host : h.due > clock
  /\ clock' = clock + 1
  /\ UNCHANGED <<tm, host>>

TimersNext ==
  \/ \E o \in Objects :
       \/ \E d \in Delays : Reset(o, d) \/ \E k \in Kinds : Create(o, k, d)
       \/ Stop(o) \/ Receive(o)
  \/ \E h \in host : Fire(h)
  \/ Tick
TimersSpec == TimersInit /\ [][TimersNext]_timerVars

-----------------------------------------------------------------------------
\* A callback never runs after Stop, before the duration asked for at the
\* last start (or the longest one the host counts, if that is shorter), or a
\* second time for one start of a Timer; an object has at
\* most the host timer it remembers; and the times on a channel never go back.
FiresWhenDue ==
  /\ \A o \in Objects :
       /\ ~tm[o].wrong
       /\ \A i \in 1..(Len(tm[o].queue) - 1) : tm[o].queue[i] <= tm[o].queue[i + 1]
  /\ \A h \in host : h.id = tm[h.of].id /\ ~tm[h.of].stopped

\* A ticker drops ticks for a slow receiver: its channel never holds back more
\* than the one value of its buffer.
TicksDropped == \A o \in Objects : Len(tm[o].queue) <= 1
=============================================================================
