------------------------------ MODULE Context ------------------------------
(***************************************************************************)
(* Package context of the GoScript runtime, gs/context/context.ts.         *)
(*                                                                         *)
(* Every exported function runs without interruption, so each is one       *)
(* action; what interleaves are the calls of the program, the host timers  *)
(* of deadlines, and the async functions that wait for a Done channel      *)
(* (watchParentDone, AfterFunc).  Those continue at some point after the   *)
(* channel is closed: that a receiver of a closed channel continues is     *)
(* ServedContinues of module Channel.                                      *)
(*                                                                         *)
(* Context 0 is Background; contexts are numbered in order of creation.    *)
(* Time is counted in whole units, and MaxDelay stands for the largest     *)
(* delay setTimeout accepts (2^31 - 1 ms).                                 *)
(***************************************************************************)
EXTENDS Naturals, FiniteSets

CONSTANTS MaxCtx,    \* bound: contexts a program creates
          MaxTime,   \* bound: the clock stops here
          MaxDelay,  \* the longest delay of a host timer
          Deadlines, \* the deadlines programs ask for
          Handles,   \* the AfterFunc calls of the program
          Null

ASSUME ContextAssumption ==
  /\ MaxCtx \in Nat /\ MaxTime \in Nat /\ MaxDelay \in Nat \ {0}
  /\ Deadlines \subseteq Nat /\ Null \notin Nat
  /\ Null \notin {"Canceled", "DeadlineExceeded", "custom", "why"}

VARIABLES
  now,    \* the clock
  ctx,    \* the contexts created so far
  after   \* the AfterFunc registrations

vars == <<now, ctx, after>>

Off == Null
NewErrs == {"Canceled", "DeadlineExceeded", "custom"}
Times == Deadlines \cup 0..(MaxTime + MaxDelay)

Context ==
  [kind     : {"background", "value", "cancel", "timer", "detached", "custom"},
   parent   : 0..MaxCtx,
   err      : NewErrs \cup {Null},
   cause    : {Null, "why"},
   children : SUBSET (1..MaxCtx),
   owner    : 0..MaxCtx \cup {Null},    \* parentCancelCtx
   linked   : BOOLEAN,                  \* removeFromParent is set
   watch    : {"no", "waiting", "over"},
   deadline : Times \cup {Null},
   timer    : Times \cup {Off}]

AfterState == {"unused", "waiting", "stopped", "queued", "ran"}

ContextTypeOK ==
  /\ now \in 0..MaxTime
  /\ DOMAIN ctx \in {0..n : n \in 0..MaxCtx}
  /\ \A c \in DOMAIN ctx : ctx[c] \in Context
  /\ after \in [Handles -> [st : AfterState, on : 0..MaxCtx, told : BOOLEAN]]

NewContext(kind, p) ==
  [kind |-> kind, parent |-> p, err |-> Null, cause |-> Null, children |-> {},
   owner |-> Null, linked |-> FALSE, watch |-> "no", deadline |-> Null,
   timer |-> Off]

Init ==
  /\ now = 0
  /\ ctx = [c \in {0} |-> NewContext("background", 0)]
  /\ after = [a \in Handles |-> [st |-> "unused", on |-> 0, told |-> FALSE]]

-----------------------------------------------------------------------------
(* The context tree.  s is the function of contexts an operation works on. *)

Live(s, c) == s[c].err = Null
IsCancelCtx(s, c) == s[c].kind \in {"cancel", "timer"}

\* Skip the value contexts above and including p.
Unwrap(s, p) ==
  LET up[x \in DOMAIN s] == IF s[x].kind = "value" THEN up[s[x].parent] ELSE x
  IN  up[p]

\* Err() and the closed state of Done(), which value contexts delegate and
\* Background and WithoutCancel contexts never set.
Err(s, p) == s[Unwrap(s, p)].err
DoneClosed(s, p) == Err(s, p) # Null

Deadline(s, p) ==
  LET up[x \in DOMAIN s] ==
        IF s[x].kind \in {"value", "cancel"} THEN up[s[x].parent]
        ELSE IF s[x].kind = "timer" THEN s[x].deadline ELSE Null
  IN  up[p]

\* The contexts on which cancel() of c has an effect: c and, through the
\* children sets, everything below it that is not cancelled yet.
Reached(s, c) ==
  LET live == {d \in DOMAIN s : d # c /\ Live(s, d)}
  IN  {c} \cup {d \in live : \A R \in SUBSET live :
                  (\A x \in R \cup {c} : s[x].children \cap live \subseteq R) => d \in R}

\* Mutant: the children are cancelled without the cause.
CancelWithoutCause(s, c, remove, e, cause) ==
  LET hit == IF Live(s, c) THEN Reached(s, c) ELSE {}
      up  == IF hit # {} /\ remove /\ s[c].linked THEN s[c].owner ELSE Null
  IN [x \in DOMAIN s |->
       IF x \in hit
       THEN [s[x] EXCEPT !.err = e, !.cause = IF x = c THEN cause ELSE Null,
                         !.children = {}, !.timer = Off,
                         !.linked = IF x = c /\ up # Null THEN FALSE ELSE @]
       ELSE [s[x] EXCEPT !.children = IF x = up THEN @ \ {c} ELSE @]]

\* cancelContext.cancel, and timerContext.cancel, which clears the timer even
\* when the context was cancelled before.
Cancel(s, c, remove, e, cause) ==
  LET hit == IF Live(s, c) THEN Reached(s, c) ELSE {}
      up  == IF hit # {} /\ remove /\ s[c].linked THEN s[c].owner ELSE Null
  IN [x \in DOMAIN s |->
       IF x \in hit
       THEN [s[x] EXCEPT !.err = e, !.cause = cause, !.children = {},
                         !.timer = Off,
                         !.linked = IF x = c /\ up # Null THEN FALSE ELSE @]
       ELSE [s[x] EXCEPT !.children = IF x = up THEN @ \ {c} ELSE @,
                         !.timer = IF x = c THEN Off ELSE @]]

\* Mutant: a parent that is cancelled already is joined all the same.
PropagateToDeadParent(s, c) ==
  LET p == Unwrap(s, s[c].parent) IN
  IF IsCancelCtx(s, p)
  THEN [s EXCEPT ![c].owner = p, ![c].linked = TRUE,
                 ![p].children = @ \cup {c}]
  ELSE [s EXCEPT ![c].watch = "waiting"]

\* Register with the nearest cancelContext, or watch the parent's Done.
PropagateCancel(s, c) ==
  LET p == Unwrap(s, s[c].parent) IN
  IF IsCancelCtx(s, p)
  THEN IF Live(s, p)
       THEN [s EXCEPT ![c].owner = p, ![c].linked = TRUE,
                      ![p].children = @ \cup {c}]
       ELSE Cancel([s EXCEPT ![c].owner = p], c, FALSE, s[p].err, s[p].cause)
  ELSE [s EXCEPT ![c].watch = "waiting"]

\* The host runs a timer of more than the longest delay at once.
HostDelay(d) == IF d > MaxDelay THEN 0 ELSE d

\* Mutant: no timer is started and nothing is cancelled when the deadline has
\* passed already.
StartTimerLate(s, c) ==
  IF s[c].deadline <= now THEN s
  ELSE [s EXCEPT ![c].timer = now + HostDelay(s[c].deadline - now)]

StartTimer(s, c) ==
  IF s[c].deadline <= now
  THEN Cancel(s, c, TRUE, "DeadlineExceeded", Null)
  ELSE [s EXCEPT ![c].timer = now + HostDelay(s[c].deadline - now)]

-----------------------------------------------------------------------------
(* The exported functions. *)

Fresh == Cardinality(DOMAIN ctx)

\* The contexts after an append of a new one.
With(new) == [c \in 0..Fresh |-> IF c = Fresh THEN new ELSE ctx[c]]

CanCreate(p) == p \in DOMAIN ctx /\ Fresh <= MaxCtx

\* Bound: a context that cannot be cancelled is not the last one.
CanWrap(p) == p \in DOMAIN ctx /\ Fresh < MaxCtx

\* WithCancel, and WithCancelCause, whose function takes the cause.
WithCancel(p) ==
  /\ CanCreate(p)
  /\ ctx' = PropagateCancel(With(NewContext("cancel", p)), Fresh)
  /\ UNCHANGED <<now, after>>

\* Mutant: the parent's deadline is not asked for.
WithDeadlineIgnoresParent(p, d) ==
  /\ CanCreate(p)
  /\ LET new == [NewContext("timer", p) EXCEPT !.deadline = d]
     IN ctx' = StartTimer(PropagateCancel(With(new), Fresh), Fresh)
  /\ UNCHANGED <<now, after>>

\* WithDeadline, WithDeadlineCause, WithTimeout and WithTimeoutCause.
WithDeadline(p, d) ==
  /\ CanCreate(p)
  /\ Deadline(ctx, p) # Null => d < Deadline(ctx, p)
  /\ LET new == [NewContext("timer", p) EXCEPT !.deadline = d]
     IN ctx' = StartTimer(PropagateCancel(With(new), Fresh), Fresh)
  /\ UNCHANGED <<now, after>>

\* A parent with an earlier deadline makes it WithCancel(parent).
WithLaterDeadline(p, d) ==
  /\ Deadline(ctx, p) # Null /\ Deadline(ctx, p) <= d
  /\ WithCancel(p)

WithValue(p) ==
  /\ CanWrap(p)
  /\ ctx' = With(NewContext("value", p))
  /\ UNCHANGED <<now, after>>

WithoutCancel(p) ==
  /\ CanWrap(p)
  /\ ctx' = With(NewContext("detached", p))
  /\ UNCHANGED <<now, after>>

\* A context type of the program: its Done channel is its own affair.
NewCustom ==
  /\ CanWrap(0)
  /\ ctx' = With(NewContext("custom", 0))
  /\ UNCHANGED <<now, after>>

CustomDone(c) ==
  /\ ctx[c].kind = "custom" /\ Live(ctx, c)
  /\ ctx' = [ctx EXCEPT ![c].err = "custom"]
  /\ UNCHANGED <<now, after>>

\* A call of the CancelFunc or CancelCauseFunc, possibly not the first.  The
\* cause is the argument of the call, or the one given to WithDeadlineCause,
\* or none; only the first call has an effect, so it may be chosen here.
CallCancel(c, cause) ==
  /\ IsCancelCtx(ctx, c)
  /\ ctx' = Cancel(ctx, c, TRUE, "Canceled", cause)
  /\ UNCHANGED <<now, after>>

-----------------------------------------------------------------------------
(* What the event loop does. *)

Tick ==
  /\ now < MaxTime
  /\ now' = now + 1
  /\ UNCHANGED <<ctx, after>>

TimerFires(c) ==
  /\ ctx[c].timer # Off /\ ctx[c].timer <= now
  /\ ctx' = Cancel(ctx, c, TRUE, "DeadlineExceeded", Null)
  /\ UNCHANGED <<now, after>>

\* The continuation of watchParentDone.
WatcherWakes(c) ==
  /\ ctx[c].watch = "waiting"
  /\ DoneClosed(ctx, ctx[c].parent)
  /\ LET s == [ctx EXCEPT ![c].watch = "over"] IN
     ctx' = IF Live(s, c)
            THEN Cancel(s, c, FALSE, Err(s, s[c].parent), Null) ELSE s
  /\ UNCHANGED <<now, after>>

-----------------------------------------------------------------------------
(* AfterFunc. *)

\* Bound: it is called on the last context only (a context created later does
\* not change the one f waits for).
AfterFunc(a, c) ==
  /\ after[a].st = "unused" /\ c = MaxCtx
  /\ after' = [after EXCEPT ![a].st = "waiting", ![a].on = c]
  /\ UNCHANGED <<now, ctx>>

\* The receive on Done() returned: done = true, unless stopped is set, and f
\* is queued.
AfterWakes(a) ==
  /\ after[a].st = "waiting"
  /\ DoneClosed(ctx, after[a].on)
  /\ after' = [after EXCEPT ![a].st = "queued"]
  /\ UNCHANGED <<now, ctx>>

AfterRuns(a) ==
  /\ after[a].st = "queued"
  /\ after' = [after EXCEPT ![a].st = "ran"]
  /\ UNCHANGED <<now, ctx>>

\* Mutant: stop() answers true without a look at done.
StopAlways(a) ==
  /\ after[a].st # "unused"
  /\ after' = [after EXCEPT ![a].told = TRUE,
                            ![a].st = IF @ = "waiting" THEN "stopped" ELSE @]
  /\ UNCHANGED <<now, ctx>>

\* stop() sets stopped and answers true until done is set.
Stop(a) ==
  /\ after[a].st # "unused"
  /\ after' = IF after[a].st \in {"waiting", "stopped"}
              THEN [after EXCEPT ![a].st = "stopped", ![a].told = TRUE]
              ELSE after
  /\ UNCHANGED <<now, ctx>>

-----------------------------------------------------------------------------
Create(p) ==
  \/ WithCancel(p) \/ WithValue(p) \/ WithoutCancel(p)
  \/ \E d \in Deadlines : WithDeadline(p, d) \/ WithLaterDeadline(p, d)

Next ==
  \/ \E p \in DOMAIN ctx : Create(p)
  \/ NewCustom
  \/ \E c \in DOMAIN ctx :
       \/ CustomDone(c) \/ TimerFires(c) \/ WatcherWakes(c)
       \/ \E cause \in {Null, "why"} : CallCancel(c, cause)
       \/ \E a \in Handles : AfterFunc(a, c)
  \/ \E a \in Handles : AfterWakes(a) \/ AfterRuns(a) \/ Stop(a)
  \/ Tick

Spec == Init /\ [][Next]_vars

\* The event loop runs what is due or ready, in any order, as long as there is
\* something: each timer, watcher and function runs once.
EventLoop ==
  \/ \E c \in DOMAIN ctx : TimerFires(c) \/ WatcherWakes(c)
  \/ \E a \in Handles : AfterWakes(a) \/ AfterRuns(a)

Fairness == WF_vars(EventLoop)

FairSpec == Spec /\ Fairness

-----------------------------------------------------------------------------
(* Properties. *)

\* The children set of a context is exactly its live registered descendants,
\* and no cancelled context has a live one below it: a cancellation reaches
\* the whole tree, whatever was created, cancelled or expired before, and no
\* ended context is kept by its parent.
TreeConsistent ==
  ContextTypeOK /\ \A p \in DOMAIN ctx : IsCancelCtx(ctx, p) =>
    LET below == {c \in DOMAIN ctx : ctx[c].owner = p} IN
    /\ ctx[p].children = {c \in below : Live(ctx, c)}
    /\ ~Live(ctx, p) => \A c \in below : ~Live(ctx, c)

\* A context that a step cancels is either where that cancellation starts or
\* has the error and the cause of the context it is registered with.
CauseInherited ==
  [][\A c \in DOMAIN ctx' :
       /\ ctx'[c].err # Null
       /\ c \in DOMAIN ctx => Live(ctx, c)
       /\ ctx'[c].owner # Null
       => LET p == ctx'[c].owner IN
          ctx'[p].err = Null
            \/ /\ ctx'[c].err = ctx'[p].err
               /\ ctx'[c].cause = ctx'[p].cause]_vars

\* The deadlines that bind c: its own and those above it, up to a context
\* that is not a cancelContext.
Binding(s, c) ==
  LET up[x \in DOMAIN s] ==
        IF s[x].kind \notin {"value", "cancel", "timer"} THEN {}
        ELSE up[s[x].parent] \cup
               (IF s[x].kind = "timer" THEN {s[x].deadline} ELSE {})
  IN  up[c]

\* Nothing reports DeadlineExceeded before a deadline that binds it, as long
\* as no deadline is farther away than the host's longest delay; and
\* Deadline() is the earliest of them.
DeadlineExact ==
  \A c \in DOMAIN ctx :
    /\ ctx[c].err = "DeadlineExceeded" =>
         \E d \in Binding(ctx, c) : d <= now \/ d > MaxDelay
    /\ IsCancelCtx(ctx, c) =>
         IF Binding(ctx, c) = {} THEN Deadline(ctx, c) = Null
         ELSE /\ Deadline(ctx, c) \in Binding(ctx, c)
              /\ \A d \in Binding(ctx, c) : Deadline(ctx, c) <= d

\* stop() = true is final: f has not run and never runs; and f runs only
\* after the context is done.
StopIsFinal ==
  \A a \in Handles :
    /\ after[a].told => after[a].st = "stopped"
    /\ after[a].st \in {"queued", "ran"} => DoneClosed(ctx, after[a].on)

\* A context ends when a deadline above it has passed or the context it
\* watches is done, and a function that was not stopped runs.
CancellationArrives ==
  /\ \A c \in 1..MaxCtx :
       (c \in DOMAIN ctx /\ IsCancelCtx(ctx, c)
          /\ \/ \E d \in Binding(ctx, c) : d <= now
             \/ DoneClosed(ctx, ctx[c].parent))
         ~> (c \in DOMAIN ctx /\ ~Live(ctx, c))
  /\ \A a \in Handles :
       (after[a].st = "waiting" /\ DoneClosed(ctx, after[a].on))
         ~> after[a].st \in {"ran", "stopped"}
=============================================================================
