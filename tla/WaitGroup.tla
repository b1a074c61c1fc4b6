----------------------------- MODULE WaitGroup -----------------------------
(***************************************************************************)
(* sync.WaitGroup of the GoScript runtime, gs/sync/sync.ts.                *)
(*                                                                         *)
(* Goroutines launch tasks and wait for them.  A launch is WaitGroup.Go,   *)
(* which is also what Add(1) followed by a go statement does: the compiler *)
(* lowers the go statement to queueMicrotask, and the task calls Done when *)
(* it ends.  A running task may launch others.  One action is one          *)
(* uninterrupted piece of JavaScript.                                      *)
(*                                                                         *)
(* A program may also call Done once too often.  Add changes the counter   *)
(* before it throws, so a program that recovers goes on with that counter. *)
(***************************************************************************)
EXTENDS Integers, Sequences, FiniteSets, SequencesExt

CONSTANTS G,         \* goroutines that launch and wait
          Tasks,     \* the functions passed to Go
          MaxWaits,  \* bound: Wait calls each goroutine makes
          MaxMisuse  \* bound: calls of Done that no Add has paid for

VARIABLES
  counter,  \* _counter
  waiters,  \* _waiters, as the goroutines whose resolve it holds
  micro,    \* queued microtasks
  task,     \* what each task is doing
  pc,       \* what each goroutine is doing
  waits,    \* number of Wait calls each goroutine has made
  misuse,   \* number of calls of Done that no Add has paid for yet
  awaited   \* history: the tasks that were not done when Wait was called

vars == <<counter, waiters, micro, task, pc, waits, misuse, awaited>>

\* A microtask starts a task, or resolves the waiters of one Add.
Job == [kind : {"start"}, t : Tasks] \cup [kind : {"wake"}, gs : Seq(G)]

WaitGroupTypeOK ==
  /\ counter \in Int
  /\ waiters \in Seq(G)
  /\ micro \in Seq(Job)
  /\ task \in [Tasks -> {"new", "scheduled", "running", "done"}]
  /\ pc \in [G -> {"idle", "waiting", "called"}]
  /\ waits \in [G -> 0..MaxWaits]
  /\ misuse \in 0..MaxMisuse
  /\ awaited \in [G -> SUBSET Tasks]

Init ==
  /\ counter = 0
  /\ waiters = <<>>
  /\ micro = <<>>
  /\ task = [t \in Tasks |-> "new"]
  /\ pc = [g \in G |-> "idle"]
  /\ waits = [g \in G |-> 0]
  /\ misuse = 0
  /\ awaited = [g \in G |-> {}]

-----------------------------------------------------------------------------
StartJob(t) == [kind |-> "start", t |-> t]

WakeJob(gs) == [kind |-> "wake", gs |-> gs]

\* Add(delta); the caller then queues the microtasks then.  Below zero Add
\* throws, with the counter already changed.
Add(delta, then) ==
  /\ counter' = counter + delta
  /\ IF counter' = 0
     THEN /\ waiters' = <<>>
          /\ micro' = Append(micro, WakeJob(waiters)) \o then
          /\ pc' = [g \in G |-> IF g \in ToSet(waiters) THEN "called" ELSE pc[g]]
     ELSE micro' = micro \o then /\ UNCHANGED <<waiters, pc>>

\* Mutant: Go does not count the task before its microtask runs.
LaunchUncounted(t) ==
  /\ task[t] = "new" /\ counter + 1 >= 0
  /\ (\E g \in G : pc[g] = "idle") \/ (\E u \in Tasks : task[u] = "running")
  /\ Add(0, <<StartJob(t)>>)
  /\ task' = [task EXCEPT ![t] = "scheduled"]
  /\ UNCHANGED <<waits, misuse, awaited>>

\* WaitGroup.Go, called by a goroutine that does not wait or by a task.
Launch(t) ==
  /\ task[t] = "new" /\ counter + 1 >= 0
  /\ (\E g \in G : pc[g] = "idle") \/ (\E u \in Tasks : task[u] = "running")
  /\ Add(1, <<StartJob(t)>>)
  /\ task' = [task EXCEPT ![t] = "scheduled"]
  /\ UNCHANGED <<waits, misuse, awaited>>

\* Below zero the Add of Go throws, and the task is not queued.  It has paid for
\* one of the calls of Done.
LaunchThrows ==
  /\ (\E g \in G : pc[g] = "idle") \/ (\E u \in Tasks : task[u] = "running")
  /\ counter + 1 < 0
  /\ Add(1, <<>>)
  /\ misuse' = misuse - 1
  /\ UNCHANGED <<task, waits, awaited>>

\* f ends, by returning or by throwing, and the finally block calls Done.
TaskEnds(t) ==
  /\ task[t] = "running"
  /\ Add(-1, <<>>)
  /\ task' = [task EXCEPT ![t] = "done"]
  /\ UNCHANGED <<waits, misuse, awaited>>

DoneTooOften ==
  /\ \E g \in G : pc[g] = "idle"
  /\ misuse < MaxMisuse
  /\ misuse' = misuse + 1
  /\ Add(-1, <<>>)
  /\ UNCHANGED <<task, waits, awaited>>

CallWait(g) ==
  /\ pc[g] = "idle" /\ waits[g] < MaxWaits
  /\ waits' = [waits EXCEPT ![g] = @ + 1]

\* Wait returns at once when there is nothing to wait for ...
WaitReturns(g) ==
  /\ CallWait(g)
  /\ counter = 0
  /\ UNCHANGED <<counter, waiters, micro, task, pc, misuse, awaited>>

Unfinished == {t \in Tasks : task[t] \in {"scheduled", "running"}}

\* ... and blocks otherwise.
WaitBlocks(g) ==
  /\ CallWait(g)
  /\ counter # 0
  /\ waiters' = Append(waiters, g)
  /\ pc' = [pc EXCEPT ![g] = "waiting"]
  /\ awaited' = [awaited EXCEPT ![g] = Unfinished]
  /\ UNCHANGED <<counter, micro, task, misuse>>

RunStart ==
  /\ micro # <<>>
  /\ Head(micro).kind = "start"
  /\ micro' = Tail(micro)
  /\ task' = [task EXCEPT ![Head(micro).t] = "running"]
  /\ UNCHANGED <<counter, waiters, pc, waits, misuse, awaited>>

RunWake ==
  /\ micro # <<>>
  /\ Head(micro).kind = "wake"
  /\ micro' = Tail(micro)
  /\ pc' = [g \in G |-> IF g \in ToSet(Head(micro).gs) THEN "idle" ELSE pc[g]]
  /\ UNCHANGED <<counter, waiters, task, waits, misuse, awaited>>

-----------------------------------------------------------------------------
RunMicrotask == RunStart \/ RunWake

Next ==
  \/ \E t \in Tasks : Launch(t) \/ TaskEnds(t)
  \/ \E g \in G : WaitReturns(g) \/ WaitBlocks(g)
  \/ DoneTooOften \/ LaunchThrows
  \/ RunMicrotask

\* The event loop runs the microtasks; every task ends (its own duty).
Fairness == WF_vars(RunMicrotask) /\ \A t \in Tasks : WF_vars(TaskEnds(t))

Spec == Init /\ [][Next]_vars

FairSpec == Spec /\ Fairness

-----------------------------------------------------------------------------
(* Properties. *)

\* The counter counts the tasks that have been launched and have not called
\* Done, also while the microtask that starts a task is still queued: Wait
\* called right after Go does not miss the task.
CounterExact == counter = Cardinality(Unfinished) - misuse

\* No waiter is left behind: whoever is in _waiters waits for a counter that
\* is not zero, and whoever was taken out is in a queued microtask.
NoWaiterLeft ==
  /\ waiters # <<>> => counter # 0
  /\ \A g \in G :
       /\ pc[g] = "waiting" <=> g \in ToSet(waiters)
       /\ pc[g] = "called" =>
            \E j \in ToSet(micro) : j.kind = "wake" /\ g \in ToSet(j.gs)

\* "Wait blocks until the WaitGroup counter is zero": in a program that pairs
\* its calls, every task that was launched when Wait was called has ended when
\* Wait returns, although others may have been launched since.
WaitCovers ==
  \A g \in G : pc[g] # "waiting" /\ misuse = 0 =>
    \A t \in awaited[g] : task[t] = "done"

=============================================================================
