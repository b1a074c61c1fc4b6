------------------------------- MODULE Mutex -------------------------------
(***************************************************************************)
(* sync.Mutex and sync.Cond of the GoScript runtime, gs/sync/sync.ts: one  *)
(* mutex and one condition variable whose Locker it is.                    *)
(*                                                                         *)
(* One action is one uninterrupted piece of JavaScript: a call up to its   *)
(* await, or one microtask.  A goroutine unlocks a mutex only while it     *)
(* holds it, and calls Cond.Wait only then, as Go requires of programs;    *)
(* UnlockPanics is the call that breaks that rule on a free mutex.         *)
(***************************************************************************)
EXTENDS Naturals, Sequences, FiniteSets, SequencesExt

CONSTANTS G,       \* goroutines
          MaxOps   \* bound: calls each goroutine makes

ASSUME MutexMaxOps == MaxOps \in Nat

VARIABLES
  locked,     \* Mutex._locked
  waitQueue,  \* Mutex._waitQueue, as the goroutines whose resolve it holds
  waiters,    \* Cond._waiters
  micro,      \* queued microtasks
  pc,         \* what each goroutine is doing
  op          \* number of calls each goroutine has made

vars == <<locked, waitQueue, waiters, micro, pc, op>>

-----------------------------------------------------------------------------
\* "queued": its resolve is in _waitQueue.  "granted": Unlock has taken it out
\* and queued the microtask that calls it.  "parked": in Cond._waiters.
\* "waking": Signal or Broadcast has taken it out and queued the microtask.
State == {"idle", "queued", "granted", "critical", "parked", "waking"}

\* A microtask resolves one Lock, or runs the wakers of a Signal/Broadcast.
Job == [kind : {"grant", "wake"}, gs : Seq(G)]

TypeOK ==
  /\ locked \in BOOLEAN
  /\ waitQueue \in Seq(G)
  /\ waiters \in Seq(G)
  /\ micro \in Seq(Job)
  /\ pc \in [G -> State]
  /\ op \in [G -> 0..MaxOps]

Init ==
  /\ locked = FALSE
  /\ waitQueue = <<>>
  /\ waiters = <<>>
  /\ micro = <<>>
  /\ pc = [g \in G |-> "idle"]
  /\ op = [g \in G |-> 0]

-----------------------------------------------------------------------------
Call(g) == op[g] < MaxOps /\ op' = [op EXCEPT ![g] = @ + 1]

LockFree(g) ==
  /\ pc[g] = "idle" /\ Call(g)
  /\ ~locked
  /\ locked' = TRUE
  /\ pc' = [pc EXCEPT ![g] = "critical"]
  /\ UNCHANGED <<waitQueue, waiters, micro>>

\* Mutant: the last to come is served first.
LockJumpsQueue(g) ==
  /\ pc[g] = "idle" /\ Call(g)
  /\ locked
  /\ waitQueue' = <<g>> \o waitQueue
  /\ pc' = [pc EXCEPT ![g] = "queued"]
  /\ UNCHANGED <<locked, waiters, micro>>

LockQueues(g) ==
  /\ pc[g] = "idle" /\ Call(g)
  /\ locked
  /\ waitQueue' = Append(waitQueue, g)
  /\ pc' = [pc EXCEPT ![g] = "queued"]
  /\ UNCHANGED <<locked, waiters, micro>>

\* A TryLock that succeeds does what LockFree does.
TryLockFails(g) ==
  /\ pc[g] = "idle" /\ Call(g)
  /\ locked
  /\ UNCHANGED <<locked, waitQueue, waiters, micro, pc>>

GrantJob(g) == [kind |-> "grant", gs |-> <<g>>]

\* Mutant: the lock is free between Unlock and the waiter's microtask.
ReleaseThenGrant(g, next) ==
  IF waitQueue = <<>>
  THEN /\ locked' = FALSE
       /\ pc' = [pc EXCEPT ![g] = next]
       /\ UNCHANGED <<waitQueue, micro>>
  ELSE /\ locked' = FALSE
       /\ waitQueue' = Tail(waitQueue)
       /\ micro' = Append(micro, GrantJob(Head(waitQueue)))
       /\ pc' = [pc EXCEPT ![g] = next, ![Head(waitQueue)] = "granted"]

\* Mutant: the waiter is taken out of the queue and never called.
ReleaseForgets(g, next) ==
  IF waitQueue = <<>>
  THEN /\ locked' = FALSE
       /\ pc' = [pc EXCEPT ![g] = next]
       /\ UNCHANGED <<waitQueue, micro>>
  ELSE /\ locked' = TRUE
       /\ waitQueue' = Tail(waitQueue)
       /\ pc' = [pc EXCEPT ![g] = next, ![Head(waitQueue)] = "granted"]
       /\ UNCHANGED micro

\* Unlock: the lock passes to the first waiter without becoming free.  The
\* caller goes on in state next.
Release(g, next) ==
  IF waitQueue = <<>>
  THEN /\ locked' = FALSE
       /\ pc' = [pc EXCEPT ![g] = next]
       /\ UNCHANGED <<waitQueue, micro>>
  ELSE /\ locked' = TRUE
       /\ waitQueue' = Tail(waitQueue)
       /\ micro' = Append(micro, GrantJob(Head(waitQueue)))
       /\ pc' = [pc EXCEPT ![g] = next, ![Head(waitQueue)] = "granted"]

Unlock(g) ==
  /\ pc[g] = "critical"
  /\ Release(g, "idle")
  /\ UNCHANGED <<waiters, op>>

UnlockPanics(g) ==
  /\ pc[g] = "idle" /\ Call(g)
  /\ ~locked
  /\ UNCHANGED <<locked, waitQueue, waiters, micro, pc>>

\* Cond.Wait: unlock and join the waiters in one piece.
Wait(g) ==
  /\ pc[g] = "critical" /\ Call(g)
  /\ Release(g, "parked")
  /\ waiters' = Append(waiters, g)

\* Cond.Signal and Cond.Broadcast, with or without the lock.
MayNotify(g) == pc[g] \in {"idle", "critical"} /\ Call(g)

WakeJob(gs) == [kind |-> "wake", gs |-> gs]

Signal(g) ==
  /\ MayNotify(g)
  /\ waiters # <<>>
  /\ waiters' = Tail(waiters)
  /\ micro' = Append(micro, WakeJob(<<Head(waiters)>>))
  /\ pc' = [pc EXCEPT ![Head(waiters)] = "waking"]
  /\ UNCHANGED <<locked, waitQueue>>

SignalNobody(g) ==
  /\ MayNotify(g)
  /\ waiters = <<>>
  /\ UNCHANGED <<locked, waitQueue, waiters, micro, pc>>

Broadcast(g) ==
  /\ MayNotify(g)
  /\ waiters' = <<>>
  /\ micro' = Append(micro, WakeJob(waiters))
  /\ pc' = [h \in G |-> IF h \in ToSet(waiters) THEN "waking" ELSE pc[h]]
  /\ UNCHANGED <<locked, waitQueue>>

\* The microtask of Unlock: the waiter's Lock returns.
RunGrant ==
  /\ micro # <<>>
  /\ Head(micro).kind = "grant"
  /\ micro' = Tail(micro)
  /\ pc' = [pc EXCEPT ![Head(Head(micro).gs)] = "critical"]
  /\ UNCHANGED <<locked, waitQueue, waiters, op>>

\* The microtask of Signal or Broadcast: each waiter in turn calls L.Lock(),
\* so the first gets a free mutex and the others queue.
RunWake ==
  /\ micro # <<>>
  /\ Head(micro).kind = "wake"
  /\ micro' = Tail(micro)
  /\ LET gs == Head(micro).gs
         first == IF locked \/ gs = <<>> THEN <<>> ELSE <<Head(gs)>>
         rest == IF locked \/ gs = <<>> THEN gs ELSE Tail(gs)
     IN  /\ locked' = (locked \/ gs # <<>>)
         /\ waitQueue' = waitQueue \o rest
         /\ pc' = [g \in G |-> IF g \in ToSet(first) THEN "critical"
                               ELSE IF g \in ToSet(rest) THEN "queued"
                               ELSE pc[g]]
  /\ UNCHANGED <<waiters, op>>

-----------------------------------------------------------------------------
RunMicrotask == RunGrant \/ RunWake

Operation(g) ==
  \/ LockFree(g) \/ LockQueues(g) \/ TryLockFails(g)
  \/ Unlock(g) \/ UnlockPanics(g)
  \/ Wait(g) \/ Signal(g) \/ SignalNobody(g) \/ Broadcast(g)

Next == (\E g \in G : Operation(g)) \/ RunMicrotask

Spec == Init /\ [][Next]_vars

\* The event loop runs the microtasks; a goroutine that holds the mutex
\* unlocks it in the end (its program's duty).
Fairness == WF_vars(RunMicrotask) /\ \A g \in G : WF_vars(Unlock(g))

FairSpec == Spec /\ Fairness

-----------------------------------------------------------------------------
(* Properties. *)

\* The goroutines that own the mutex: in their critical section, or chosen by
\* Unlock while the microtask that tells them is still queued.
Owner == {g \in G : pc[g] \in {"granted", "critical"}}

\* "Mutex is a mutual exclusion lock": the hand-over by Unlock, a Lock or
\* TryLock that comes before its microtask, and the waiters of a Cond that
\* lock again never lead to two owners; and _locked is set exactly while
\* there is one.
MutualExclusion ==
  /\ \A g, h \in Owner : g = h
  /\ locked <=> Owner # {}

\* Whom the queues and the microtasks hold: nobody stands in two places, and
\* a microtask never resolves a promise twice.
AllIn(q, state) == \A k \in 1..Len(q) : pc[q[k]] = state
Distinct(q) == \A k, l \in 1..Len(q) : q[k] = q[l] => k = l
Meet(p, q) == \E k \in 1..Len(p), l \in 1..Len(q) : p[k] = q[l]

QueuePlaces == AllIn(waitQueue, "queued") /\ Distinct(waitQueue)

ParkedPlaces == AllIn(waiters, "parked") /\ Distinct(waiters)

GrantPlaces ==
  /\ \A k \in 1..Len(micro) : micro[k].kind = "grant" =>
       Len(micro[k].gs) = 1 /\ pc[micro[k].gs[1]] = "granted"
  /\ \A k, l \in 1..Len(micro) :
       micro[k].kind = "grant" /\ micro[l].kind = "grant" => k = l

WakePlaces ==
  /\ \A k \in 1..Len(micro) : micro[k].kind = "wake" =>
       AllIn(micro[k].gs, "waking") /\ Distinct(micro[k].gs)
  /\ \A k, l \in 1..Len(micro) :
       micro[k].kind = "wake" /\ micro[l].kind = "wake" /\ k # l =>
         ~Meet(micro[k].gs, micro[l].gs)

Places == QueuePlaces /\ ParkedPlaces /\ GrantPlaces /\ WakePlaces

\* Each blocked goroutine is in the one place from which it will be woken, and
\* nobody waits in _waitQueue while the mutex is free.
QueueHeld == waitQueue # <<>> => locked

BlockedFound ==
  \A g \in G :
    /\ pc[g] = "queued" => g \in ToSet(waitQueue)
    /\ pc[g] = "parked" => g \in ToSet(waiters)

CalledFound ==
  \A g \in G :
    /\ pc[g] = "granted" => \E j \in ToSet(micro) : j.kind = "grant" /\ g \in ToSet(j.gs)
    /\ pc[g] = "waking" => \E j \in ToSet(micro) : j.kind = "wake" /\ g \in ToSet(j.gs)

\* No wakeup is lost.
Accounted == Places /\ QueueHeld /\ BlockedFound /\ CalledFound

\* First come, first served: whoever queues behind a goroutine does not own
\* the mutex before it, since the queue only loses its head and grows behind.
HandOverInOrder ==
  [][\/ IsPrefix(waitQueue, waitQueue')
     \/ /\ waitQueue # <<>>
        /\ waitQueue' = Tail(waitQueue)
        /\ pc'[Head(waitQueue)] = "granted"]_vars

=============================================================================
