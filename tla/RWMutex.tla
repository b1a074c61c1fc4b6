------------------------------ MODULE RWMutex ------------------------------
(***************************************************************************)
(* sync.RWMutex of the GoScript runtime, gs/sync/sync.ts.                  *)
(*                                                                         *)
(* One action is one uninterrupted piece of JavaScript: a call up to its   *)
(* await, or one microtask.  Goroutines unlock only what they hold, as Go  *)
(* requires; UnlockPanics is the call that finds the lock free although its *)
(* caller is writing.  TryLock and TryRLock that fail change nothing.      *)
(***************************************************************************)
EXTENDS Naturals, Sequences, FiniteSets, SequencesExt

CONSTANTS G,        \* goroutines
          Writers,  \* the goroutines that lock for writing
          Readers,  \* the goroutines that lock for reading
          MaxOps    \* bound: Lock, TryLock, RLock and TryRLock calls of each

VARIABLES
  readers,          \* _readers
  writer,           \* _writer
  readerWaitQueue,  \* _readerWaitQueue, as the goroutines waiting in it
  writerWaitQueue,  \* _writerWaitQueue
  micro,            \* queued microtasks
  pc,               \* what each goroutine is doing
  op                \* number of calls each goroutine has made

vars == <<readers, writer, readerWaitQueue, writerWaitQueue, micro, pc, op>>

-----------------------------------------------------------------------------
\* "called": taken out of its queue by _wakeUpWaiters, microtask queued.
State == {"idle", "wantsRead", "wantsWrite", "called", "reading", "writing"}

Job == [kind : {"writer", "readers"}, gs : Seq(G)]

RWTypeOK ==
  /\ readers \in Nat
  /\ writer \in BOOLEAN
  /\ readerWaitQueue \in Seq(G)
  /\ writerWaitQueue \in Seq(G)
  /\ micro \in Seq(Job)
  /\ pc \in [G -> State]
  /\ op \in [G -> 0..MaxOps]

Init ==
  /\ readers = 0
  /\ writer = FALSE
  /\ readerWaitQueue = <<>>
  /\ writerWaitQueue = <<>>
  /\ micro = <<>>
  /\ pc = [g \in G |-> "idle"]
  /\ op = [g \in G |-> 0]

-----------------------------------------------------------------------------
Call(g) == pc[g] = "idle" /\ op[g] < MaxOps /\ op' = [op EXCEPT ![g] = @ + 1]

CanWrite == ~writer /\ readers = 0
CanRead == ~writer /\ writerWaitQueue = <<>>

\* Lock, and a TryLock that succeeds.
Lock(g) ==
  /\ Call(g)
  /\ CanWrite
  /\ writer' = TRUE
  /\ pc' = [pc EXCEPT ![g] = "writing"]
  /\ UNCHANGED <<readers, readerWaitQueue, writerWaitQueue, micro>>

LockQueues(g) ==
  /\ Call(g)
  /\ ~CanWrite
  /\ writerWaitQueue' = Append(writerWaitQueue, g)
  /\ pc' = [pc EXCEPT ![g] = "wantsWrite"]
  /\ UNCHANGED <<readers, writer, readerWaitQueue, micro>>

\* RLock, and a TryRLock that succeeds.
RLock(g) ==
  /\ Call(g)
  /\ CanRead
  /\ readers' = readers + 1
  /\ pc' = [pc EXCEPT ![g] = "reading"]
  /\ UNCHANGED <<writer, readerWaitQueue, writerWaitQueue, micro>>

RLockQueues(g) ==
  /\ Call(g)
  /\ ~CanRead
  /\ readerWaitQueue' = Append(readerWaitQueue, g)
  /\ pc' = [pc EXCEPT ![g] = "wantsRead"]
  /\ UNCHANGED <<readers, writer, writerWaitQueue, micro>>

WriterJob(g) == [kind |-> "writer", gs |-> <<g>>]

ReadersJob(q) == [kind |-> "readers", gs |-> q]

\* _wakeUpWaiters, called by goroutine g with the flags r and w just set.
WakeUpWaiters(g, r, w) ==
  \/ /\ writerWaitQueue # <<>> /\ r = 0
     /\ writer' = TRUE
     /\ writerWaitQueue' = Tail(writerWaitQueue)
     /\ micro' = Append(micro, WriterJob(Head(writerWaitQueue)))
     /\ pc' = [pc EXCEPT ![g] = "idle", ![Head(writerWaitQueue)] = "called"]
     /\ UNCHANGED readerWaitQueue
  \/ /\ ~(writerWaitQueue # <<>> /\ r = 0)
     /\ readerWaitQueue # <<>> /\ ~w
     /\ writer' = w
     /\ readerWaitQueue' = <<>>
     /\ micro' = Append(micro, ReadersJob(readerWaitQueue))
     /\ pc' = [h \in G |-> IF h = g THEN "idle"
                           ELSE IF h \in ToSet(readerWaitQueue) THEN "called"
                           ELSE pc[h]]
     /\ UNCHANGED writerWaitQueue
  \/ /\ ~(writerWaitQueue # <<>> /\ r = 0)
     /\ ~(readerWaitQueue # <<>> /\ ~w)
     /\ writer' = w
     /\ pc' = [pc EXCEPT ![g] = "idle"]
     /\ UNCHANGED <<readerWaitQueue, writerWaitQueue, micro>>

Unlock(g) ==
  /\ pc[g] = "writing"
  /\ writer
  /\ WakeUpWaiters(g, readers, FALSE)
  /\ UNCHANGED <<readers, op>>

UnlockPanics(g) ==
  /\ pc[g] = "writing"
  /\ ~writer
  /\ pc' = [pc EXCEPT ![g] = "idle"]
  /\ UNCHANGED <<readers, writer, readerWaitQueue, writerWaitQueue, micro, op>>

\* Mutant: off by one, the last reader does not wake anybody.
RUnlockWakesTooEarly(g) ==
  /\ pc[g] = "reading"
  /\ readers > 0
  /\ readers' = readers - 1
  /\ IF readers = 2
     THEN WakeUpWaiters(g, 0, writer)
     ELSE /\ pc' = [pc EXCEPT ![g] = "idle"]
          /\ UNCHANGED <<writer, readerWaitQueue, writerWaitQueue, micro>>
  /\ UNCHANGED op

RUnlock(g) ==
  /\ pc[g] = "reading"
  /\ readers > 0
  /\ readers' = readers - 1
  /\ IF readers = 1
     THEN WakeUpWaiters(g, 0, writer)
     ELSE /\ pc' = [pc EXCEPT ![g] = "idle"]
          /\ UNCHANGED <<writer, readerWaitQueue, writerWaitQueue, micro>>
  /\ UNCHANGED op

\* The microtask of _wakeUpWaiters: one writer's Lock returns, or every
\* reader counts itself and its RLock returns.
RunWriter ==
  /\ micro # <<>>
  /\ Head(micro).kind = "writer"
  /\ micro' = Tail(micro)
  /\ pc' = [pc EXCEPT ![Head(Head(micro).gs)] = "writing"]
  /\ UNCHANGED <<readers, writer, readerWaitQueue, writerWaitQueue, op>>

\* Mutant: the batch of readers is counted once.
RunReadersCountsOne ==
  /\ micro # <<>>
  /\ Head(micro).kind = "readers"
  /\ micro' = Tail(micro)
  /\ readers' = readers + 1
  /\ pc' = [g \in G |-> IF g \in ToSet(Head(micro).gs) THEN "reading" ELSE pc[g]]
  /\ UNCHANGED <<writer, readerWaitQueue, writerWaitQueue, op>>

RunReaders ==
  /\ micro # <<>>
  /\ Head(micro).kind = "readers"
  /\ micro' = Tail(micro)
  /\ readers' = readers + Len(Head(micro).gs)
  /\ pc' = [g \in G |-> IF g \in ToSet(Head(micro).gs) THEN "reading" ELSE pc[g]]
  /\ UNCHANGED <<writer, readerWaitQueue, writerWaitQueue, op>>

-----------------------------------------------------------------------------
RunMicrotask == RunWriter \/ RunReaders

Next ==
  \/ \E g \in Writers : Lock(g) \/ LockQueues(g)
  \/ \E g \in Readers : RLock(g) \/ RLockQueues(g)
  \/ \E g \in G : Unlock(g) \/ UnlockPanics(g) \/ RUnlock(g)
  \/ RunMicrotask

Spec == Init /\ [][Next]_vars

\* The event loop runs the microtasks; holders unlock (their program's duty).
Fairness == WF_vars(RunMicrotask) /\ \A g \in G : WF_vars(Unlock(g) \/ UnlockPanics(g) \/ RUnlock(g))

FairSpec == Spec /\ Fairness

-----------------------------------------------------------------------------
(* Properties. *)

Holding(state) == {g \in G : pc[g] = state}

\* "RWMutex is a reader/writer mutual exclusion lock": while one goroutine
\* writes, nobody else reads or writes.
RWExclusion ==
  \A g \in Holding("writing") :
    Holding("writing") = {g} /\ Holding("reading") = {}

\* _readers counts the goroutines that hold the lock for reading.
ReadersCounted == readers = Cardinality(Holding("reading"))

\* Each blocked goroutine is in the queue or in the microtask that wakes it.
BlockedFound ==
  \A g \in G :
    /\ pc[g] = "wantsRead" <=> g \in ToSet(readerWaitQueue)
    /\ pc[g] = "wantsWrite" <=> g \in ToSet(writerWaitQueue)
    /\ pc[g] = "called" => \E j \in ToSet(micro) : g \in ToSet(j.gs)

\* When goroutines wait in a queue, somebody holds the lock.
QueueHeld ==
  readerWaitQueue # <<>> \/ writerWaitQueue # <<>> => writer \/ readers > 0

\* _writer is set for somebody: a goroutine that writes, or one that a queued
\* microtask is about to let write.
WriterFound ==
  writer => Holding("writing") # {} \/ \E j \in ToSet(micro) : j.kind = "writer"

\* Nobody is stranded: whoever waits is found by an unlock that will come.
NobodyStranded == BlockedFound /\ QueueHeld /\ WriterFound

=============================================================================
