------------------------------- MODULE MCSync -------------------------------
(***************************************************************************)
(* The objects of package sync, one at a time: part says which one the     *)
(* behaviour is about, and the variables of the others keep their initial  *)
(* values.  Mutex (with its Cond) and Once are extended: the theorems of   *)
(* SyncProofs speak of their definitions.                                  *)
(***************************************************************************)
EXTENDS Once

CONSTANTS Parts,             \* the objects a run is about
          Writers, Readers,  \* goroutines that use the RWMutex
          Waiters,           \* goroutines that use the WaitGroup
          Tasks, MaxWaits, MaxMisuse

ASSUME PartsAssumption == Parts \subseteq {"mutex", "once", "rwmutex", "waitgroup"}
ASSUME RolesAssumption == Writers \cup Readers \subseteq G
ASSUME WaitGroupAssumption == MaxWaits \in Nat /\ MaxMisuse \in Nat

VARIABLES
  part,
  readers, writer, readerWaitQueue, writerWaitQueue, rwMicro, rwPc, rwOp,
  counter, wgWaiters, wgMicro, task, wgPc, waits, misuse, awaited

RW == INSTANCE RWMutex WITH micro <- rwMicro, pc <- rwPc, op <- rwOp
WG == INSTANCE WaitGroup WITH
        G <- Waiters, waiters <- wgWaiters, micro <- wgMicro, pc <- wgPc

rwVars == <<readers, writer, readerWaitQueue, writerWaitQueue, rwMicro, rwPc, rwOp>>
wgVars == <<counter, wgWaiters, wgMicro, task, wgPc, waits, misuse, awaited>>
syncVars == <<part, allVars, rwVars, wgVars>>

SyncInit == part \in Parts /\ OnceInit /\ RW!Init /\ WG!Init

MutexStep == part = "mutex" /\ Next /\ UNCHANGED <<part, onceVars, rwVars, wgVars>>
OnceStep == part = "once" /\ OnceNext /\ UNCHANGED <<part, rwVars, wgVars>>
RWMutexStep == part = "rwmutex" /\ RW!Next /\ UNCHANGED <<part, allVars, wgVars>>
WaitGroupStep == part = "waitgroup" /\ WG!Next /\ UNCHANGED <<part, allVars, rwVars>>

SyncNext == MutexStep \/ OnceStep \/ RWMutexStep \/ WaitGroupStep

SyncSpec == SyncInit /\ [][SyncNext]_syncVars

\* The fairness of each module.  An RWMutex or a WaitGroup that is not under
\* way has no pending microtask, holder or task, so it asks nothing.
SyncFairness ==
  /\ WF_vars(part = "mutex" /\ RunMicrotask)
  /\ \A g \in G : WF_vars(part = "mutex" /\ Unlock(g))
  /\ WF_allVars(part = "once" /\ RunGrant /\ UNCHANGED onceVars)
  /\ \A g \in G : WF_allVars(part = "once" /\ Behind(g))
  /\ RW!Fairness
  /\ WG!Fairness

FairSyncSpec == SyncSpec /\ SyncFairness

-----------------------------------------------------------------------------
(* Properties of the parts. *)

\* A Once calls f once, and a Do that had to lock returns after f has ended.
OnceAgrees == CalledOnce /\ LockedDoWaitsForF

\* Goroutines that wait for a Mutex, a Cond or an RWMutex wait for a holder or
\* a queued microtask, and _readers counts the readers exactly.
NobodyStranded ==
  TypeOK /\ Accounted /\ RW!RWTypeOK /\ RW!NobodyStranded /\ RW!ReadersCounted

\* Wait covers the tasks launched before it and leaves no waiter behind; the
\* counter is exact also between Go and the start of its task.
WaitCovers == WG!WaitGroupTypeOK /\ WG!WaitCovers /\ WG!NoWaiterLeft /\ WG!CounterExact

\* Every Lock, Cond.Wait that was signalled, RLock, Do and Wait that blocked
\* returns, under the programs' duty to unlock, to end f and to end their tasks
\* (and, for Wait, to pair their calls).
Blocked(g) ==
  \/ part = "mutex" /\ pc[g] \in {"queued", "granted", "waking"}
  \/ part = "once" /\ stage[g] = "locking"
  \/ rwPc[g] \in {"wantsRead", "wantsWrite", "called"}
  \/ g \in Waiters /\ wgPc[g] # "idle" /\ misuse = 0
EveryCallReturns == \A g \in G : Blocked(g) ~> ~Blocked(g)

\* "RWMutex is a reader/writer mutual exclusion lock" (sync.ts:68).
RWExclusion == RW!RWExclusion
=============================================================================
