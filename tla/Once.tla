-------------------------------- MODULE Once --------------------------------
(***************************************************************************)
(* sync.Once of the GoScript runtime, gs/sync/sync.ts, on top of its Mutex *)
(* (module Mutex): the goroutines call Do on one Once, and Do locks the    *)
(* Once's own mutex _m.                                                    *)
(*                                                                         *)
(* Do awaits twice, on _m.Lock() and on f(), so it has four pieces: the    *)
(* test before the lock, the code behind the lock, the end of f, and the   *)
(* microtask of Unlock in between.  That f throws makes no difference to   *)
(* the Once: the finally block unlocks in either case.                     *)
(***************************************************************************)
EXTENDS Mutex

VARIABLES
  done,   \* Once._done
  stage,  \* where each goroutine is in Do
  runs,   \* history: how often f was called
  ended,  \* history: f has returned or thrown
  passed  \* history: goroutines whose Do returned from behind the lock

onceVars == <<done, stage, runs, ended, passed>>
allVars == <<vars, done, stage, runs, ended, passed>>

OnceInit ==
  /\ Init
  /\ done = FALSE
  /\ stage = [g \in G |-> "out"]
  /\ runs = 0
  /\ ended = FALSE
  /\ passed = {}

-----------------------------------------------------------------------------
\* The test before the lock: a later Do returns at once ...
DoReturns(g) ==
  /\ stage[g] = "out" /\ Call(g)
  /\ done
  /\ UNCHANGED <<locked, waitQueue, waiters, micro, pc, onceVars>>

\* ... and a Do that does not see _done asks for the lock.
DoLocks(g) ==
  /\ stage[g] = "out"
  /\ ~done
  /\ LockFree(g) \/ LockQueues(g)
  /\ stage' = [stage EXCEPT ![g] = "locking"]
  /\ UNCHANGED <<done, runs, ended, passed>>

\* Mutant: _done is not tested again behind the lock.
DoCallsUntested(g) ==
  /\ stage[g] = "locking" /\ pc[g] = "critical"
  /\ done' = TRUE
  /\ runs' = runs + 1
  /\ stage' = [stage EXCEPT ![g] = "calling"]
  /\ UNCHANGED <<vars, ended, passed>>

\* Behind the lock: the first one marks the Once done and calls f ...
DoCalls(g) ==
  /\ stage[g] = "locking" /\ pc[g] = "critical"
  /\ ~done
  /\ done' = TRUE
  /\ runs' = runs + 1
  /\ stage' = [stage EXCEPT ![g] = "calling"]
  /\ UNCHANGED <<vars, ended, passed>>

\* ... the others find it done and unlock.
DoFindsDone(g) ==
  /\ stage[g] = "locking" /\ pc[g] = "critical"
  /\ done
  /\ Unlock(g)
  /\ stage' = [stage EXCEPT ![g] = "out"]
  /\ passed' = passed \cup {g}
  /\ UNCHANGED <<done, runs, ended>>

\* f returns or throws; the finally block unlocks.
DoEnds(g) ==
  /\ stage[g] = "calling"
  /\ Unlock(g)
  /\ ended' = TRUE
  /\ stage' = [stage EXCEPT ![g] = "out"]
  /\ passed' = passed \cup {g}
  /\ UNCHANGED <<done, runs>>

-----------------------------------------------------------------------------
Behind(g) == DoCalls(g) \/ DoFindsDone(g) \/ DoEnds(g)

OnceNext ==
  \/ \E g \in G : DoReturns(g) \/ DoLocks(g) \/ Behind(g)
  \/ RunGrant /\ UNCHANGED onceVars

OnceSpec == OnceInit /\ [][OnceNext]_allVars

\* The event loop runs microtasks and continuations; f ends (its own duty).
FairOnceSpec ==
  /\ OnceSpec
  /\ WF_allVars(RunGrant /\ UNCHANGED onceVars)
  /\ \A g \in G : WF_allVars(Behind(g))

-----------------------------------------------------------------------------
(* Properties. *)

\* "Do calls the function f if and only if Do is being called for the first
\* time": however many Do calls passed the first test before one of them got
\* the lock, f is called once, and _done says that it was.
CalledOnce == runs = (IF done THEN 1 ELSE 0)

\* A Do that asked for the lock returns only after the one call of f has
\* ended.  A Do that sees _done beforehand may return while f is running.
LockedDoWaitsForF == passed # {} => ended

=============================================================================
