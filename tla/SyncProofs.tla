----------------------------- MODULE SyncProofs -----------------------------
(***************************************************************************)
(* sync.Mutex excludes, and sync.Once, sync.RWMutex and sync.WaitGroup     *)
(* keep their promises, for any number of goroutines, tasks and calls:     *)
(* gs/sync/sync.ts.  The mutex inside a Once is the one of module Mutex.   *)
(***************************************************************************)
EXTENDS MCSync, SequenceFacts, FiniteSetTheorems

-----------------------------------------------------------------------------
(* The mutex: whatever mix of Lock, TryLock, Unlock and Cond calls. *)

\* MutualExclusion alone is not inductive: a microtask resolves the promise of
\* whom it holds, so the invariant also says whom queues and microtasks hold.
IInv == TypeOK /\ MutualExclusion /\ Places

LEMMA JobFields ==
  ASSUME NEW j \in Job
  PROVE  j.kind \in {"grant", "wake"} /\ j.gs \in Seq(G)
BY DEF Job

LEMMA MutexTypeStep == TypeOK /\ [Next]_vars => TypeOK'
<1> SUFFICES ASSUME TypeOK, [Next]_vars PROVE TypeOK'
  OBVIOUS
<1>c. ASSUME NEW g \in G, Call(g) PROVE op' \in [G -> 0..MaxOps]
  BY <1>c, MutexMaxOps DEF Call, TypeOK
<1>j. ASSUME NEW q \in Seq(G) PROVE WakeJob(q) \in Job
  BY DEF WakeJob, Job
<1>q. ASSUME waitQueue # <<>>
      PROVE  /\ Head(waitQueue) \in G
             /\ Tail(waitQueue) \in Seq(G)
             /\ GrantJob(Head(waitQueue)) \in Job
  <2>1. Head(waitQueue) \in G /\ Tail(waitQueue) \in Seq(G)
    BY <1>q DEF TypeOK
  <2>2. <<Head(waitQueue)>> \in Seq(G)
    BY <2>1
  <2> QED BY <2>1, <2>2 DEF Job, GrantJob
<1>r. ASSUME NEW g \in G, NEW st \in State, Release(g, st)
      PROVE  /\ locked' \in BOOLEAN /\ waitQueue' \in Seq(G)
             /\ micro' \in Seq(Job) /\ pc' \in [G -> State]
  <2>1. CASE waitQueue = <<>>
    BY <1>r, <2>1 DEF Release, TypeOK
  <2>2. CASE waitQueue # <<>>
    <3>1. locked' \in BOOLEAN /\ waitQueue' \in Seq(G)
      BY <1>r, <2>2, <1>q DEF Release
    <3>2. micro' \in Seq(Job)
      <4>1. micro' = Append(micro, GrantJob(Head(waitQueue)))
        BY <1>r, <2>2 DEF Release
      <4>2. GrantJob(Head(waitQueue)) \in Job
        BY <2>2, <1>q
      <4> QED BY <4>1, <4>2 DEF TypeOK
    <3>3. pc' \in [G -> State]
      BY <1>r, <2>2, <1>q DEF Release, TypeOK, State
    <3> QED BY <3>1, <3>2, <3>3
  <2> QED BY <2>1, <2>2
<1>1. ASSUME NEW g \in G, LockFree(g) PROVE TypeOK'
  BY <1>1, <1>c DEF LockFree, TypeOK, State
<1>2. ASSUME NEW g \in G, LockQueues(g) PROVE TypeOK'
  BY <1>2, <1>c DEF LockQueues, TypeOK, State
<1>3. ASSUME NEW g \in G, TryLockFails(g) \/ UnlockPanics(g) \/ SignalNobody(g)
      PROVE  TypeOK'
  BY <1>3, <1>c DEF TryLockFails, UnlockPanics, SignalNobody, MayNotify, TypeOK
<1>4. ASSUME NEW g \in G, Unlock(g) PROVE TypeOK'
  BY <1>4, <1>r DEF Unlock, TypeOK, State
<1>5. ASSUME NEW g \in G, Wait(g) PROVE TypeOK'
  <2>1. /\ locked' \in BOOLEAN /\ waitQueue' \in Seq(G)
        /\ micro' \in Seq(Job) /\ pc' \in [G -> State]
    BY <1>5, <1>r DEF Wait, State
  <2>2. op' \in [G -> 0..MaxOps] /\ waiters' \in Seq(G)
    BY <1>5, <1>c DEF Wait, TypeOK
  <2> QED BY <2>1, <2>2 DEF TypeOK
<1>6. ASSUME NEW g \in G, Signal(g) PROVE TypeOK'
  <2>1. Head(waiters) \in G /\ Tail(waiters) \in Seq(G)
    BY <1>6 DEF Signal, TypeOK
  <2>2. WakeJob(<<Head(waiters)>>) \in Job
    <3>1. <<Head(waiters)>> \in Seq(G)
      BY <2>1
    <3> QED BY <3>1, <1>j
  <2>3. micro' \in Seq(Job)
    BY <1>6, <2>2 DEF Signal, TypeOK
  <2>4. op' \in [G -> 0..MaxOps]
    BY <1>6, <1>c DEF Signal, MayNotify
  <2>5. pc' \in [G -> State]
    BY <1>6, <2>1 DEF Signal, TypeOK, State
  <2> QED BY <1>6, <2>1, <2>3, <2>4, <2>5 DEF Signal, TypeOK
<1>7. ASSUME NEW g \in G, Broadcast(g) PROVE TypeOK'
  <2>1. WakeJob(waiters) \in Job
    BY <1>j DEF TypeOK
  <2>2. micro' \in Seq(Job)
    BY <1>7, <2>1 DEF Broadcast, TypeOK
  <2>3. op' \in [G -> 0..MaxOps]
    BY <1>7, <1>c DEF Broadcast, MayNotify
  <2>4. pc' \in [G -> State]
    BY <1>7 DEF Broadcast, TypeOK, State
  <2> QED BY <1>7, <2>2, <2>3, <2>4 DEF Broadcast, TypeOK
<1>8. ASSUME RunGrant PROVE TypeOK'
  <2>1. micro' \in Seq(Job)
    BY <1>8 DEF RunGrant, TypeOK
  <2>2. pc' \in [G -> State]
    BY <1>8 DEF RunGrant, TypeOK, State
  <2> QED BY <1>8, <2>1, <2>2 DEF RunGrant, TypeOK
<1>9. ASSUME RunWake PROVE TypeOK'
  <2>1. Head(micro) \in Job /\ Tail(micro) \in Seq(Job)
    BY <1>9 DEF RunWake, TypeOK
  <2>2. Head(micro).gs \in Seq(G)
    BY <2>1, JobFields
  <2>3. waitQueue' \in Seq(G)
    BY <1>9, <2>2 DEF RunWake, TypeOK
  <2>4. pc' \in [G -> State] /\ locked' \in BOOLEAN
    BY <1>9 DEF RunWake, TypeOK, State
  <2> QED BY <1>9, <2>1, <2>3, <2>4 DEF RunWake, TypeOK
<1>10. CASE UNCHANGED vars
  BY <1>10 DEF vars, TypeOK
<1> QED BY <1>1, <1>2, <1>3, <1>4, <1>5, <1>6, <1>7, <1>8, <1>9, <1>10
        DEF Next, Operation, RunMicrotask

-----------------------------------------------------------------------------
\* The facts about the elements of the queues and of the microtasks.
LEMMA Elements ==
  ASSUME TypeOK
  PROVE  /\ Len(waitQueue) \in Nat /\ \A k \in 1..Len(waitQueue) : waitQueue[k] \in G
         /\ Len(waiters) \in Nat /\ \A k \in 1..Len(waiters) : waiters[k] \in G
         /\ Len(micro) \in Nat
         /\ \A k \in 1..Len(micro) :
              /\ micro[k] \in Job
              /\ micro[k].kind \in {"grant", "wake"}
              /\ micro[k].gs \in Seq(G)
              /\ Len(micro[k].gs) \in Nat
              /\ \A m \in 1..Len(micro[k].gs) : micro[k].gs[m] \in G
<1>1. waitQueue \in Seq(G) /\ waiters \in Seq(G) /\ micro \in Seq(Job)
  BY DEF TypeOK
<1>2. \A k \in 1..Len(micro) : micro[k] \in Job
  BY <1>1
<1>3. \A k \in 1..Len(micro) :
        micro[k].kind \in {"grant", "wake"} /\ micro[k].gs \in Seq(G)
  BY <1>2, JobFields
<1>4. \A q \in Seq(G) : Len(q) \in Nat /\ \A m \in 1..Len(q) : q[m] \in G
  OBVIOUS
<1>5. Len(micro) \in Nat
  BY <1>1
<1> QED BY <1>1, <1>2, <1>3, <1>4, <1>5

\* Who does not move stays in the state of his place.
LEMMA FrameAllIn ==
  ASSUME NEW q \in Seq(G), NEW st, AllIn(q, st),
         \A h \in G : pc[h] = st => pc'[h] = st
  PROVE  AllIn(q, st)'
<1>1. \A k \in 1..Len(q) : q[k] \in G
  OBVIOUS
<1> QED BY <1>1 DEF AllIn

\* A queue that loses its head, or gains a newcomer at its end.
LEMMA TailDistinct ==
  ASSUME NEW q \in Seq(G), q # <<>>, Distinct(q)
  PROVE  Distinct(Tail(q)) /\ \A k \in 1..Len(Tail(q)) : Tail(q)[k] # Head(q)
<1>1. /\ Head(q) = q[1] /\ 1 \in 1..Len(q)
      /\ \A k \in 1..Len(Tail(q)) :
           k \in Nat /\ k + 1 \in 1..Len(q) /\ k + 1 # 1 /\ Tail(q)[k] = q[k + 1]
  OBVIOUS
<1>2. \A k \in 1..Len(Tail(q)) : Tail(q)[k] # Head(q)
  BY <1>1 DEF Distinct
<1>3. \A k, l \in 1..Len(Tail(q)) : Tail(q)[k] = Tail(q)[l] => k = l
  <2> TAKE k, l \in 1..Len(Tail(q))
  <2> HAVE Tail(q)[k] = Tail(q)[l]
  <2>1. k + 1 = l + 1
    BY <1>1 DEF Distinct
  <2> QED BY <1>1, <2>1
<1> QED BY <1>2, <1>3 DEF Distinct

LEMMA AppendDistinct ==
  ASSUME NEW q \in Seq(G), NEW x \in G, Distinct(q),
         \A k \in 1..Len(q) : q[k] # x
  PROVE  Distinct(Append(q, x))
<1>1. \A k \in 1..Len(Append(q, x)) :
        \/ k \in 1..Len(q) /\ Append(q, x)[k] = q[k]
        \/ k = Len(q) + 1 /\ Append(q, x)[k] = x
  BY SeqSteps
<1> QED BY <1>1 DEF Distinct

\* A queue that stays as it is keeps its places as long as nobody in it moves.
LEMMA FrameQueue ==
  ASSUME TypeOK, QueuePlaces, waitQueue' = waitQueue,
         \A h \in G : pc[h] = "queued" => pc'[h] = "queued"
  PROVE  QueuePlaces'
<1>1. AllIn(waitQueue, "queued") /\ Distinct(waitQueue) /\ waitQueue \in Seq(G)
  BY DEF QueuePlaces, TypeOK
<1>2. \A k \in 1..Len(waitQueue) : waitQueue[k] \in G
  BY <1>1
<1> QED BY <1>1, <1>2 DEF QueuePlaces, AllIn, Distinct

LEMMA FrameParked ==
  ASSUME TypeOK, ParkedPlaces, waiters' = waiters,
         \A h \in G : pc[h] = "parked" => pc'[h] = "parked"
  PROVE  ParkedPlaces'
<1>1. AllIn(waiters, "parked") /\ Distinct(waiters) /\ waiters \in Seq(G)
  BY DEF ParkedPlaces, TypeOK
<1>2. \A k \in 1..Len(waiters) : waiters[k] \in G
  BY <1>1
<1> QED BY <1>1, <1>2 DEF ParkedPlaces, AllIn, Distinct

LEMMA FrameGrant ==
  ASSUME TypeOK, GrantPlaces, micro' = micro,
         \A h \in G : pc[h] = "granted" => pc'[h] = "granted"
  PROVE  GrantPlaces'
BY Elements DEF GrantPlaces

\* The microtasks of Signal and Broadcast, when each microtask of the next
\* state that wakes somebody stood in this state, in the same order.
LEMMA FrameWake ==
  ASSUME TypeOK, WakePlaces, NEW d \in Nat,
         \A k \in 1..Len(micro') : micro'[k].kind = "wake" =>
           k + d \in 1..Len(micro) /\ micro'[k] = micro[k + d],
         Len(micro') \in Nat,
         \A k \in 1..Len(micro') : micro'[k].kind = "wake" =>
           \A m \in 1..Len(micro'[k].gs) : pc'[micro'[k].gs[m]] = "waking"
  PROVE  WakePlaces'
<1>1. \A k \in 1..Len(micro') : micro'[k].kind = "wake" => Distinct(micro'[k].gs)
  BY DEF WakePlaces
<1>2. \A k, l \in 1..Len(micro') :
        micro'[k].kind = "wake" /\ micro'[l].kind = "wake" /\ k # l =>
          ~Meet(micro'[k].gs, micro'[l].gs)
  <2> TAKE k, l \in 1..Len(micro')
  <2> HAVE micro'[k].kind = "wake" /\ micro'[l].kind = "wake" /\ k # l
  <2>1. k + d # l + d
    OBVIOUS
  <2>2. k + d \in 1..Len(micro) /\ l + d \in 1..Len(micro)
    OBVIOUS
  <2>3. micro'[k] = micro[k + d] /\ micro'[l] = micro[l + d]
    OBVIOUS
  <2> QED BY <2>1, <2>2, <2>3 DEF WakePlaces
<1> QED BY <1>1, <1>2 DEF WakePlaces, AllIn, Distinct, Meet

\* A new microtask of the other kind does not concern the places of this kind.
LEMMA AppendWake ==
  ASSUME TypeOK, GrantPlaces, NEW q \in Seq(G), micro' = Append(micro, WakeJob(q)),
         \A h \in G : pc[h] = "granted" => pc'[h] = "granted"
  PROVE  GrantPlaces'
<1>1. WakeJob(q) \in Job /\ WakeJob(q).kind # "grant"
  BY DEF WakeJob, Job
<1>2. \A k \in 1..Len(micro') :
           \/ k \in 1..Len(micro) /\ micro'[k] = micro[k]
           \/ micro'[k] = WakeJob(q)
  BY <1>1, SeqSteps DEF TypeOK
<1>3. \A k \in 1..Len(micro') : micro'[k].kind = "grant" =>
        k \in 1..Len(micro) /\ micro'[k] = micro[k]
  BY <1>1, <1>2
<1>4. \A k \in 1..Len(micro) : micro[k].kind = "grant" => micro[k].gs[1] \in G
  BY Elements DEF GrantPlaces
<1> QED BY <1>3, <1>4 DEF GrantPlaces

LEMMA AppendGrant ==
  ASSUME TypeOK, WakePlaces, NEW g \in G, micro' = Append(micro, GrantJob(g)),
         \A h \in G : pc[h] = "waking" => pc'[h] = "waking"
  PROVE  WakePlaces'
<1>0. <<g>> \in Seq(G)
  OBVIOUS
<1>1. GrantJob(g) \in Job /\ GrantJob(g).kind # "wake"
  BY <1>0 DEF GrantJob, Job
<1>2. \A k \in 1..Len(micro') :
           \/ k \in 1..Len(micro) /\ micro'[k] = micro[k]
           \/ micro'[k] = GrantJob(g)
  BY <1>1, SeqSteps DEF TypeOK
<1>3. \A k \in 1..Len(micro') : micro'[k].kind = "wake" =>
        k \in 1..Len(micro) /\ micro'[k] = micro[k]
  BY <1>1, <1>2
<1>4. \A k \in 1..Len(micro) : \A m \in 1..Len(micro[k].gs) : micro[k].gs[m] \in G
  BY Elements
<1>5. \A k \in 1..Len(micro') : micro'[k].kind = "wake" =>
        \A m \in 1..Len(micro'[k].gs) : pc'[micro'[k].gs[m]] = "waking"
  BY <1>3, <1>4 DEF WakePlaces, AllIn
<1>6. \A k \in 1..Len(micro') : micro'[k].kind = "wake" =>
        k + 0 \in 1..Len(micro) /\ micro'[k] = micro[k + 0]
  BY <1>3
<1>7. Len(micro') \in Nat /\ 0 \in Nat
  BY <1>1, SeqSteps DEF TypeOK
<1> QED BY <1>5, <1>6, <1>7, FrameWake

\* The microtasks stay as they are.
LEMMA FrameWakeSame ==
  ASSUME TypeOK, WakePlaces, micro' = micro,
         \A h \in G : pc[h] = "waking" => pc'[h] = "waking"
  PROVE  WakePlaces'
<1>1. \A k \in 1..Len(micro) : \A m \in 1..Len(micro[k].gs) : micro[k].gs[m] \in G
  BY Elements
<1>2. \A k \in 1..Len(micro) : micro[k].kind = "wake" =>
        \A m \in 1..Len(micro[k].gs) : pc'[micro[k].gs[m]] = "waking"
  BY <1>1 DEF WakePlaces, AllIn
<1>3. Len(micro') \in Nat /\ 0 \in Nat
  BY DEF TypeOK
<1>4. \A k \in 1..Len(micro') : micro'[k].kind = "wake" =>
        k + 0 \in 1..Len(micro) /\ micro'[k] = micro[k + 0]
  BY <1>3
<1> QED BY <1>2, <1>3, <1>4, FrameWake

\* Two goroutines that own the mutex are one.
LEMMA OwnerForm ==
  MutualExclusion <=>
    /\ \A g, h \in G : pc[g] \in {"granted", "critical"}
                       /\ pc[h] \in {"granted", "critical"} => g = h
    /\ locked <=> \E g \in G : pc[g] \in {"granted", "critical"}
<1>1. (\A g, h \in Owner : g = h) <=>
        \A g, h \in G : pc[g] \in {"granted", "critical"}
                        /\ pc[h] \in {"granted", "critical"} => g = h
  BY DEF Owner
<1>2. Owner # {} <=> \E g \in G : pc[g] \in {"granted", "critical"}
  BY DEF Owner
<1> QED BY <1>1, <1>2, Zenon DEF MutualExclusion

\* Unlock, by itself or inside Cond.Wait.
LEMMA ReleaseStep ==
  ASSUME IInv, NEW g \in G, pc[g] = "critical", NEW st \in {"idle", "parked"},
         Release(g, st)
  PROVE  /\ MutualExclusion' /\ QueuePlaces' /\ GrantPlaces' /\ WakePlaces'
         /\ pc'[g] = st
         /\ \A h \in G : h # g /\ pc[h] # "queued" => pc'[h] = pc[h]
<1>t. TypeOK /\ QueuePlaces /\ GrantPlaces /\ WakePlaces
  BY DEF IInv, Places
<1>o. /\ \A h \in G : pc[h] \in {"granted", "critical"} => h = g
      /\ locked
  BY OwnerForm DEF IInv
<1>1. CASE waitQueue = <<>>
  <2>1. /\ locked' = FALSE
        /\ pc' = [pc EXCEPT ![g] = st]
        /\ waitQueue' = waitQueue /\ micro' = micro
    BY <1>1 DEF Release
  <2>2. pc'[g] = st /\ \A h \in G : h # g => pc'[h] = pc[h]
    BY <1>t, <2>1 DEF TypeOK
  <2>3. MutualExclusion'
    BY <1>o, <2>1, <2>2 DEF MutualExclusion, Owner
  <2>4. QueuePlaces' /\ GrantPlaces' /\ WakePlaces'
    BY <1>t, <2>1, <2>2, FrameQueue, FrameGrant, FrameWakeSame
  <2> QED BY <2>2, <2>3, <2>4
<1>2. CASE waitQueue # <<>>
  <2> DEFINE w == Head(waitQueue)
  <2>1. /\ locked' = TRUE
        /\ waitQueue' = Tail(waitQueue)
        /\ micro' = Append(micro, GrantJob(w))
        /\ pc' = [pc EXCEPT ![g] = st, ![w] = "granted"]
    BY <1>2 DEF Release
  <2>2. /\ w = waitQueue[1] /\ w \in G /\ Len(waitQueue) >= 1
        /\ \A k \in 1..Len(waitQueue') :
             k \in Nat /\ k + 1 \in 2..Len(waitQueue)
               /\ waitQueue'[k] = waitQueue[k + 1]
    BY <1>2, <1>t, <2>1, SeqSteps DEF TypeOK
  <2>3. pc[w] = "queued"
    BY <1>t, <2>2, Elements DEF QueuePlaces, AllIn
  <2>4. /\ pc'[g] = st /\ pc'[w] = "granted" /\ w # g
        /\ \A h \in G : h # g /\ h # w => pc'[h] = pc[h]
    <3> HIDE DEF w
    <3> QED BY <1>t, <2>1, <2>2, <2>3 DEF TypeOK
  <2>5. MutualExclusion'
    <3> HIDE DEF w
    <3> QED BY <1>o, <2>1, <2>2, <2>4 DEF MutualExclusion, Owner
  <2>6. QueuePlaces'
    <3> HIDE DEF w
    <3>1. waitQueue \in Seq(G) /\ Distinct(waitQueue) /\ AllIn(waitQueue, "queued")
      BY <1>t DEF TypeOK, QueuePlaces
    <3>2. Distinct(waitQueue') /\ \A k \in 1..Len(waitQueue') : waitQueue'[k] # w
      BY <1>2, <2>1, <3>1, TailDistinct DEF w
    <3>3. \A k \in 1..Len(waitQueue') :
            pc[waitQueue'[k]] = "queued" /\ waitQueue'[k] \in G
      BY <1>t, <2>2, <3>1, Elements DEF AllIn
    <3>4. \A k \in 1..Len(waitQueue') : pc'[waitQueue'[k]] = "queued"
      BY <2>4, <3>2, <3>3
    <3> QED BY <3>2, <3>4 DEF QueuePlaces, AllIn, Distinct
  <2>7. WakePlaces'
    <3> HIDE DEF w
    <3> QED BY <1>t, <2>1, <2>2, <2>3, <2>4, AppendGrant
  <2>8. GrantPlaces'
    <3> HIDE DEF w
    <3>1. \A k \in 1..Len(micro) : micro[k].kind # "grant"
      <4> SUFFICES ASSUME NEW k \in 1..Len(micro), micro[k].kind = "grant"
                   PROVE  FALSE
        OBVIOUS
      <4>1. pc[micro[k].gs[1]] = "granted" /\ micro[k].gs[1] \in G
        BY <1>t, Elements DEF GrantPlaces
      <4> QED BY <4>1, <1>o
    <3>2. GrantJob(w) \in Job
      <4>1. <<w>> \in Seq(G)
        BY <2>2
      <4> QED BY <4>1 DEF GrantJob, Job
    <3>3. \A k \in 1..Len(micro') :
            \/ k \in 1..Len(micro) /\ micro'[k] = micro[k]
            \/ k = Len(micro) + 1 /\ micro'[k] = GrantJob(w)
      BY <1>t, <2>1, <3>2, SeqSteps DEF TypeOK
    <3>5. \A k \in 1..Len(micro') : micro'[k].kind = "grant" =>
            k = Len(micro) + 1 /\ micro'[k] = GrantJob(w)
      BY <3>1, <3>3
    <3>4. Len(GrantJob(w).gs) = 1 /\ GrantJob(w).gs[1] = w
      BY DEF GrantJob
    <3> QED BY <2>4, <3>4, <3>5 DEF GrantPlaces
  <2> HIDE DEF w
  <2>9. \A h \in G : h # g /\ pc[h] # "queued" => pc'[h] = pc[h]
    BY <2>3, <2>4
  <2> QED BY <2>4, <2>5, <2>6, <2>7, <2>8, <2>9
<1> QED BY <1>1, <1>2

\* A Signal or a Broadcast: the goroutines of a new microtask come from the
\* waiters, so no other microtask holds them.
LEMMA AddWake ==
  ASSUME TypeOK, WakePlaces, NEW q \in Seq(G), Distinct(q), AllIn(q, "parked"),
         micro' = Append(micro, WakeJob(q)),
         \A h \in G : pc[h] = "waking" => pc'[h] = "waking",
         \A k \in 1..Len(q) : pc'[q[k]] = "waking"
  PROVE  WakePlaces'
<1>1. WakeJob(q) \in Job /\ WakeJob(q).gs = q
  BY DEF WakeJob, Job
<1>2. \A k \in 1..Len(micro') :
           \/ k \in 1..Len(micro) /\ micro'[k] = micro[k]
           \/ k = Len(micro) + 1 /\ micro'[k] = WakeJob(q)
  BY <1>1, SeqSteps DEF TypeOK
<1>3. \A k \in 1..Len(micro) : micro[k].kind = "wake" =>
        /\ \A m \in 1..Len(micro[k].gs) : pc'[micro[k].gs[m]] = "waking"
        /\ Distinct(micro[k].gs)
        /\ ~Meet(micro[k].gs, q) /\ ~Meet(q, micro[k].gs)
  <2> TAKE k \in 1..Len(micro)
  <2> HAVE micro[k].kind = "wake"
  <2>1. \A m \in 1..Len(micro[k].gs) :
          micro[k].gs[m] \in G /\ pc[micro[k].gs[m]] = "waking"
    BY Elements DEF WakePlaces, AllIn
  <2>2. \A m \in 1..Len(q) : pc[q[m]] = "parked"
    BY DEF AllIn
  <2>3. Distinct(micro[k].gs)
    BY DEF WakePlaces
  <2>4. ~Meet(micro[k].gs, q) /\ ~Meet(q, micro[k].gs)
    BY <2>1, <2>2 DEF Meet
  <2> QED BY <2>1, <2>3, <2>4
<1>4. \A k \in 1..Len(micro') : micro'[k].kind = "wake" =>
        /\ \A m \in 1..Len(micro'[k].gs) : pc'[micro'[k].gs[m]] = "waking"
        /\ Distinct(micro'[k].gs)
  BY <1>1, <1>2, <1>3
<1>5. \A k, l \in 1..Len(micro') :
        micro'[k].kind = "wake" /\ micro'[l].kind = "wake" /\ k # l =>
          ~Meet(micro'[k].gs, micro'[l].gs)
  <2> TAKE k, l \in 1..Len(micro')
  <2> HAVE micro'[k].kind = "wake" /\ micro'[l].kind = "wake" /\ k # l
  <2>1. CASE /\ k \in 1..Len(micro) /\ micro'[k] = micro[k]
             /\ l \in 1..Len(micro) /\ micro'[l] = micro[l]
    BY <2>1 DEF WakePlaces
  <2>2. CASE k = Len(micro) + 1 /\ micro'[k] = WakeJob(q)
    <3>1. l \in 1..Len(micro) /\ micro'[l] = micro[l]
      BY <1>2, <2>2
    <3> QED BY <1>1, <1>3, <2>2, <3>1
  <2>3. CASE l = Len(micro) + 1 /\ micro'[l] = WakeJob(q)
    <3>1. k \in 1..Len(micro) /\ micro'[k] = micro[k]
      BY <1>2, <2>3
    <3> QED BY <1>1, <1>3, <2>3, <3>1
  <2> QED BY <1>2, <2>1, <2>2, <2>3
<1> QED BY <1>4, <1>5 DEF WakePlaces, AllIn, Distinct, Meet

\* The event loop takes the first microtask and runs it.
LEMMA ShiftMicro ==
  ASSUME TypeOK, micro # <<>>, micro' = Tail(micro)
  PROVE  /\ Len(micro') \in Nat /\ 1 \in 1..Len(micro) /\ Head(micro) = micro[1]
         /\ Head(micro) \in Job
         /\ \A k \in 1..Len(micro') :
           /\ k + 1 \in 1..Len(micro) /\ k + 1 # 1
           /\ micro'[k] = micro[k + 1]
<1>1. micro \in Seq(Job)
  BY DEF TypeOK
<1> QED BY <1>1, SeqSteps

LEMMA TailWake ==
  ASSUME TypeOK, WakePlaces, micro # <<>>, micro' = Tail(micro),
         \A k \in 2..Len(micro) : micro[k].kind = "wake" =>
           \A m \in 1..Len(micro[k].gs) : pc'[micro[k].gs[m]] = "waking"
  PROVE  WakePlaces'
<1>1. /\ Len(micro') \in Nat
      /\ \A k \in 1..Len(micro') :
           /\ k + 1 \in 1..Len(micro) /\ k + 1 # 1
           /\ micro'[k] = micro[k + 1]
  BY ShiftMicro
<1>2. \A k \in 1..Len(micro') : k + 1 \in 2..Len(micro)
  BY <1>1
<1>3. \A k \in 1..Len(micro') : micro'[k].kind = "wake" =>
        \A m \in 1..Len(micro'[k].gs) : pc'[micro'[k].gs[m]] = "waking"
  BY <1>1, <1>2
<1>4. 1 \in Nat
  OBVIOUS
<1> QED BY <1>1, <1>3, <1>4, FrameWake

LEMMA TailGrant ==
  ASSUME TypeOK, GrantPlaces, micro # <<>>, micro' = Tail(micro),
         \A k \in 2..Len(micro) : micro[k].kind = "grant" =>
           pc'[micro[k].gs[1]] = "granted"
  PROVE  GrantPlaces'
<1>1. \A k \in 1..Len(micro') :
           /\ k + 1 \in 1..Len(micro) /\ k + 1 # 1
           /\ micro'[k] = micro[k + 1]
  BY ShiftMicro
<1>2. \A k \in 1..Len(micro') : k + 1 \in 2..Len(micro)
  BY <1>1
<1>3. \A k \in 1..Len(micro') : micro'[k].kind = "grant" =>
        Len(micro'[k].gs) = 1 /\ pc'[micro'[k].gs[1]] = "granted"
  BY <1>1, <1>2 DEF GrantPlaces
<1>4. \A k, l \in 1..Len(micro') :
        micro'[k].kind = "grant" /\ micro'[l].kind = "grant" => k = l
  <2> TAKE k, l \in 1..Len(micro')
  <2> HAVE micro'[k].kind = "grant" /\ micro'[l].kind = "grant"
  <2>1. k + 1 = l + 1
    BY <1>1 DEF GrantPlaces
  <2> QED BY <2>1
<1> QED BY <1>3, <1>4 DEF GrantPlaces

\* Two queues joined, when nobody stands in both.
LEMMA JoinDistinct ==
  ASSUME NEW q \in Seq(G), NEW r \in Seq(G), Distinct(q), Distinct(r), ~Meet(q, r)
  PROVE  /\ Distinct(q \o r)
         /\ \A k \in 1..Len(q \o r) : \/ \E m \in 1..Len(q) : (q \o r)[k] = q[m]
                                      \/ \E m \in 1..Len(r) : (q \o r)[k] = r[m]
<1>1. \A k \in 1..Len(q \o r) :
        \/ k \in 1..Len(q) /\ (q \o r)[k] = q[k]
        \/ k - Len(q) \in 1..Len(r) /\ (q \o r)[k] = r[k - Len(q)]
  OBVIOUS
<1>2. \A k, l \in 1..Len(q \o r) : (q \o r)[k] = (q \o r)[l] => k = l
  <2> TAKE k, l \in 1..Len(q \o r)
  <2> HAVE (q \o r)[k] = (q \o r)[l]
  <2>1. CASE k \in 1..Len(q) /\ l \in 1..Len(q)
    BY <2>1 DEF Distinct
  <2>2. CASE k - Len(q) \in 1..Len(r) /\ l - Len(q) \in 1..Len(r)
    <3>1. (q \o r)[k] = r[k - Len(q)] /\ (q \o r)[l] = r[l - Len(q)]
      BY <2>2
    <3>2. k - Len(q) = l - Len(q)
      BY <2>2, <3>1 DEF Distinct
    <3> QED BY <3>2
  <2>3. CASE k \in 1..Len(q) /\ l - Len(q) \in 1..Len(r)
    <3>1. (q \o r)[k] = q[k] /\ (q \o r)[l] = r[l - Len(q)]
      BY <2>3
    <3> QED BY <2>3, <3>1 DEF Meet
  <2>4. CASE l \in 1..Len(q) /\ k - Len(q) \in 1..Len(r)
    <3>1. (q \o r)[l] = q[l] /\ (q \o r)[k] = r[k - Len(q)]
      BY <2>4
    <3> QED BY <2>4, <3>1 DEF Meet
  <2> QED BY <1>1, <2>1, <2>2, <2>3, <2>4
<1> QED BY <1>1, <1>2 DEF Distinct

\* The microtask of Unlock.
LEMMA RunGrantStep == IInv /\ RunGrant => MutualExclusion' /\ Places'
<1> SUFFICES ASSUME IInv, RunGrant PROVE MutualExclusion' /\ Places'
  OBVIOUS
<1>t. TypeOK /\ QueuePlaces /\ ParkedPlaces /\ GrantPlaces /\ WakePlaces
  BY DEF IInv, Places
<1> DEFINE w == Head(Head(micro).gs)
<1>1. /\ micro # <<>> /\ Head(micro).kind = "grant" /\ micro' = Tail(micro)
      /\ pc' = [pc EXCEPT ![w] = "critical"]
      /\ locked' = locked /\ waitQueue' = waitQueue /\ waiters' = waiters
  BY DEF RunGrant
<1>2. 1 \in 1..Len(micro) /\ Head(micro) = micro[1]
  BY <1>t, <1>1, ShiftMicro
<1>3. w \in G /\ pc[w] = "granted"
  <2>1. micro[1].gs \in Seq(G) /\ Len(micro[1].gs) = 1 /\ pc[micro[1].gs[1]] = "granted"
    BY <1>t, <1>1, <1>2, Elements DEF GrantPlaces
  <2>2. w = micro[1].gs[1] /\ w \in G
    BY <1>2, <2>1
  <2> QED BY <2>1, <2>2
<1> HIDE DEF w
<1>4. pc'[w] = "critical" /\ \A h \in G : h # w => pc'[h] = pc[h]
  BY <1>t, <1>1, <1>3 DEF TypeOK
<1>5. MutualExclusion'
  <2>1. \A h \in G : pc[h] \in {"granted", "critical"} => h = w
    BY <1>3, OwnerForm DEF IInv
  <2>2. locked
    BY <1>3, OwnerForm DEF IInv
  <2> QED BY <1>1, <1>3, <1>4, <2>1, <2>2 DEF MutualExclusion, Owner
<1>6. QueuePlaces' /\ ParkedPlaces'
  BY <1>t, <1>1, <1>3, <1>4, FrameQueue, FrameParked
<1>7. GrantPlaces'
  <2>1. \A k \in 2..Len(micro) : k \in 1..Len(micro) /\ k # 1
    OBVIOUS
  <2>2. \A k \in 2..Len(micro) : micro[k].kind # "grant"
    BY <1>t, <1>1, <1>2, <2>1 DEF GrantPlaces
  <2> QED BY <1>t, <1>1, <2>2, TailGrant
<1>8. WakePlaces'
  <2>1. \A k \in 2..Len(micro) : k \in 1..Len(micro)
    OBVIOUS
  <2>2. \A k \in 2..Len(micro) : micro[k].kind = "wake" =>
          \A m \in 1..Len(micro[k].gs) :
            micro[k].gs[m] \in G /\ pc[micro[k].gs[m]] = "waking"
    BY <1>t, <2>1, Elements DEF WakePlaces, AllIn
  <2>3. \A k \in 2..Len(micro) : micro[k].kind = "wake" =>
          \A m \in 1..Len(micro[k].gs) : pc'[micro[k].gs[m]] = "waking"
    BY <1>3, <1>4, <2>2
  <2> QED BY <1>t, <1>1, <2>3, TailWake
<1> QED BY <1>5, <1>6, <1>7, <1>8 DEF Places

\* The microtask of Signal or Broadcast: rest is whom it puts in the queue, and
\* first the goroutine that finds the mutex free, if any.
LEMMA RunWakeStep == IInv /\ RunWake => MutualExclusion' /\ Places'
<1> SUFFICES ASSUME IInv, RunWake PROVE MutualExclusion' /\ Places'
  OBVIOUS
<1>t. TypeOK /\ QueuePlaces /\ ParkedPlaces /\ GrantPlaces /\ WakePlaces
  BY DEF IInv, Places
<1> DEFINE gs == Head(micro).gs
           first == IF locked \/ gs = <<>> THEN <<>> ELSE <<Head(gs)>>
           rest == IF locked \/ gs = <<>> THEN gs ELSE Tail(gs)
<1>1. /\ micro # <<>> /\ Head(micro).kind = "wake" /\ micro' = Tail(micro)
      /\ waiters' = waiters
      /\ locked' = (locked \/ gs # <<>>)
      /\ waitQueue' = waitQueue \o rest
      /\ pc' = [g \in G |-> IF g \in ToSet(first) THEN "critical"
                            ELSE IF g \in ToSet(rest) THEN "queued"
                            ELSE pc[g]]
  BY DEF RunWake
<1>2. 1 \in 1..Len(micro) /\ Head(micro) = micro[1]
  BY <1>t, <1>1, ShiftMicro
<1>3. gs \in Seq(G) /\ AllIn(gs, "waking") /\ Distinct(gs)
  BY <1>t, <1>1, <1>2, Elements DEF WakePlaces
<1>4. \A k \in 2..Len(micro) : micro[k].kind = "wake" =>
        \A m \in 1..Len(micro[k].gs) :
          /\ micro[k].gs[m] \in G /\ pc[micro[k].gs[m]] = "waking"
          /\ \A n \in 1..Len(gs) : micro[k].gs[m] # gs[n]
  <2>1. \A k \in 2..Len(micro) : k \in 1..Len(micro) /\ k # 1
    OBVIOUS
  <2>2. \A k \in 2..Len(micro) : micro[k].kind = "wake" => ~Meet(micro[k].gs, gs)
    BY <1>t, <1>1, <1>2, <2>1 DEF WakePlaces
  <2>3. \A k \in 2..Len(micro) : micro[k].kind = "wake" =>
          \A m \in 1..Len(micro[k].gs) :
            micro[k].gs[m] \in G /\ pc[micro[k].gs[m]] = "waking"
    BY <1>t, <2>1, Elements DEF WakePlaces, AllIn
  <2> HIDE DEF gs
  <2> QED BY <2>2, <2>3 DEF Meet
<1> HIDE DEF gs
<1>5. /\ rest \in Seq(G) /\ Distinct(rest)
      /\ \A k \in 1..Len(rest) : \E m \in 1..Len(gs) : rest[k] = gs[m]
      /\ \A k \in 1..Len(rest) : rest[k] \notin ToSet(first)
  <2>1. CASE locked \/ gs = <<>>
    <3>1. rest = gs /\ first = <<>>
      BY <2>1
    <3>2. ToSet(first) = {}
      BY <3>1 DEF ToSet
    <3> HIDE DEF first, rest
    <3> QED BY <1>3, <3>1, <3>2
  <2>2. CASE ~(locked \/ gs = <<>>)
    <3>1. rest = Tail(gs) /\ first = <<Head(gs)>> /\ gs # <<>>
      BY <2>2
    <3>2. ToSet(first) = {Head(gs)}
      BY <3>1 DEF ToSet
    <3> HIDE DEF first, rest
    <3>3. rest \in Seq(G) /\ Distinct(rest) /\ \A k \in 1..Len(rest) : rest[k] # Head(gs)
      BY <1>3, <3>1, TailDistinct
    <3>4. \A k \in 1..Len(rest) : k + 1 \in 1..Len(gs) /\ rest[k] = gs[k + 1]
      BY <1>3, <3>1
    <3> QED BY <3>2, <3>3, <3>4
  <2> QED BY <2>1, <2>2
<1>6. \A h \in ToSet(first) : ~locked /\ gs # <<>> /\ h = gs[1] /\ h \in G
  <2>1. CASE locked \/ gs = <<>>
    <3>1. first = <<>>
      BY <2>1
    <3> QED BY <3>1 DEF ToSet
  <2>2. CASE ~(locked \/ gs = <<>>)
    <3>1. first = <<Head(gs)>> /\ gs # <<>>
      BY <2>2
    <3>2. ToSet(first) = {Head(gs)}
      BY <3>1 DEF ToSet
    <3> HIDE DEF first
    <3> QED BY <1>3, <2>2, <3>1, <3>2
  <2> QED BY <2>1, <2>2
<1>7. ~locked /\ gs # <<>> => ToSet(first) = {gs[1]} /\ gs[1] \in G
  <2> HAVE ~locked /\ gs # <<>>
  <2>1. first = <<Head(gs)>>
    OBVIOUS
  <2> HIDE DEF first
  <2> QED BY <1>3, <2>1 DEF ToSet
<1> HIDE DEF first, rest
<1>8. \A h \in ToSet(rest) : \E m \in 1..Len(gs) : h = gs[m]
  BY <1>5 DEF ToSet
<1>9. \A m \in 1..Len(gs) : gs[m] \in G /\ pc[gs[m]] = "waking"
  BY <1>3 DEF AllIn
<1>10. gs # <<>> => 1 \in 1..Len(gs)
  BY <1>3
<1>11. \A h \in G : (\A m \in 1..Len(gs) : h # gs[m]) => pc'[h] = pc[h]
  BY <1>1, <1>6, <1>8, <1>10
<1>12. \A h \in G : pc[h] # "waking" => pc'[h] = pc[h]
  BY <1>9, <1>11
<1>13. \A k \in 1..Len(rest) : rest[k] \in G /\ pc[rest[k]] = "waking" /\ pc'[rest[k]] = "queued"
  <2> TAKE k \in 1..Len(rest)
  <2>1. rest[k] \in G /\ rest[k] \in ToSet(rest) /\ rest[k] \notin ToSet(first)
    BY <1>5 DEF ToSet
  <2> QED BY <1>1, <1>5, <1>9, <2>1
<1>14. MutualExclusion'
  <2>1. \A h \in G : pc'[h] \in {"granted", "critical"} <=>
          pc[h] \in {"granted", "critical"} \/ h \in ToSet(first)
    <3> TAKE h \in G
    <3>1. CASE h \in ToSet(first)
      BY <1>1, <3>1
    <3>2. CASE h \notin ToSet(first) /\ h \in ToSet(rest)
      BY <1>1, <1>8, <1>9, <3>2
    <3>3. CASE h \notin ToSet(first) /\ h \notin ToSet(rest)
      BY <1>1, <3>3
    <3> QED BY <3>1, <3>2, <3>3
  <2>2. CASE locked
    <3>1. \A h \in G : h \notin ToSet(first)
      BY <2>2, <1>6
    <3>2. \A h \in G : pc'[h] \in {"granted", "critical"} <=>
            pc[h] \in {"granted", "critical"}
      BY <2>1, <3>1
    <3>3. locked'
      BY <1>1, <2>2
    <3>4. Owner' = Owner
      BY <3>2 DEF Owner
    <3> QED BY <2>2, <3>3, <3>4 DEF IInv, MutualExclusion
  <2>3. CASE ~locked
    <3>1. \A h \in G : pc[h] \notin {"granted", "critical"}
      BY <2>3, OwnerForm DEF IInv
    <3>2. Owner' = ToSet(first)
      BY <2>1, <3>1, <1>6 DEF Owner
    <3>3. CASE gs = <<>>
      <4>1. \A h \in ToSet(first) : FALSE
        BY <1>6, <3>3
      <4>2. ToSet(first) = {}
        BY <4>1
      <4> QED BY <1>1, <2>3, <3>2, <3>3, <4>2 DEF MutualExclusion
    <3>4. CASE gs # <<>>
      <4>1. ToSet(first) = {gs[1]} /\ locked'
        BY <1>1, <1>7, <2>3, <3>4
      <4> QED BY <3>2, <4>1 DEF MutualExclusion
    <3> QED BY <3>3, <3>4
  <2> QED BY <2>2, <2>3
<1>15. QueuePlaces'
  <2>1. waitQueue \in Seq(G) /\ Distinct(waitQueue) /\ AllIn(waitQueue, "queued")
    BY <1>t DEF TypeOK, QueuePlaces
  <2>2. \A k \in 1..Len(waitQueue) : waitQueue[k] \in G /\ pc[waitQueue[k]] = "queued"
    BY <2>1 DEF AllIn
  <2>3. ~Meet(waitQueue, rest)
    BY <2>2, <1>13 DEF Meet
  <2>4. /\ Distinct(waitQueue')
        /\ \A k \in 1..Len(waitQueue') :
             \/ \E m \in 1..Len(waitQueue) : waitQueue'[k] = waitQueue[m]
             \/ \E m \in 1..Len(rest) : waitQueue'[k] = rest[m]
    BY <1>1, <1>5, <2>1, <2>3, JoinDistinct
  <2>5. \A k \in 1..Len(waitQueue) : pc'[waitQueue[k]] = "queued"
    BY <1>12, <2>2
  <2>6. \A k \in 1..Len(waitQueue') : pc'[waitQueue'[k]] = "queued"
    BY <1>13, <2>4, <2>5
  <2> QED BY <2>4, <2>6 DEF QueuePlaces, AllIn, Distinct
<1>16. ParkedPlaces'
  BY <1>t, <1>1, <1>12, FrameParked
<1>17. GrantPlaces'
  <2>1. \A k \in 2..Len(micro) : k \in 1..Len(micro)
    OBVIOUS
  <2>2. \A k \in 2..Len(micro) : micro[k].kind = "grant" =>
          micro[k].gs[1] \in G /\ pc[micro[k].gs[1]] = "granted"
    BY <1>t, <2>1, Elements DEF GrantPlaces
  <2>3. \A k \in 2..Len(micro) : micro[k].kind = "grant" =>
          pc'[micro[k].gs[1]] = "granted"
    BY <1>12, <2>2
  <2> QED BY <1>t, <1>1, <2>3, TailGrant
<1>18. WakePlaces'
  <2>1. \A k \in 2..Len(micro) : micro[k].kind = "wake" =>
          \A m \in 1..Len(micro[k].gs) : pc'[micro[k].gs[m]] = "waking"
    BY <1>4, <1>11
  <2> QED BY <1>t, <1>1, <2>1, TailWake
<1> QED BY <1>14, <1>15, <1>16, <1>17, <1>18 DEF Places

-----------------------------------------------------------------------------
\* One step per action: what each call does to the owner and to the places.
LEMMA MutexSafe == IInv /\ [Next]_vars => MutualExclusion' /\ Places'
<1> SUFFICES ASSUME IInv, [Next]_vars PROVE MutualExclusion' /\ Places'
  OBVIOUS
<1>t. TypeOK /\ QueuePlaces /\ ParkedPlaces /\ GrantPlaces /\ WakePlaces
  BY DEF IInv, Places
<1>1. ASSUME NEW g \in G, LockFree(g) PROVE MutualExclusion' /\ Places'
  <2>1. /\ pc[g] = "idle" /\ ~locked /\ locked' = TRUE
        /\ pc' = [pc EXCEPT ![g] = "critical"]
        /\ waitQueue' = waitQueue /\ waiters' = waiters /\ micro' = micro
    BY <1>1 DEF LockFree
  <2>2. pc'[g] = "critical" /\ \A h \in G : h # g => pc'[h] = pc[h]
    BY <1>t, <2>1 DEF TypeOK
  <2>3. \A h \in G : pc[h] \notin {"granted", "critical"}
    BY <2>1, OwnerForm DEF IInv
  <2>4. MutualExclusion'
    BY <2>1, <2>2, <2>3 DEF MutualExclusion, Owner
  <2> QED BY <1>t, <2>1, <2>2, <2>4, FrameQueue, FrameParked, FrameGrant, FrameWakeSame
          DEF Places
<1>2. ASSUME NEW g \in G, LockQueues(g) PROVE MutualExclusion' /\ Places'
  <2>1. /\ pc[g] = "idle" /\ locked' = locked
        /\ pc' = [pc EXCEPT ![g] = "queued"]
        /\ waitQueue' = Append(waitQueue, g) /\ waiters' = waiters /\ micro' = micro
    BY <1>2 DEF LockQueues
  <2>2. pc'[g] = "queued" /\ \A h \in G : h # g => pc'[h] = pc[h]
    BY <1>t, <2>1 DEF TypeOK
  <2>3. Owner' = Owner
    BY <2>1, <2>2 DEF Owner
  <2>4. MutualExclusion'
    BY <2>1, <2>3 DEF IInv, MutualExclusion
  <2>5. QueuePlaces'
    <3>1. waitQueue \in Seq(G) /\ Distinct(waitQueue) /\ AllIn(waitQueue, "queued")
      BY <1>t DEF TypeOK, QueuePlaces
    <3>2. \A k \in 1..Len(waitQueue) : waitQueue[k] \in G /\ pc[waitQueue[k]] = "queued"
      BY <3>1 DEF AllIn
    <3>3. Distinct(waitQueue')
      BY <2>1, <3>1, <3>2, AppendDistinct
    <3>4. \A k \in 1..Len(waitQueue') :
            \/ k \in 1..Len(waitQueue) /\ waitQueue'[k] = waitQueue[k]
            \/ k = Len(waitQueue) + 1 /\ waitQueue'[k] = g
      BY <2>1, <3>1, SeqSteps
    <3>5. \A k \in 1..Len(waitQueue') : pc'[waitQueue'[k]] = "queued"
      BY <2>2, <3>2, <3>4
    <3> QED BY <3>3, <3>5 DEF QueuePlaces, AllIn, Distinct
  <2> QED BY <1>t, <2>1, <2>2, <2>4, <2>5, FrameParked, FrameGrant, FrameWakeSame
          DEF Places
<1>3. ASSUME UNCHANGED <<locked, waitQueue, waiters, micro, pc>>
      PROVE  MutualExclusion' /\ Places'
  <2>1. MutualExclusion'
    BY <1>3 DEF IInv, MutualExclusion, Owner
  <2> QED BY <1>t, <1>3, <2>1, FrameQueue, FrameParked, FrameGrant, FrameWakeSame
          DEF Places
<1>4. ASSUME NEW g \in G, Unlock(g) PROVE MutualExclusion' /\ Places'
  <2>1. pc[g] = "critical" /\ Release(g, "idle") /\ waiters' = waiters
    BY <1>4 DEF Unlock
  <2>2. /\ MutualExclusion' /\ QueuePlaces' /\ GrantPlaces' /\ WakePlaces'
        /\ \A h \in G : h # g /\ pc[h] # "queued" => pc'[h] = pc[h]
    BY <2>1, ReleaseStep
  <2>3. ParkedPlaces'
    BY <1>t, <2>1, <2>2, FrameParked
  <2> QED BY <2>2, <2>3 DEF Places
<1>5. ASSUME NEW g \in G, Wait(g) PROVE MutualExclusion' /\ Places'
  <2>1. /\ pc[g] = "critical" /\ Release(g, "parked")
        /\ waiters' = Append(waiters, g)
    BY <1>5 DEF Wait
  <2>2. /\ MutualExclusion' /\ QueuePlaces' /\ GrantPlaces' /\ WakePlaces'
        /\ pc'[g] = "parked"
        /\ \A h \in G : h # g /\ pc[h] # "queued" => pc'[h] = pc[h]
    BY <2>1, ReleaseStep
  <2>3. ParkedPlaces'
    <3>1. waiters \in Seq(G) /\ Distinct(waiters) /\ AllIn(waiters, "parked")
      BY <1>t DEF TypeOK, ParkedPlaces
    <3>2. \A k \in 1..Len(waiters) : waiters[k] \in G /\ pc[waiters[k]] = "parked"
      BY <3>1 DEF AllIn
    <3>3. Distinct(waiters')
      BY <2>1, <3>1, <3>2, AppendDistinct
    <3>4. \A k \in 1..Len(waiters') :
            \/ k \in 1..Len(waiters) /\ waiters'[k] = waiters[k]
            \/ k = Len(waiters) + 1 /\ waiters'[k] = g
      BY <2>1, <3>1, SeqSteps
    <3>5. \A k \in 1..Len(waiters') : pc'[waiters'[k]] = "parked"
      BY <2>1, <2>2, <3>2, <3>4
    <3> QED BY <3>3, <3>5 DEF ParkedPlaces, AllIn, Distinct
  <2> QED BY <2>2, <2>3 DEF Places
<1>6. ASSUME NEW g \in G, Signal(g) PROVE MutualExclusion' /\ Places'
  <2> DEFINE w == Head(waiters)
  <2>1. /\ waiters # <<>> /\ waiters' = Tail(waiters)
        /\ micro' = Append(micro, WakeJob(<<w>>))
        /\ pc' = [pc EXCEPT ![w] = "waking"]
        /\ locked' = locked /\ waitQueue' = waitQueue
    BY <1>6 DEF Signal
  <2>2. waiters \in Seq(G) /\ Distinct(waiters) /\ AllIn(waiters, "parked")
    BY <1>t DEF TypeOK, ParkedPlaces
  <2>3. /\ w \in G /\ w = waiters[1] /\ 1 \in 1..Len(waiters)
        /\ \A k \in 1..Len(waiters') :
             k + 1 \in 1..Len(waiters) /\ waiters'[k] = waiters[k + 1]
    BY <2>1, <2>2
  <2>4. pc[w] = "parked"
    BY <2>2, <2>3 DEF AllIn
  <2>5. Distinct(waiters') /\ \A k \in 1..Len(waiters') : waiters'[k] # w
    BY <2>1, <2>2, TailDistinct
  <2> HIDE DEF w
  <2>6. pc'[w] = "waking" /\ \A h \in G : h # w => pc'[h] = pc[h]
    BY <1>t, <2>1, <2>3 DEF TypeOK
  <2>7. MutualExclusion'
    <3>1. Owner' = Owner
      BY <2>3, <2>4, <2>6 DEF Owner
    <3> QED BY <2>1, <3>1 DEF IInv, MutualExclusion
  <2>8. ParkedPlaces'
    <3>1. \A k \in 1..Len(waiters') : waiters'[k] \in G /\ pc[waiters'[k]] = "parked"
      BY <2>2, <2>3 DEF AllIn
    <3>2. \A k \in 1..Len(waiters') : pc'[waiters'[k]] = "parked"
      BY <2>5, <2>6, <3>1
    <3> QED BY <2>5, <3>2 DEF ParkedPlaces, AllIn, Distinct
  <2>9. <<w>> \in Seq(G) /\ Distinct(<<w>>) /\ AllIn(<<w>>, "parked")
    BY <2>3, <2>4 DEF Distinct, AllIn
  <2>10. \A k \in 1..Len(<<w>>) : pc'[<<w>>[k]] = "waking"
    BY <2>6
  <2>11. WakePlaces'
    BY <1>t, <2>1, <2>3, <2>6, <2>9, <2>10, AddWake
  <2>12. GrantPlaces'
    BY <1>t, <2>1, <2>4, <2>6, <2>9, AppendWake
  <2>13. QueuePlaces'
    BY <1>t, <2>1, <2>4, <2>6, FrameQueue
  <2> QED BY <2>7, <2>8, <2>11, <2>12, <2>13 DEF Places
<1>7. ASSUME NEW g \in G, Broadcast(g) PROVE MutualExclusion' /\ Places'
  <2>1. /\ waiters' = <<>> /\ micro' = Append(micro, WakeJob(waiters))
        /\ pc' = [h \in G |-> IF h \in ToSet(waiters) THEN "waking" ELSE pc[h]]
        /\ locked' = locked /\ waitQueue' = waitQueue
    BY <1>7 DEF Broadcast
  <2>2. waiters \in Seq(G) /\ Distinct(waiters) /\ AllIn(waiters, "parked")
    BY <1>t DEF TypeOK, ParkedPlaces
  <2>3. \A k \in 1..Len(waiters) :
          waiters[k] \in G /\ pc[waiters[k]] = "parked" /\ waiters[k] \in ToSet(waiters)
    BY <2>2 DEF AllIn, ToSet
  <2>4. \A h \in ToSet(waiters) : \E k \in 1..Len(waiters) : h = waiters[k]
    BY <2>2 DEF ToSet
  <2>5. \A h \in G : pc[h] # "parked" => pc'[h] = pc[h]
    BY <2>1, <2>3, <2>4
  <2>6. \A h \in G : pc'[h] # pc[h] => pc[h] = "parked" /\ pc'[h] = "waking"
    BY <2>1, <2>5
  <2>7. MutualExclusion'
    <3>1. Owner' = Owner
      BY <2>6 DEF Owner
    <3> QED BY <2>1, <3>1 DEF IInv, MutualExclusion
  <2>8. ParkedPlaces'
    BY <2>1 DEF ParkedPlaces, AllIn, Distinct
  <2>9. \A k \in 1..Len(waiters) : pc'[waiters[k]] = "waking"
    BY <2>1, <2>3
  <2>10. WakePlaces'
    BY <1>t, <2>1, <2>2, <2>5, <2>9, AddWake
  <2>11. GrantPlaces'
    BY <1>t, <2>1, <2>2, <2>5, AppendWake
  <2>12. QueuePlaces'
    BY <1>t, <2>1, <2>5, FrameQueue
  <2> QED BY <2>7, <2>8, <2>10, <2>11, <2>12 DEF Places
<1>8. CASE RunGrant
  BY <1>8, RunGrantStep
<1>9. CASE RunWake
  BY <1>9, RunWakeStep
<1>10. ASSUME NEW g \in G, TryLockFails(g) \/ UnlockPanics(g) \/ SignalNobody(g)
       PROVE  MutualExclusion' /\ Places'
  BY <1>3, <1>10 DEF TryLockFails, UnlockPanics, SignalNobody
<1>11. CASE UNCHANGED vars
  BY <1>3, <1>11 DEF vars
<1> QED BY <1>1, <1>2, <1>4, <1>5, <1>6, <1>7, <1>8, <1>9, <1>10, <1>11
        DEF Next, Operation, RunMicrotask

-----------------------------------------------------------------------------
\* No call and no microtask loses track of whom it blocks: what Places says of
\* the queues' members holds the other way round.
LEMMA ReleaseFinds ==
  ASSUME IInv, Accounted, NEW g \in G, pc[g] = "critical",
         NEW st \in {"idle", "parked"}, Release(g, st)
  PROVE  /\ QueueHeld' /\ CalledFound'
         /\ \A h \in G : pc'[h] = "queued" => h \in ToSet(waitQueue')
         /\ \A h \in G : pc'[h] = "parked" => pc[h] = "parked" \/ h = g
<1>t. /\ pc \in [G -> State] /\ waitQueue \in Seq(G) /\ micro \in Seq(Job)
      /\ BlockedFound /\ CalledFound
  BY DEF IInv, TypeOK, Accounted
<1>s. st # "queued"
  OBVIOUS
<1>b. \A h \in G : pc[h] = "queued" => h \in ToSet(waitQueue)
  BY <1>t DEF BlockedFound
<1>1. CASE waitQueue = <<>>
  <2>1. /\ pc' = [pc EXCEPT ![g] = st] /\ waitQueue' = waitQueue /\ micro' = micro
    BY <1>1 DEF Release
  <2>2. pc'[g] = st /\ \A h \in G : h # g => pc'[h] = pc[h]
    BY <1>t, <2>1
  <2>3. QueueHeld'
    BY <1>1, <2>1 DEF QueueHeld
  <2>4. CalledFound'
    BY <1>t, <2>1, <2>2 DEF CalledFound
  <2>5. \A h \in G : pc'[h] = "queued" => h \in ToSet(waitQueue')
    BY <1>s, <1>b, <2>1, <2>2
  <2> QED BY <2>2, <2>3, <2>4, <2>5
<1>2. CASE waitQueue # <<>>
  <2> DEFINE w == Head(waitQueue)
  <2>1. /\ locked' = TRUE
        /\ waitQueue' = Tail(waitQueue)
        /\ micro' = Append(micro, GrantJob(w))
        /\ pc' = [pc EXCEPT ![g] = st, ![w] = "granted"]
    BY <1>2 DEF Release
  <2>2. w \in G /\ ToSet(waitQueue) = ToSet(waitQueue') \cup {w}
    BY <1>t, <1>2, <2>1, SetOfSeq
  <2> HIDE DEF w
  <2>3. <<w>> \in Seq(G) /\ ToSet(<<w>>) = {w}
    BY <2>2 DEF ToSet
  <2>4. GrantJob(w) \in Job /\ GrantJob(w).kind = "grant" /\ GrantJob(w).gs = <<w>>
    BY <2>3 DEF GrantJob, Job
  <2>5. ToSet(micro') = ToSet(micro) \cup {GrantJob(w)}
    BY <1>t, <2>1, <2>4, SetOfSeq
  <2>6. \A h \in G : h # w => pc'[h] = IF h = g THEN st ELSE pc[h]
    BY <1>t, <2>1, <2>2
  <2>7. pc'[w] = "granted"
    BY <1>t, <2>1, <2>2
  <2>8. QueueHeld'
    BY <2>1 DEF QueueHeld
  <2>9. \A h \in G : pc'[h] = "queued" => h \in ToSet(waitQueue')
    BY <1>s, <1>b, <2>2, <2>6, <2>7
  <2>10. CalledFound'
    BY <1>t, <2>3, <2>4, <2>5, <2>6, <2>7 DEF CalledFound
  <2> QED BY <2>6, <2>7, <2>8, <2>9, <2>10
<1> QED BY <1>1, <1>2

LEMMA MutexFinds ==
  IInv /\ Accounted /\ [Next]_vars => QueueHeld' /\ BlockedFound' /\ CalledFound'
<1> SUFFICES ASSUME IInv, Accounted, [Next]_vars
             PROVE  QueueHeld' /\ BlockedFound' /\ CalledFound'
  OBVIOUS
<1>t. /\ pc \in [G -> State] /\ waitQueue \in Seq(G) /\ waiters \in Seq(G)
      /\ micro \in Seq(Job)
      /\ QueueHeld /\ BlockedFound /\ CalledFound
  BY DEF IInv, TypeOK, Accounted
<1>1. ASSUME NEW g \in G, LockFree(g) PROVE QueueHeld' /\ BlockedFound' /\ CalledFound'
  <2>1. \A h \in G : h # g => pc'[h] = pc[h]
    BY <1>t, <1>1 DEF LockFree
  <2>2. pc'[g] = "critical"
    BY <1>t, <1>1 DEF LockFree
  <2> QED BY <1>t, <1>1, <2>1, <2>2 DEF LockFree, QueueHeld, BlockedFound, CalledFound
<1>2. ASSUME NEW g \in G, LockQueues(g)
      PROVE  QueueHeld' /\ BlockedFound' /\ CalledFound'
  <2>1. pc'[g] = "queued" /\ \A h \in G : h # g => pc'[h] = pc[h]
    BY <1>t, <1>2 DEF LockQueues
  <2>2. ToSet(waitQueue') = ToSet(waitQueue) \cup {g}
    BY <1>t, <1>2, SetOfSeq DEF LockQueues
  <2> QED BY <1>t, <1>2, <2>1, <2>2 DEF LockQueues, QueueHeld, BlockedFound, CalledFound
<1>3. ASSUME UNCHANGED <<locked, waitQueue, waiters, micro, pc>>
      PROVE  QueueHeld' /\ BlockedFound' /\ CalledFound'
  BY <1>t, <1>3 DEF QueueHeld, BlockedFound, CalledFound
<1>4. ASSUME NEW g \in G, Unlock(g) PROVE QueueHeld' /\ BlockedFound' /\ CalledFound'
  <2>1. pc[g] = "critical" /\ Release(g, "idle") /\ waiters' = waiters
    BY <1>4 DEF Unlock
  <2>2. pc'[g] = "idle"
    BY <2>1, ReleaseStep
  <2>3. /\ QueueHeld' /\ CalledFound'
        /\ \A h \in G : pc'[h] = "queued" => h \in ToSet(waitQueue')
        /\ \A h \in G : pc'[h] = "parked" => pc[h] = "parked" \/ h = g
    BY <2>1, ReleaseFinds
  <2> QED BY <1>t, <2>1, <2>2, <2>3 DEF BlockedFound
<1>5. ASSUME NEW g \in G, Wait(g) PROVE QueueHeld' /\ BlockedFound' /\ CalledFound'
  <2>1. pc[g] = "critical" /\ Release(g, "parked") /\ waiters' = Append(waiters, g)
    BY <1>5 DEF Wait
  <2>2. ToSet(waiters') = ToSet(waiters) \cup {g}
    BY <1>t, <2>1, SetOfSeq
  <2>3. /\ QueueHeld' /\ CalledFound'
        /\ \A h \in G : pc'[h] = "queued" => h \in ToSet(waitQueue')
        /\ \A h \in G : pc'[h] = "parked" => pc[h] = "parked" \/ h = g
    BY <2>1, ReleaseFinds
  <2> QED BY <1>t, <2>2, <2>3 DEF BlockedFound
<1>6. ASSUME NEW q \in Seq(G), micro' = Append(micro, WakeJob(q)),
             ToSet(waiters) \subseteq ToSet(waiters') \cup ToSet(q),
             \A h \in G : pc'[h] = IF h \in ToSet(q) THEN "waking" ELSE pc[h],
             locked' = locked, waitQueue' = waitQueue
      PROVE  QueueHeld' /\ BlockedFound' /\ CalledFound'
  <2>1. WakeJob(q) \in Job /\ WakeJob(q).kind = "wake" /\ WakeJob(q).gs = q
    BY DEF WakeJob, Job
  <2>2. ToSet(micro') = ToSet(micro) \cup {WakeJob(q)}
    BY <1>t, <1>6, <2>1, SetOfSeq
  <2>3. QueueHeld' /\ BlockedFound'
    BY <1>t, <1>6 DEF QueueHeld, BlockedFound
  <2>4. CalledFound'
    BY <1>t, <1>6, <2>1, <2>2 DEF CalledFound
  <2> QED BY <2>3, <2>4
<1>7. ASSUME NEW g \in G, Signal(g) PROVE QueueHeld' /\ BlockedFound' /\ CalledFound'
  <2> DEFINE w == Head(waiters)
  <2>1. /\ waiters # <<>> /\ waiters' = Tail(waiters)
        /\ micro' = Append(micro, WakeJob(<<w>>))
        /\ pc' = [pc EXCEPT ![w] = "waking"]
        /\ locked' = locked /\ waitQueue' = waitQueue
    BY <1>7 DEF Signal
  <2>2. w \in G /\ ToSet(waiters) = ToSet(waiters') \cup {w}
    BY <1>t, <2>1, SetOfSeq
  <2> HIDE DEF w
  <2>3. <<w>> \in Seq(G) /\ ToSet(<<w>>) = {w}
    BY <2>2 DEF ToSet
  <2>4. \A h \in G : pc'[h] = IF h \in ToSet(<<w>>) THEN "waking" ELSE pc[h]
    BY <1>t, <2>1, <2>2, <2>3
  <2> QED BY <1>6, <2>1, <2>2, <2>3, <2>4
<1>8. ASSUME NEW g \in G, Broadcast(g) PROVE QueueHeld' /\ BlockedFound' /\ CalledFound'
  BY <1>t, <1>6, <1>8 DEF Broadcast
<1>9. ASSUME RunGrant PROVE QueueHeld' /\ BlockedFound' /\ CalledFound'
  <2> DEFINE w == Head(Head(micro).gs)
  <2>1. /\ micro # <<>> /\ Head(micro).kind = "grant" /\ micro' = Tail(micro)
        /\ pc' = [pc EXCEPT ![w] = "critical"]
        /\ UNCHANGED <<locked, waitQueue, waiters>>
    BY <1>9 DEF RunGrant
  <2>2. ToSet(micro) = ToSet(micro') \cup {Head(micro)}
    BY <1>t, <2>1, SetOfSeq
  <2>3. ToSet(Head(micro).gs) = {w}
    <3>1. /\ Head(micro) = micro[1] /\ 1 \in 1..Len(micro)
          /\ Len(micro[1].gs) = 1 /\ micro[1].gs \in Seq(G)
      BY <1>t, <2>1, ShiftMicro, Elements DEF IInv, Places, GrantPlaces
    <3>2. Head(micro).gs = <<w>>
      BY <3>1
    <3> HIDE DEF w
    <3> QED BY <3>2 DEF ToSet
  <2> HIDE DEF w
  <2>4. \A h \in G : pc'[h] = IF h = w THEN "critical" ELSE pc[h]
    BY <1>t, <2>1
  <2>5. QueueHeld' /\ BlockedFound'
    BY <1>t, <2>1, <2>4 DEF QueueHeld, BlockedFound
  <2>6. CalledFound'
    BY <1>t, <2>1, <2>2, <2>3, <2>4 DEF CalledFound
  <2> QED BY <2>5, <2>6
<1>10. ASSUME RunWake PROVE QueueHeld' /\ BlockedFound' /\ CalledFound'
  <2> DEFINE gs == Head(micro).gs
             first == IF locked \/ gs = <<>> THEN <<>> ELSE <<Head(gs)>>
             rest == IF locked \/ gs = <<>> THEN gs ELSE Tail(gs)
  <2>1. /\ micro # <<>> /\ Head(micro).kind = "wake" /\ micro' = Tail(micro)
        /\ waiters' = waiters
        /\ locked' = (locked \/ gs # <<>>)
        /\ waitQueue' = waitQueue \o rest
        /\ pc' = [g \in G |-> IF g \in ToSet(first) THEN "critical"
                              ELSE IF g \in ToSet(rest) THEN "queued"
                              ELSE pc[g]]
    BY <1>10 DEF RunWake
  <2>2. ToSet(micro) = ToSet(micro') \cup {Head(micro)} /\ Head(micro).gs \in Seq(G)
    <3>1. Head(micro) \in Job
      BY <1>t, <2>1
    <3> QED BY <1>t, <2>1, <3>1, SetOfSeq, JobFields
  <2>3. rest \in Seq(G) /\ ToSet(gs) = ToSet(first) \cup ToSet(rest)
    <3>1. CASE locked \/ gs = <<>>
      <4>1. rest = gs /\ first = <<>>
        BY <3>1
      <4> HIDE DEF first, rest
      <4>2. ToSet(first) = {}
        BY <4>1 DEF ToSet
      <4> QED BY <2>2, <4>1, <4>2
    <3>2. CASE ~(locked \/ gs = <<>>)
      <4>1. rest = Tail(gs) /\ first = <<Head(gs)>> /\ gs # <<>>
        BY <3>2
      <4> HIDE DEF first, rest
      <4>2. ToSet(first) = {Head(gs)}
        BY <4>1 DEF ToSet
      <4> QED BY <2>2, <4>1, <4>2, SetOfSeq
    <3> QED BY <3>1, <3>2
  <2>4. rest # <<>> => gs # <<>>
    OBVIOUS
  <2> HIDE DEF gs, first, rest
  <2>5. ToSet(waitQueue') = ToSet(waitQueue) \cup ToSet(rest)
    BY <1>t, <2>1, <2>3, SetOfConcat
  <2>6. QueueHeld'
    <3>1. waitQueue' # <<>> => waitQueue # <<>> \/ rest # <<>>
      BY <1>t, <2>1, <2>3
    <3> QED BY <1>t, <2>1, <2>4, <3>1 DEF QueueHeld
  <2>7. BlockedFound'
    BY <1>t, <2>1, <2>5 DEF BlockedFound
  <2>8. \A h \in G : pc'[h] \in {"granted", "waking"} => pc'[h] = pc[h] /\ h \notin ToSet(gs)
    BY <2>1, <2>3
  <2>9. CalledFound'
    <3>1. ASSUME NEW h \in G, pc'[h] = "granted"
          PROVE  \E j \in ToSet(micro') : j.kind = "grant" /\ h \in ToSet(j.gs)
      BY <1>t, <2>1, <2>2, <2>8, <3>1 DEF CalledFound
    <3>2. ASSUME NEW h \in G, pc'[h] = "waking"
          PROVE  \E j \in ToSet(micro') : j.kind = "wake" /\ h \in ToSet(j.gs)
      BY <1>t, <2>1, <2>2, <2>8, <3>2 DEF CalledFound, gs
    <3> QED BY <3>1, <3>2 DEF CalledFound
  <2> QED BY <2>6, <2>7, <2>9
<1>11. ASSUME NEW g \in G, TryLockFails(g) \/ UnlockPanics(g) \/ SignalNobody(g)
       PROVE  QueueHeld' /\ BlockedFound' /\ CalledFound'
  BY <1>3, <1>11 DEF TryLockFails, UnlockPanics, SignalNobody
<1>12. CASE UNCHANGED vars
  BY <1>3, <1>12 DEF vars
<1> QED BY <1>1, <1>2, <1>4, <1>5, <1>7, <1>8, <1>9, <1>10, <1>11, <1>12
        DEF Next, Operation, RunMicrotask

\* What a call or a microtask does to the queue of Lock.
LEMMA QueueStep ==
  IInv /\ [Next]_vars =>
    \/ IsPrefix(waitQueue, waitQueue')
    \/ /\ waitQueue # <<>>
       /\ waitQueue' = Tail(waitQueue)
       /\ pc'[Head(waitQueue)] = "granted"
<1> DEFINE Kept == IsPrefix(waitQueue, waitQueue')
           Handed == /\ waitQueue # <<>>
                     /\ waitQueue' = Tail(waitQueue)
                     /\ pc'[Head(waitQueue)] = "granted"
<1> SUFFICES ASSUME IInv, [Next]_vars PROVE Kept \/ Handed
  OBVIOUS
<1>t. /\ pc \in [G -> State] /\ waitQueue \in Seq(G) /\ micro \in Seq(Job)
  BY DEF IInv, TypeOK
<1>1. ASSUME NEW q \in Seq(G), waitQueue' = waitQueue \o q PROVE Kept
  BY <1>t, <1>1, PrefixGrows
<1>2. ASSUME waitQueue' = waitQueue PROVE Kept
  <2>1. <<>> \in Seq(G) /\ waitQueue' = waitQueue \o <<>>
    BY <1>t, <1>2
  <2> QED BY <1>1, <2>1
<1>3. ASSUME NEW g \in G, NEW st \in {"idle", "parked"}, Release(g, st) PROVE Kept \/ Handed
  <2>1. CASE waitQueue = <<>>
    BY <1>2, <1>3, <2>1 DEF Release
  <2>2. CASE waitQueue # <<>>
    <3>1. /\ waitQueue' = Tail(waitQueue) /\ Head(waitQueue) \in G
          /\ pc' = [pc EXCEPT ![g] = st, ![Head(waitQueue)] = "granted"]
      BY <1>t, <1>3, <2>2 DEF Release
    <3> QED BY <1>t, <2>2, <3>1
  <2> QED BY <2>1, <2>2
<1>4. ASSUME NEW g \in G, LockQueues(g) PROVE Kept
  <2>1. <<g>> \in Seq(G) /\ waitQueue' = waitQueue \o <<g>>
    BY <1>t, <1>4 DEF LockQueues
  <2> QED BY <1>1, <2>1
<1>5. ASSUME RunWake PROVE Kept
  <2>1. Head(micro) \in Job
    BY <1>t, <1>5 DEF RunWake
  <2>2. Head(micro).gs \in Seq(G)
    BY <2>1, JobFields
  <2> DEFINE gs == Head(micro).gs
             rest == IF locked \/ gs = <<>> THEN gs ELSE Tail(gs)
  <2>3. waitQueue' = waitQueue \o rest
    BY <1>5 DEF RunWake
  <2>4. rest \in Seq(G)
    BY <2>2
  <2> HIDE DEF rest
  <2> QED BY <1>1, <2>3, <2>4
<1>6. ASSUME NEW g \in G, Unlock(g) \/ Wait(g) PROVE Kept \/ Handed
  BY <1>3, <1>6 DEF Unlock, Wait
<1>7. ASSUME NEW g \in G,
             \/ LockFree(g) \/ TryLockFails(g) \/ UnlockPanics(g)
             \/ Signal(g) \/ SignalNobody(g) \/ Broadcast(g)
      PROVE  Kept
  <2>1. waitQueue' = waitQueue
    BY <1>7 DEF LockFree, TryLockFails, UnlockPanics, Signal, SignalNobody, Broadcast
  <2> QED BY <1>2, <2>1
<1>8. CASE RunGrant
  BY <1>2, <1>8 DEF RunGrant
<1>9. CASE UNCHANGED vars
  BY <1>2, <1>9 DEF vars
<1> HIDE DEF Kept, Handed
<1> QED BY <1>4, <1>5, <1>6, <1>7, <1>8, <1>9 DEF Next, Operation, RunMicrotask

LEMMA MutexInit == Init => IInv /\ Accounted
<1> SUFFICES ASSUME Init PROVE IInv /\ Accounted
  OBVIOUS
<1>1. TypeOK
  <2>1. \A R : <<>> \in Seq(R)
    OBVIOUS
  <2>2. pc \in [G -> State] /\ locked \in BOOLEAN
    BY DEF Init, State
  <2>3. op \in [G -> 0..MaxOps]
    BY MutexMaxOps DEF Init
  <2> QED BY <2>1, <2>2, <2>3 DEF Init, TypeOK
<1>2. MutualExclusion
  BY DEF Init, MutualExclusion, Owner
<1>3. Places
  BY DEF Init, Places, QueuePlaces, ParkedPlaces, GrantPlaces, WakePlaces, AllIn, Distinct
<1>4. QueueHeld /\ BlockedFound /\ CalledFound
  BY DEF Init, QueueHeld, BlockedFound, CalledFound
<1> QED BY <1>1, <1>2, <1>3, <1>4 DEF IInv, Accounted

\* Whatever the goroutines call, no call and no microtask leaves a field of the
\* mutex, of the condition variable or of the job queue ill-formed.
THEOREM MutexTypeCorrect == Spec => []TypeOK
<1>1. Init => TypeOK
  BY MutexInit DEF IInv
<1> QED BY <1>1, MutexTypeStep, PTL DEF Spec

\* A mutex never has two owners, and _locked says whether it has one, for any
\* number of goroutines: Unlock hands the lock over inside the call, so that
\* neither a Lock or TryLock that comes before the waiter's microtask nor a
\* waiter of a Cond that locks again can take it.
THEOREM MutexMutualExclusion == Spec => []MutualExclusion
<1>1. IInv /\ [Next]_vars => IInv'
  BY MutexSafe, MutexTypeStep DEF IInv
<1>2. IInv => MutualExclusion
  BY DEF IInv
<1> QED BY MutexInit, <1>1, <1>2, PTL DEF Spec

\* No wakeup is lost, for any number of goroutines: whoever is blocked in Lock
\* or in Cond.Wait stands, once, in the queue or the microtask that will wake
\* him, and nobody queues for a free mutex.
THEOREM MutexAccounted == Spec => []Accounted
<1>1. IInv /\ Accounted /\ [Next]_vars => IInv' /\ Accounted'
  BY MutexSafe, MutexTypeStep, MutexFinds DEF IInv, Accounted
<1> QED BY MutexInit, <1>1, PTL DEF Spec

\* Lock is first come, first served: the queue only grows behind, or hands the
\* mutex to its head.
THEOREM MutexHandsOverInOrder == Spec => HandOverInOrder
<1>1. IInv /\ [Next]_vars => IInv'
  BY MutexSafe, MutexTypeStep DEF IInv
<1>2. Init => IInv
  BY MutexInit
<1>3. IInv /\ [Next]_vars =>
        [\/ IsPrefix(waitQueue, waitQueue')
         \/ /\ waitQueue # <<>>
            /\ waitQueue' = Tail(waitQueue)
            /\ pc'[Head(waitQueue)] = "granted"]_vars
  BY QueueStep
<1> QED BY <1>1, <1>2, <1>3, PTL DEF Spec, HandOverInOrder

-----------------------------------------------------------------------------
(* The inductive invariants of the other objects. *)

\* Where each goroutine is in Do says where it is with the Once's mutex, and
\* once _done is set the call of f is under way or over.
OnceTypeOK ==
  /\ done \in BOOLEAN /\ ended \in BOOLEAN
  /\ stage \in [G -> {"out", "locking", "calling"}]
  /\ runs \in Nat

OncePlaces ==
  \A g \in G :
    /\ stage[g] = "out" <=> pc[g] = "idle"
    /\ stage[g] = "calling" => pc[g] = "critical" /\ done

OnceInv ==
  /\ OnceTypeOK
  /\ part = "once" => OncePlaces
  /\ CalledOnce
  /\ done => ended \/ \E g \in G : stage[g] = "calling"
  /\ LockedDoWaitsForF

\* Whom an RWMutex has called: a microtask holds him, and only one, once.
Called == {g \in G : rwPc[g] = "called"}

JobsHold(jobs, gs) ==
  /\ \A k \in 1..Len(jobs) : Distinct(jobs[k].gs) /\ ToSet(jobs[k].gs) \subseteq gs
  /\ \A g \in gs : \E k \in 1..Len(jobs) : g \in ToSet(jobs[k].gs)
  /\ \A k, l \in 1..Len(jobs) :
       k # l => ToSet(jobs[k].gs) \cap ToSet(jobs[l].gs) = {}

RWPlaces ==
  /\ \A g \in G : /\ rwPc[g] = "wantsRead" <=> g \in ToSet(readerWaitQueue)
                  /\ rwPc[g] = "wantsWrite" <=> g \in ToSet(writerWaitQueue)
  /\ Distinct(readerWaitQueue) /\ Distinct(writerWaitQueue)
  /\ JobsHold(rwMicro, Called)
  /\ \A k \in 1..Len(rwMicro) : rwMicro[k].kind = "writer" => Len(rwMicro[k].gs) = 1

ReadersExact ==
  /\ IsFiniteSet(RW!Holding("reading"))
  /\ RW!ReadersCounted

RWInv ==
  /\ RW!RWTypeOK /\ RWPlaces /\ ReadersExact
  /\ RW!QueueHeld /\ RW!WriterFound

\* A task whose start is queued is scheduled, and its start is queued once; a
\* goroutine taken out of _waiters is called, and one microtask holds it.
StartsHold(jobs, state) ==
  /\ \A k \in 1..Len(jobs) : jobs[k].kind = "start" => state[jobs[k].t] = "scheduled"
  /\ \A k, l \in 1..Len(jobs) :
       jobs[k].kind = "start" /\ jobs[l].kind = "start" /\ jobs[k].t = jobs[l].t => k = l

WakesHold(jobs, state) ==
  /\ \A k \in 1..Len(jobs) : jobs[k].kind = "wake" =>
       \A g \in ToSet(jobs[k].gs) : state[g] = "called"
  /\ \A k, l \in 1..Len(jobs) :
       jobs[k].kind = "wake" /\ jobs[l].kind = "wake" /\ k # l =>
         ToSet(jobs[k].gs) \cap ToSet(jobs[l].gs) = {}

TasksCounted ==
  /\ IsFiniteSet(WG!Unfinished)
  /\ WG!CounterExact

AwaitedLaunched == \A g \in Waiters : \A t \in awaited[g] : task[t] # "new"

WGInv ==
  /\ WG!WaitGroupTypeOK /\ TasksCounted
  /\ StartsHold(wgMicro, task) /\ WakesHold(wgMicro, wgPc)
  /\ WG!NoWaiterLeft /\ AwaitedLaunched /\ WG!WaitCovers

SyncInv == IInv /\ Accounted /\ OnceInv /\ RWInv /\ WGInv

-----------------------------------------------------------------------------
(* Queues and the microtasks that empty them. *)

\* Each module reads a queue the same way.
LEMMA SameToSet == \A s : RW!ToSet(s) = ToSet(s) /\ WG!ToSet(s) = ToSet(s)
BY DEF RW!ToSet, WG!ToSet, ToSet

LEMMA SameCardinality ==
  \A S : RW!Cardinality(S) = Cardinality(S) /\ WG!Cardinality(S) = Cardinality(S)
BY DEF RW!Cardinality, WG!Cardinality, Cardinality

\* A queue in which nobody stands twice has as many members as places.
LEMMA DistinctLength ==
  ASSUME NEW q \in Seq(G), Distinct(q)
  PROVE  IsFiniteSet(ToSet(q)) /\ Cardinality(ToSet(q)) = Len(q)
<1>1. Len(q) \in Nat /\ q \in [1..Len(q) -> G]
  OBVIOUS
<1>2. \A x : x \in ToSet(q) <=> \E k \in 1..Len(q) : q[k] = x
  BY SetOfSeq
<1>3. q \in [1..Len(q) -> ToSet(q)]
  BY <1>1, <1>2
<1>4. q \in Surjection(1..Len(q), ToSet(q))
  BY <1>2, <1>3 DEF Surjection
<1>5. q \in Injection(1..Len(q), ToSet(q))
  BY <1>1, <1>3 DEF Injection, IsInjective, Distinct
<1>6. ExistsBijection(1..Len(q), ToSet(q))
  BY <1>4, <1>5 DEF ExistsBijection, Bijection
<1> QED BY <1>1, <1>6, FS_NatBijection, FS_CountingElements

\* The head of a queue in which nobody stands twice is not in the rest of it.
LEMMA DistinctHead ==
  ASSUME NEW q \in Seq(G), Distinct(q), q # <<>>
  PROVE  /\ Head(q) \in G /\ Tail(q) \in Seq(G) /\ Distinct(Tail(q))
         /\ Head(q) \notin ToSet(Tail(q))
         /\ ToSet(Tail(q)) = ToSet(q) \ {Head(q)}
<1>1. Head(q) \in G /\ Tail(q) \in Seq(G)
  OBVIOUS
<1>2. Distinct(Tail(q)) /\ \A k \in 1..Len(Tail(q)) : Tail(q)[k] # Head(q)
  BY TailDistinct
<1>3. Head(q) \notin ToSet(Tail(q))
  <2>1. \A x \in ToSet(Tail(q)) : \E k \in 1..Len(Tail(q)) : Tail(q)[k] = x
    BY <1>1, SetOfSeq
  <2> QED BY <1>2, <2>1
<1>4. ToSet(q) = ToSet(Tail(q)) \cup {Head(q)}
  BY SetOfSeq
<1> QED BY <1>1, <1>2, <1>3, <1>4

LEMMA DistinctAppend ==
  ASSUME NEW q \in Seq(G), Distinct(q), NEW x \in G, x \notin ToSet(q)
  PROVE  /\ Append(q, x) \in Seq(G) /\ Distinct(Append(q, x))
         /\ ToSet(Append(q, x)) = ToSet(q) \cup {x}
<1>1. \A k \in 1..Len(q) : q[k] # x
  BY SetOfSeq
<1> QED BY <1>1, AppendDistinct, SetOfSeq

LEMMA RWJobFields ==
  ASSUME NEW j \in RW!Job
  PROVE  j.kind \in {"writer", "readers"} /\ j.gs \in Seq(G)
BY DEF RW!Job

\* A microtask is queued for goroutines nobody has called yet ...
LEMMA JobsAppend ==
  ASSUME NEW jobs \in Seq(RW!Job), NEW gs, JobsHold(jobs, gs),
         NEW j \in RW!Job, Distinct(j.gs), gs \cap ToSet(j.gs) = {}
  PROVE  JobsHold(Append(jobs, j), gs \cup ToSet(j.gs))
<1> DEFINE new == Append(jobs, j)
<1>1. /\ Len(jobs) \in Nat /\ Len(new) = Len(jobs) + 1
      /\ \A k \in 1..Len(new) : \/ k \in 1..Len(jobs) /\ new[k] = jobs[k]
                                \/ k = Len(jobs) + 1 /\ new[k] = j
      /\ \A k \in 1..Len(jobs) : k \in 1..Len(new) /\ new[k] = jobs[k]
      /\ Len(new) \in 1..Len(new) /\ new[Len(new)] = j
  OBVIOUS
<1> HIDE DEF new
<1>2. /\ \A k \in 1..Len(jobs) : Distinct(jobs[k].gs) /\ ToSet(jobs[k].gs) \subseteq gs
      /\ \A g \in gs : \E k \in 1..Len(jobs) : g \in ToSet(jobs[k].gs)
      /\ \A k, l \in 1..Len(jobs) :
           k # l => ToSet(jobs[k].gs) \cap ToSet(jobs[l].gs) = {}
  BY DEF JobsHold
<1>3. \A k \in 1..Len(new) :
        Distinct(new[k].gs) /\ ToSet(new[k].gs) \subseteq gs \cup ToSet(j.gs)
  BY <1>1, <1>2
<1>4. \A g \in gs \cup ToSet(j.gs) : \E k \in 1..Len(new) : g \in ToSet(new[k].gs)
  BY <1>1, <1>2
<1>5. \A k, l \in 1..Len(new) :
        k # l => ToSet(new[k].gs) \cap ToSet(new[l].gs) = {}
  <2> TAKE k, l \in 1..Len(new)
  <2> HAVE k # l
  <2>1. CASE k \in 1..Len(jobs) /\ l \in 1..Len(jobs)
    BY <1>1, <1>2, <2>1
  <2>2. CASE k = Len(jobs) + 1 /\ l \in 1..Len(jobs)
    BY <1>1, <1>2, <2>2
  <2>3. CASE k \in 1..Len(jobs) /\ l = Len(jobs) + 1
    BY <1>1, <1>2, <2>3
  <2> QED BY <1>1, <2>1, <2>2, <2>3
<1> QED BY <1>3, <1>4, <1>5 DEF JobsHold, new

\* ... and the first microtask runs.
LEMMA JobsTail ==
  ASSUME NEW jobs \in Seq(RW!Job), NEW gs, JobsHold(jobs, gs), jobs # <<>>
  PROVE  /\ JobsHold(Tail(jobs), gs \ ToSet(Head(jobs).gs))
         /\ Head(jobs) \in RW!Job /\ Distinct(Head(jobs).gs)
         /\ ToSet(Head(jobs).gs) \subseteq gs
<1>1. /\ Len(jobs) \in Nat /\ Len(Tail(jobs)) = Len(jobs) - 1
      /\ 1 \in 1..Len(jobs) /\ Head(jobs) = jobs[1] /\ jobs[1] \in RW!Job
      /\ \A k \in 1..Len(Tail(jobs)) :
           k + 1 \in 1..Len(jobs) /\ k + 1 # 1 /\ Tail(jobs)[k] = jobs[k + 1]
      /\ \A k \in 1..Len(jobs) : k = 1 \/ (k - 1 \in 1..Len(Tail(jobs)) /\ Tail(jobs)[k - 1] = jobs[k])
  OBVIOUS
<1>2. /\ \A k \in 1..Len(jobs) : Distinct(jobs[k].gs) /\ ToSet(jobs[k].gs) \subseteq gs
      /\ \A g \in gs : \E k \in 1..Len(jobs) : g \in ToSet(jobs[k].gs)
      /\ \A k, l \in 1..Len(jobs) :
           k # l => ToSet(jobs[k].gs) \cap ToSet(jobs[l].gs) = {}
  BY DEF JobsHold
<1> DEFINE new == Tail(jobs)
<1> HIDE DEF new
<1>3. \A k \in 1..Len(new) :
        Distinct(new[k].gs) /\ ToSet(new[k].gs) \subseteq gs \ ToSet(Head(jobs).gs)
  <2> TAKE k \in 1..Len(new)
  <2>1. k + 1 \in 1..Len(jobs) /\ k + 1 # 1 /\ new[k] = jobs[k + 1]
    BY <1>1 DEF new
  <2>2. ToSet(jobs[k + 1].gs) \cap ToSet(jobs[1].gs) = {}
    BY <1>1, <1>2, <2>1
  <2> QED BY <1>1, <1>2, <2>1, <2>2
<1>4. \A g \in gs \ ToSet(Head(jobs).gs) : \E k \in 1..Len(new) : g \in ToSet(new[k].gs)
  <2> TAKE g \in gs \ ToSet(Head(jobs).gs)
  <2>1. PICK k \in 1..Len(jobs) : g \in ToSet(jobs[k].gs)
    BY <1>2
  <2>2. k # 1
    BY <1>1, <2>1
  <2> QED BY <1>1, <2>1, <2>2 DEF new
<1>5. \A k, l \in 1..Len(new) :
        k # l => ToSet(new[k].gs) \cap ToSet(new[l].gs) = {}
  <2> TAKE k, l \in 1..Len(new)
  <2> HAVE k # l
  <2>1. /\ k + 1 \in 1..Len(jobs) /\ new[k] = jobs[k + 1]
        /\ l + 1 \in 1..Len(jobs) /\ new[l] = jobs[l + 1]
        /\ k + 1 # l + 1
    BY <1>1 DEF new
  <2> QED BY <1>2, <2>1
<1> QED BY <1>1, <1>2, <1>3, <1>4, <1>5 DEF JobsHold, new

-----------------------------------------------------------------------------
(* RWMutex. *)

LEMMA RWTypes ==
  ASSUME RW!RWTypeOK
  PROVE  /\ readers \in Nat /\ writer \in BOOLEAN
         /\ readerWaitQueue \in Seq(G) /\ writerWaitQueue \in Seq(G)
         /\ rwMicro \in Seq(RW!Job) /\ rwPc \in [G -> RW!State]
         /\ rwOp \in [G -> 0..MaxOps]
BY DEF RW!RWTypeOK

\* What a step that calls nobody keeps: nobody enters or leaves a queue or
\* the called ones.
LEMMA RWQuietStep ==
  ASSUME RW!RWTypeOK, RWPlaces, NEW g \in G, NEW st \in {"idle", "reading", "writing"},
         rwPc[g] \in {"idle", "reading", "writing"},
         rwPc' = [rwPc EXCEPT ![g] = st],
         UNCHANGED <<readerWaitQueue, writerWaitQueue, rwMicro>>
  PROVE  RWPlaces'
<1>1. \A h \in G : rwPc'[h] = IF h = g THEN st ELSE rwPc[h]
  BY RWTypes
<1>2. Called' = Called
  BY <1>1 DEF Called
<1>3. \A h \in G : /\ rwPc'[h] = "wantsRead" <=> rwPc[h] = "wantsRead"
                   /\ rwPc'[h] = "wantsWrite" <=> rwPc[h] = "wantsWrite"
  BY <1>1
<1> QED BY <1>2, <1>3 DEF RWPlaces

\* _wakeUpWaiters: it hands the lock to the first writer, calls every waiting
\* reader, or finds nobody it may call.
LEMMA WakesWriter ==
  ASSUME RW!RWTypeOK, RWPlaces, NEW g \in G, rwPc[g] \in {"reading", "writing"},
         writerWaitQueue # <<>>, UNCHANGED readerWaitQueue,
         writerWaitQueue' = Tail(writerWaitQueue),
         rwMicro' = Append(rwMicro, RW!WriterJob(Head(writerWaitQueue))),
         rwPc' = [rwPc EXCEPT ![g] = "idle", ![Head(writerWaitQueue)] = "called"]
  PROVE  /\ RWPlaces' /\ writerWaitQueue' \in Seq(G) /\ rwMicro' \in Seq(RW!Job)
         /\ rwPc' \in [G -> RW!State]
         /\ \A h \in G : h # g => \/ rwPc'[h] = rwPc[h]
                                  \/ rwPc[h] = "wantsWrite" /\ rwPc'[h] = "called"
         /\ rwPc'[g] = "idle"
         /\ RW!WriterJob(Head(writerWaitQueue)) \in ToSet(rwMicro')
<1> DEFINE w == Head(writerWaitQueue)
           j == RW!WriterJob(w)
<1>p. /\ \A h \in G : /\ rwPc[h] = "wantsRead" <=> h \in ToSet(readerWaitQueue)
                      /\ rwPc[h] = "wantsWrite" <=> h \in ToSet(writerWaitQueue)
      /\ Distinct(readerWaitQueue) /\ Distinct(writerWaitQueue)
      /\ JobsHold(rwMicro, Called)
      /\ \A k \in 1..Len(rwMicro) : rwMicro[k].kind = "writer" => Len(rwMicro[k].gs) = 1
  BY DEF RWPlaces
<1>1. /\ w \in G /\ writerWaitQueue' \in Seq(G) /\ Distinct(writerWaitQueue')
      /\ ToSet(writerWaitQueue') = ToSet(writerWaitQueue) \ {w}
  BY <1>p, RWTypes, DistinctHead
<1>2. w \in ToSet(writerWaitQueue)
  BY RWTypes, SetOfSeq
<1> HIDE DEF w
<1>3. <<w>> \in Seq(G) /\ ToSet(<<w>>) = {w} /\ Distinct(<<w>>) /\ Len(<<w>>) = 1
  BY <1>1 DEF ToSet, Distinct
<1>4. j \in RW!Job /\ j.gs = <<w>>
  BY <1>3 DEF RW!WriterJob, RW!Job
<1>5. rwPc[w] = "wantsWrite" /\ w # g
  BY <1>p, <1>1, <1>2
<1>6. /\ rwPc'[w] = "called" /\ rwPc'[g] = "idle"
      /\ \A h \in G : h # w /\ h # g => rwPc'[h] = rwPc[h]
  BY <1>1, <1>5, RWTypes DEF w
<1>7. Called' = Called \cup {w} /\ w \notin Called
  BY <1>1, <1>5, <1>6 DEF Called
<1>8. rwMicro' = Append(rwMicro, j)
  BY DEF w
<1>9. JobsHold(rwMicro', Called')
  <2>1. Called \cap ToSet(j.gs) = {} /\ Distinct(j.gs)
    BY <1>3, <1>4, <1>7
  <2>2. JobsHold(Append(rwMicro, j), Called \cup ToSet(j.gs))
    BY <1>p, <1>4, <2>1, RWTypes, JobsAppend
  <2>3. Called' = Called \cup ToSet(j.gs)
    BY <1>3, <1>4, <1>7
  <2> QED BY <1>8, <2>2, <2>3
<1>10. /\ rwMicro' \in Seq(RW!Job)
       /\ \A k \in 1..Len(rwMicro') : \/ k \in 1..Len(rwMicro) /\ rwMicro'[k] = rwMicro[k]
                                      \/ rwMicro'[k] = j
       /\ ToSet(rwMicro') = ToSet(rwMicro) \cup {j}
  BY <1>4, <1>8, RWTypes, SeqSteps, SetOfSeq
<1>11. \A k \in 1..Len(rwMicro') : rwMicro'[k].kind = "writer" => Len(rwMicro'[k].gs) = 1
  BY <1>p, <1>3, <1>4, <1>10
<1>12. \A h \in G : /\ rwPc'[h] = "wantsRead" <=> h \in ToSet(readerWaitQueue')
                    /\ rwPc'[h] = "wantsWrite" <=> h \in ToSet(writerWaitQueue')
  BY <1>p, <1>1, <1>5, <1>6
<1>13. RWPlaces'
  BY <1>p, <1>1, <1>9, <1>11, <1>12 DEF RWPlaces
<1>14. rwPc' \in [G -> RW!State]
  BY RWTypes DEF RW!State
<1> QED BY <1>1, <1>5, <1>6, <1>10, <1>13, <1>14 DEF w

LEMMA WakesReaders ==
  ASSUME RW!RWTypeOK, RWPlaces, NEW g \in G, rwPc[g] \in {"reading", "writing"},
         readerWaitQueue' = <<>>, UNCHANGED writerWaitQueue,
         rwMicro' = Append(rwMicro, RW!ReadersJob(readerWaitQueue)),
         rwPc' = [h \in G |-> IF h = g THEN "idle"
                              ELSE IF h \in ToSet(readerWaitQueue) THEN "called"
                              ELSE rwPc[h]]
  PROVE  /\ RWPlaces' /\ readerWaitQueue' \in Seq(G) /\ rwMicro' \in Seq(RW!Job)
         /\ rwPc' \in [G -> RW!State]
         /\ \A h \in G : h # g => \/ rwPc'[h] = rwPc[h]
                                  \/ rwPc[h] = "wantsRead" /\ rwPc'[h] = "called"
         /\ rwPc'[g] = "idle"
         /\ ToSet(rwMicro) \subseteq ToSet(rwMicro')
<1> DEFINE j == RW!ReadersJob(readerWaitQueue)
<1>p. /\ \A h \in G : /\ rwPc[h] = "wantsRead" <=> h \in ToSet(readerWaitQueue)
                      /\ rwPc[h] = "wantsWrite" <=> h \in ToSet(writerWaitQueue)
      /\ Distinct(readerWaitQueue) /\ Distinct(writerWaitQueue)
      /\ JobsHold(rwMicro, Called)
      /\ \A k \in 1..Len(rwMicro) : rwMicro[k].kind = "writer" => Len(rwMicro[k].gs) = 1
  BY DEF RWPlaces
<1>1. j \in RW!Job /\ j.gs = readerWaitQueue /\ j.kind = "readers"
  BY RWTypes DEF RW!ReadersJob, RW!Job
<1> HIDE DEF j
<1>2. ToSet(readerWaitQueue) \subseteq G
  BY RWTypes, SetOfSeq
<1>3. /\ Called' = Called \cup ToSet(readerWaitQueue)
      /\ Called \cap ToSet(readerWaitQueue) = {}
  BY <1>p, <1>2 DEF Called
<1>4. rwMicro' = Append(rwMicro, j)
  BY DEF j
<1>5. JobsHold(rwMicro', Called')
  <2>1. Called \cap ToSet(j.gs) = {} /\ Distinct(j.gs)
    BY <1>p, <1>1, <1>3
  <2>2. JobsHold(Append(rwMicro, j), Called \cup ToSet(j.gs))
    BY <1>p, <1>1, <2>1, RWTypes, JobsAppend
  <2> QED BY <1>1, <1>3, <1>4, <2>2
<1>6. /\ rwMicro' \in Seq(RW!Job)
      /\ \A k \in 1..Len(rwMicro') : \/ k \in 1..Len(rwMicro) /\ rwMicro'[k] = rwMicro[k]
                                     \/ rwMicro'[k] = j
      /\ ToSet(rwMicro') = ToSet(rwMicro) \cup {j}
  BY <1>1, <1>4, RWTypes, SeqSteps, SetOfSeq
<1>7. \A k \in 1..Len(rwMicro') : rwMicro'[k].kind = "writer" => Len(rwMicro'[k].gs) = 1
  BY <1>p, <1>1, <1>6
<1>8. ToSet(<<>>) = {} /\ Distinct(<<>>) /\ <<>> \in Seq(G)
  BY DEF ToSet, Distinct
<1>9. \A h \in G : /\ rwPc'[h] = "wantsRead" <=> h \in ToSet(readerWaitQueue')
                   /\ rwPc'[h] = "wantsWrite" <=> h \in ToSet(writerWaitQueue')
  BY <1>p, <1>8
<1>10. RWPlaces'
  BY <1>p, <1>5, <1>7, <1>8, <1>9 DEF RWPlaces
<1>11. rwPc' \in [G -> RW!State]
  BY RWTypes DEF RW!State
<1> QED BY <1>p, <1>6, <1>8, <1>10, <1>11

LEMMA WakeUpStep ==
  ASSUME RW!RWTypeOK, RWPlaces, RW!WriterFound, NEW g \in G,
         rwPc[g] \in {"reading", "writing"}, NEW r \in Nat, NEW w \in BOOLEAN,
         w => rwPc[g] = "reading" /\ writer,
         RW!WakeUpWaiters(g, r, w)
  PROVE  /\ RWPlaces' /\ RW!WriterFound'
         /\ writer' \in BOOLEAN
         /\ readerWaitQueue' \in Seq(G) /\ writerWaitQueue' \in Seq(G)
         /\ rwMicro' \in Seq(RW!Job) /\ rwPc' \in [G -> RW!State]
         /\ RW!Holding("reading")' = RW!Holding("reading") \ {g}
         /\ readerWaitQueue' # <<>> \/ writerWaitQueue' # <<>> => writer' \/ r # 0
<1> DEFINE Quiet == \A h \in G : h # g =>
                      \/ rwPc'[h] = rwPc[h]
                      \/ rwPc[h] \in {"wantsRead", "wantsWrite"} /\ rwPc'[h] = "called"
<1>1. ASSUME Quiet, rwPc'[g] = "idle"
      PROVE  RW!Holding("reading")' = RW!Holding("reading") \ {g}
  BY <1>1 DEF RW!Holding
<1>2. ASSUME Quiet, writer' = w, ToSet(rwMicro) \subseteq ToSet(rwMicro')
      PROVE  RW!WriterFound'
  <2>1. CASE ~w
    BY <1>2, <2>1 DEF RW!WriterFound
  <2>2. CASE w
    <3>1. RW!Holding("writing") \subseteq RW!Holding("writing")'
      BY <1>2, <2>2 DEF RW!Holding
    <3> QED BY <1>2, <2>2, <3>1, SameToSet DEF RW!WriterFound
  <2> QED BY <2>1, <2>2
<1>3. CASE /\ writerWaitQueue # <<>> /\ r = 0
           /\ writer' = TRUE
           /\ writerWaitQueue' = Tail(writerWaitQueue)
           /\ rwMicro' = Append(rwMicro, RW!WriterJob(Head(writerWaitQueue)))
           /\ rwPc' = [rwPc EXCEPT ![g] = "idle", ![Head(writerWaitQueue)] = "called"]
           /\ UNCHANGED readerWaitQueue
  <2>1. /\ RWPlaces' /\ writerWaitQueue' \in Seq(G) /\ rwMicro' \in Seq(RW!Job)
        /\ rwPc' \in [G -> RW!State] /\ Quiet /\ rwPc'[g] = "idle"
        /\ RW!WriterJob(Head(writerWaitQueue)) \in ToSet(rwMicro')
    BY <1>3, WakesWriter
  <2>2. RW!WriterFound'
    BY <2>1, SameToSet DEF RW!WriterFound, RW!WriterJob
  <2> QED BY <1>1, <1>3, <2>1, <2>2, RWTypes
<1>4. CASE /\ ~(writerWaitQueue # <<>> /\ r = 0)
           /\ readerWaitQueue # <<>> /\ ~w
           /\ writer' = w
           /\ readerWaitQueue' = <<>>
           /\ rwMicro' = Append(rwMicro, RW!ReadersJob(readerWaitQueue))
           /\ rwPc' = [h \in G |-> IF h = g THEN "idle"
                                   ELSE IF h \in ToSet(readerWaitQueue) THEN "called"
                                   ELSE rwPc[h]]
           /\ UNCHANGED writerWaitQueue
  <2>1. /\ RWPlaces' /\ readerWaitQueue' \in Seq(G) /\ rwMicro' \in Seq(RW!Job)
        /\ rwPc' \in [G -> RW!State] /\ Quiet /\ rwPc'[g] = "idle"
        /\ ToSet(rwMicro) \subseteq ToSet(rwMicro')
    BY <1>4, WakesReaders
  <2>2. RW!WriterFound'
    BY <1>2, <1>4, <2>1
  <2> QED BY <1>1, <1>4, <2>1, <2>2, RWTypes
<1>5. CASE /\ ~(writerWaitQueue # <<>> /\ r = 0)
           /\ ~(readerWaitQueue # <<>> /\ ~w)
           /\ writer' = w
           /\ rwPc' = [rwPc EXCEPT ![g] = "idle"]
           /\ UNCHANGED <<readerWaitQueue, writerWaitQueue, rwMicro>>
  <2>1. RWPlaces'
    BY <1>5, RWQuietStep
  <2>2. Quiet /\ rwPc'[g] = "idle" /\ rwPc' \in [G -> RW!State]
    BY <1>5, RWTypes DEF RW!State
  <2>3. RW!WriterFound'
    BY <1>2, <1>5, <2>2
  <2> QED BY <1>1, <1>5, <2>1, <2>2, <2>3, RWTypes
<1> QED BY <1>3, <1>4, <1>5, SameToSet DEF RW!WakeUpWaiters

\* The conditions on the flags, for a step that moves one goroutine.
LEMMA RWStep == RWInv /\ [RW!Next]_rwVars => RWInv'
<1> SUFFICES ASSUME RWInv, [RW!Next]_rwVars PROVE RWInv'
  OBVIOUS
<1>t. /\ RW!RWTypeOK /\ RWPlaces /\ ReadersExact /\ RW!QueueHeld /\ RW!WriterFound
      /\ readers = Cardinality(RW!Holding("reading"))
      /\ IsFiniteSet(RW!Holding("reading"))
  BY SameCardinality DEF RWInv, ReadersExact, RW!ReadersCounted
<1>c. ASSUME NEW g \in G, RW!Call(g)
      PROVE  rwPc[g] = "idle" /\ rwOp' \in [G -> 0..MaxOps]
  BY <1>t, <1>c, MutexMaxOps, RWTypes DEF RW!Call
<1>k. ASSUME readers' = readers, RW!Holding("reading")' = RW!Holding("reading")
      PROVE  ReadersExact'
  BY <1>t, <1>k DEF ReadersExact, RW!ReadersCounted
<1>m. ASSUME NEW g \in G, NEW st \in RW!State, rwPc' = [rwPc EXCEPT ![g] = st]
      PROVE  /\ rwPc' \in [G -> RW!State] /\ rwPc'[g] = st
             /\ \A h \in G : h # g => rwPc'[h] = rwPc[h]
  BY <1>t, <1>m, RWTypes
<1>1. ASSUME NEW g \in G, RW!Lock(g) PROVE RWInv'
  <2>1. /\ rwPc[g] = "idle" /\ writer' = TRUE /\ rwOp' \in [G -> 0..MaxOps]
        /\ rwPc' = [rwPc EXCEPT ![g] = "writing"]
        /\ UNCHANGED <<readers, readerWaitQueue, writerWaitQueue, rwMicro>>
    BY <1>1, <1>c DEF RW!Lock
  <2>2. /\ rwPc' \in [G -> RW!State] /\ rwPc'[g] = "writing"
        /\ \A h \in G : h # g => rwPc'[h] = rwPc[h]
    BY <1>m, <2>1 DEF RW!State
  <2>3. RWPlaces'
    BY <1>t, <2>1, RWQuietStep
  <2>4. RW!Holding("reading")' = RW!Holding("reading") /\ g \in RW!Holding("writing")'
    BY <2>1, <2>2 DEF RW!Holding
  <2>5. RW!RWTypeOK'
    BY <1>t, <2>1, <2>2 DEF RW!RWTypeOK
  <2> QED BY <1>k, <2>1, <2>3, <2>4, <2>5 DEF RWInv, RW!QueueHeld, RW!WriterFound
<1>2. ASSUME NEW g \in G, NEW st \in {"wantsRead", "wantsWrite"}, RW!Call(g),
             UNCHANGED <<readers, writer, rwMicro>>,
             rwPc' = [rwPc EXCEPT ![g] = st],
             readerWaitQueue' =
               IF st = "wantsRead" THEN Append(readerWaitQueue, g) ELSE readerWaitQueue,
             writerWaitQueue' =
               IF st = "wantsWrite" THEN Append(writerWaitQueue, g) ELSE writerWaitQueue
      PROVE  RW!RWTypeOK' /\ RWPlaces' /\ ReadersExact' /\ RW!WriterFound'
  <2>1. /\ rwPc' \in [G -> RW!State] /\ rwPc'[g] = st /\ rwPc[g] = "idle"
        /\ \A h \in G : h # g => rwPc'[h] = rwPc[h]
    BY <1>m, <1>2, <1>c DEF RW!State
  <2>2. /\ \A h \in G : /\ rwPc[h] = "wantsRead" <=> h \in ToSet(readerWaitQueue)
                        /\ rwPc[h] = "wantsWrite" <=> h \in ToSet(writerWaitQueue)
        /\ Distinct(readerWaitQueue) /\ Distinct(writerWaitQueue)
    BY <1>t DEF RWPlaces
  <2>3. /\ readerWaitQueue' \in Seq(G) /\ Distinct(readerWaitQueue')
        /\ ToSet(readerWaitQueue') =
             IF st = "wantsRead" THEN ToSet(readerWaitQueue) \cup {g} ELSE ToSet(readerWaitQueue)
    BY <1>t, <1>2, <2>1, <2>2, RWTypes, DistinctAppend
  <2>4. /\ writerWaitQueue' \in Seq(G) /\ Distinct(writerWaitQueue')
        /\ ToSet(writerWaitQueue') =
             IF st = "wantsWrite" THEN ToSet(writerWaitQueue) \cup {g} ELSE ToSet(writerWaitQueue)
    BY <1>t, <1>2, <2>1, <2>2, RWTypes, DistinctAppend
  <2>5. Called' = Called
    BY <2>1 DEF Called
  <2>6. \A h \in G : /\ rwPc'[h] = "wantsRead" <=> h \in ToSet(readerWaitQueue')
                     /\ rwPc'[h] = "wantsWrite" <=> h \in ToSet(writerWaitQueue')
    BY <2>1, <2>2, <2>3, <2>4
  <2>7. RWPlaces'
    BY <1>t, <1>2, <2>3, <2>4, <2>5, <2>6 DEF RWPlaces
  <2>8. /\ RW!Holding("reading")' = RW!Holding("reading")
        /\ RW!Holding("writing")' = RW!Holding("writing")
    BY <2>1 DEF RW!Holding
  <2>9. RW!RWTypeOK'
    BY <1>t, <1>2, <1>c, <2>1, <2>3, <2>4 DEF RW!RWTypeOK
  <2> QED BY <1>t, <1>2, <1>k, <2>7, <2>8, <2>9 DEF RW!WriterFound
<1>3. ASSUME NEW g \in G, RW!LockQueues(g) PROVE RWInv'
  <2>1. RW!RWTypeOK' /\ RWPlaces' /\ ReadersExact' /\ RW!WriterFound'
    BY <1>2, <1>3 DEF RW!LockQueues
  <2>2. RW!QueueHeld'
    BY <1>t, <1>3, RWTypes DEF RW!LockQueues, RW!CanWrite, RW!QueueHeld
  <2> QED BY <2>1, <2>2 DEF RWInv
<1>4. ASSUME NEW g \in G, RW!RLockQueues(g) PROVE RWInv'
  <2>1. RW!RWTypeOK' /\ RWPlaces' /\ ReadersExact' /\ RW!WriterFound'
    BY <1>2, <1>4 DEF RW!RLockQueues
  <2>2. RW!QueueHeld'
    BY <1>t, <1>4 DEF RW!RLockQueues, RW!CanRead, RW!QueueHeld
  <2> QED BY <2>1, <2>2 DEF RWInv
<1>5. ASSUME NEW g \in G, RW!RLock(g) PROVE RWInv'
  <2>1. /\ rwPc[g] = "idle" /\ readers' = readers + 1 /\ rwOp' \in [G -> 0..MaxOps]
        /\ rwPc' = [rwPc EXCEPT ![g] = "reading"]
        /\ UNCHANGED <<writer, readerWaitQueue, writerWaitQueue, rwMicro>>
    BY <1>5, <1>c DEF RW!RLock
  <2>2. /\ rwPc' \in [G -> RW!State] /\ rwPc'[g] = "reading"
        /\ \A h \in G : h # g => rwPc'[h] = rwPc[h]
    BY <1>m, <2>1 DEF RW!State
  <2>3. RWPlaces'
    BY <1>t, <2>1, RWQuietStep
  <2>4. /\ RW!Holding("reading")' = RW!Holding("reading") \cup {g}
        /\ g \notin RW!Holding("reading")
        /\ RW!Holding("writing")' = RW!Holding("writing")
    BY <2>1, <2>2 DEF RW!Holding
  <2>5. ReadersExact'
    BY <1>t, <2>1, <2>4, FS_AddElement, SameCardinality DEF ReadersExact, RW!ReadersCounted
  <2>6. RW!RWTypeOK' /\ readers' > 0
    BY <1>t, <2>1, <2>2 DEF RW!RWTypeOK
  <2> QED BY <1>t, <2>1, <2>3, <2>4, <2>5, <2>6 DEF RWInv, RW!QueueHeld, RW!WriterFound
<1>6. ASSUME NEW g \in G, RW!Unlock(g) PROVE RWInv'
  <2>1. /\ rwPc[g] = "writing" /\ RW!WakeUpWaiters(g, readers, FALSE)
        /\ readers' = readers /\ rwOp' = rwOp /\ readers \in Nat
    BY <1>t, <1>6, RWTypes DEF RW!Unlock
  <2>2. /\ RWPlaces' /\ RW!WriterFound'
        /\ writer' \in BOOLEAN
        /\ readerWaitQueue' \in Seq(G) /\ writerWaitQueue' \in Seq(G)
        /\ rwMicro' \in Seq(RW!Job) /\ rwPc' \in [G -> RW!State]
        /\ RW!Holding("reading")' = RW!Holding("reading") \ {g}
        /\ readerWaitQueue' # <<>> \/ writerWaitQueue' # <<>> => writer' \/ readers # 0
    BY <1>t, <2>1, WakeUpStep
  <2>3. RW!Holding("reading")' = RW!Holding("reading")
    BY <2>1, <2>2 DEF RW!Holding
  <2>4. RW!RWTypeOK'
    BY <1>t, <2>1, <2>2 DEF RW!RWTypeOK
  <2> QED BY <1>k, <2>1, <2>2, <2>3, <2>4 DEF RWInv, RW!QueueHeld
<1>7. ASSUME NEW g \in G, RW!UnlockPanics(g) PROVE RWInv'
  <2>1. /\ rwPc[g] = "writing" /\ ~writer
        /\ rwPc' = [rwPc EXCEPT ![g] = "idle"]
        /\ UNCHANGED <<readers, writer, readerWaitQueue, writerWaitQueue, rwMicro, rwOp>>
    BY <1>7 DEF RW!UnlockPanics
  <2>2. /\ rwPc' \in [G -> RW!State] /\ rwPc'[g] = "idle"
        /\ \A h \in G : h # g => rwPc'[h] = rwPc[h]
    BY <1>m, <2>1 DEF RW!State
  <2>3. RWPlaces'
    BY <1>t, <2>1, RWQuietStep
  <2>4. RW!Holding("reading")' = RW!Holding("reading")
    BY <2>1, <2>2 DEF RW!Holding
  <2>5. RW!RWTypeOK'
    BY <1>t, <2>1, <2>2 DEF RW!RWTypeOK
  <2> QED BY <1>t, <1>k, <2>1, <2>3, <2>4, <2>5 DEF RWInv, RW!QueueHeld, RW!WriterFound
<1>8. ASSUME NEW g \in G, RW!RUnlock(g) PROVE RWInv'
  <2>1. /\ rwPc[g] = "reading" /\ readers > 0 /\ readers' = readers - 1
        /\ rwOp' = rwOp /\ readers' \in Nat
    BY <1>t, <1>8, RWTypes DEF RW!RUnlock
  <2>2. ASSUME RW!Holding("reading")' = RW!Holding("reading") \ {g}
        PROVE  ReadersExact'
    <3>1. g \in RW!Holding("reading")
      BY <2>1 DEF RW!Holding
    <3> QED BY <1>t, <2>1, <2>2, <3>1, FS_RemoveElement, SameCardinality
              DEF ReadersExact, RW!ReadersCounted
  <2>3. CASE readers = 1
    <3>1. RW!WakeUpWaiters(g, 0, writer) /\ writer \in BOOLEAN
      BY <1>t, <1>8, <2>3, RWTypes DEF RW!RUnlock
    <3>2. /\ RWPlaces' /\ RW!WriterFound'
          /\ writer' \in BOOLEAN
          /\ readerWaitQueue' \in Seq(G) /\ writerWaitQueue' \in Seq(G)
          /\ rwMicro' \in Seq(RW!Job) /\ rwPc' \in [G -> RW!State]
          /\ RW!Holding("reading")' = RW!Holding("reading") \ {g}
          /\ readerWaitQueue' # <<>> \/ writerWaitQueue' # <<>> => writer' \/ 0 # 0
      BY <1>t, <2>1, <3>1, WakeUpStep
    <3>3. RW!RWTypeOK'
      BY <1>t, <2>1, <3>2 DEF RW!RWTypeOK
    <3> QED BY <2>2, <3>2, <3>3 DEF RWInv, RW!QueueHeld
  <2>4. CASE readers # 1
    <3>1. /\ rwPc' = [rwPc EXCEPT ![g] = "idle"]
          /\ UNCHANGED <<writer, readerWaitQueue, writerWaitQueue, rwMicro>>
      BY <1>8, <2>4 DEF RW!RUnlock
    <3>2. /\ rwPc' \in [G -> RW!State] /\ rwPc'[g] = "idle"
          /\ \A h \in G : h # g => rwPc'[h] = rwPc[h]
      BY <1>m, <3>1 DEF RW!State
    <3>3. RWPlaces'
      BY <1>t, <2>1, <3>1, RWQuietStep
    <3>4. /\ RW!Holding("reading")' = RW!Holding("reading") \ {g}
          /\ RW!Holding("writing")' = RW!Holding("writing")
      BY <2>1, <3>2 DEF RW!Holding
    <3>5. RW!RWTypeOK' /\ readers' > 0
      BY <1>t, <2>1, <2>4, <3>1, <3>2 DEF RW!RWTypeOK
    <3> QED BY <1>t, <2>2, <3>1, <3>3, <3>4, <3>5 DEF RWInv, RW!QueueHeld, RW!WriterFound
  <2> QED BY <2>3, <2>4
<1>9. ASSUME rwMicro # <<>>, rwMicro' = Tail(rwMicro), NEW st \in {"reading", "writing"},
             rwPc' = [g \in G |-> IF g \in ToSet(Head(rwMicro).gs) THEN st ELSE rwPc[g]],
             UNCHANGED <<writer, readerWaitQueue, writerWaitQueue, rwOp>>,
             readers' \in Nat
      PROVE  /\ RW!RWTypeOK' /\ RWPlaces'
             /\ ToSet(Head(rwMicro).gs) \subseteq Called
             /\ Head(rwMicro) \in RW!Job /\ Distinct(Head(rwMicro).gs)
             /\ ToSet(rwMicro) = ToSet(rwMicro') \cup {Head(rwMicro)}
  <2> DEFINE gs == ToSet(Head(rwMicro).gs)
  <2>1. /\ \A h \in G : /\ rwPc[h] = "wantsRead" <=> h \in ToSet(readerWaitQueue)
                        /\ rwPc[h] = "wantsWrite" <=> h \in ToSet(writerWaitQueue)
        /\ Distinct(readerWaitQueue) /\ Distinct(writerWaitQueue)
        /\ JobsHold(rwMicro, Called)
        /\ \A k \in 1..Len(rwMicro) : rwMicro[k].kind = "writer" => Len(rwMicro[k].gs) = 1
    BY <1>t DEF RWPlaces
  <2>2. rwMicro \in Seq(RW!Job)
    BY <1>t, RWTypes
  <2>3. /\ JobsHold(rwMicro', Called \ gs) /\ gs \subseteq Called
        /\ Head(rwMicro) \in RW!Job /\ Distinct(Head(rwMicro).gs)
    BY <1>9, <2>1, <2>2, JobsTail
  <2>4. /\ rwMicro' \in Seq(RW!Job)
        /\ ToSet(rwMicro) = ToSet(rwMicro') \cup {Head(rwMicro)}
        /\ \A k \in 1..Len(rwMicro') : k + 1 \in 1..Len(rwMicro) /\ rwMicro'[k] = rwMicro[k + 1]
    BY <1>9, <2>2, SetOfSeq
  <2> HIDE DEF gs
  <2>5. \A h \in G : rwPc'[h] = IF h \in gs THEN st ELSE rwPc[h]
    BY <1>9 DEF gs
  <2>6. Called' = Called \ gs
    BY <2>5 DEF Called
  <2>7. \A h \in gs : rwPc[h] = "called"
    BY <2>3 DEF Called
  <2>8. \A h \in G : /\ rwPc'[h] = "wantsRead" <=> h \in ToSet(readerWaitQueue')
                     /\ rwPc'[h] = "wantsWrite" <=> h \in ToSet(writerWaitQueue')
    BY <1>9, <2>1, <2>5, <2>7
  <2>9. \A k \in 1..Len(rwMicro') : rwMicro'[k].kind = "writer" => Len(rwMicro'[k].gs) = 1
    BY <2>1, <2>4
  <2>10. RWPlaces'
    BY <1>9, <2>1, <2>3, <2>6, <2>8, <2>9 DEF RWPlaces
  <2>11. rwPc' \in [G -> RW!State]
    BY <1>t, <1>9, RWTypes DEF RW!State
  <2>12. RW!RWTypeOK'
    BY <1>t, <1>9, <2>4, <2>11 DEF RW!RWTypeOK
  <2> QED BY <2>3, <2>4, <2>10, <2>12 DEF gs
<1>10. ASSUME RW!RunWriter PROVE RWInv'
  <2> DEFINE w == Head(Head(rwMicro).gs)
  <2>1. /\ rwMicro # <<>> /\ Head(rwMicro).kind = "writer" /\ rwMicro' = Tail(rwMicro)
        /\ rwPc' = [rwPc EXCEPT ![w] = "writing"]
        /\ UNCHANGED <<readers, writer, readerWaitQueue, writerWaitQueue, rwOp>>
    BY <1>10 DEF RW!RunWriter
  <2>2. ToSet(Head(rwMicro).gs) = {w} /\ w \in G
    <3>1. /\ rwMicro \in Seq(RW!Job)
          /\ \A k \in 1..Len(rwMicro) : rwMicro[k].kind = "writer" => Len(rwMicro[k].gs) = 1
      BY <1>t, RWTypes DEF RWPlaces
    <3>2. 1 \in 1..Len(rwMicro) /\ Head(rwMicro) = rwMicro[1] /\ Head(rwMicro) \in RW!Job
      BY <2>1, <3>1
    <3>3. Head(rwMicro).gs \in Seq(G) /\ Len(Head(rwMicro).gs) = 1
      BY <2>1, <3>1, <3>2, RWJobFields
    <3>4. Head(rwMicro).gs = <<w>> /\ w \in G
      BY <3>3
    <3> HIDE DEF w
    <3> QED BY <3>4 DEF ToSet
  <2> HIDE DEF w
  <2>3. rwPc' = [g \in G |-> IF g \in ToSet(Head(rwMicro).gs) THEN "writing" ELSE rwPc[g]]
    BY <1>t, <2>1, <2>2, RWTypes
  <2>4. readers' \in Nat
    BY <1>t, <2>1, RWTypes
  <2>5. RW!RWTypeOK' /\ RWPlaces' /\ {w} \subseteq Called
    BY <1>9, <2>1, <2>2, <2>3, <2>4
  <2>6. RW!Holding("reading")' = RW!Holding("reading") /\ w \in RW!Holding("writing")'
    BY <2>2, <2>3, <2>5 DEF RW!Holding, Called
  <2> QED BY <1>t, <1>k, <2>1, <2>5, <2>6 DEF RWInv, RW!QueueHeld, RW!WriterFound
<1>11. ASSUME RW!RunReaders PROVE RWInv'
  <2> DEFINE gs == Head(rwMicro).gs
  <2>1. /\ rwMicro # <<>> /\ Head(rwMicro).kind = "readers" /\ rwMicro' = Tail(rwMicro)
        /\ readers' = readers + Len(gs)
        /\ rwPc' = [g \in G |-> IF g \in ToSet(gs) THEN "reading" ELSE rwPc[g]]
        /\ UNCHANGED <<writer, readerWaitQueue, writerWaitQueue, rwOp>>
    BY <1>11, SameToSet DEF RW!RunReaders
  <2>2. gs \in Seq(G) /\ Len(gs) \in Nat
    <3>1. Head(rwMicro) \in RW!Job
      BY <1>t, <2>1, RWTypes
    <3>2. gs \in Seq(G)
      BY <3>1, RWJobFields
    <3> QED BY <3>2
  <2>3. readers' \in Nat /\ readers' >= readers
    BY <1>t, <2>1, <2>2, RWTypes
  <2>4. /\ RW!RWTypeOK' /\ RWPlaces' /\ ToSet(gs) \subseteq Called /\ Distinct(gs)
        /\ ToSet(rwMicro) = ToSet(rwMicro') \cup {Head(rwMicro)}
    BY <1>9, <2>1, <2>3
  <2> HIDE DEF gs
  <2>5. IsFiniteSet(ToSet(gs)) /\ Cardinality(ToSet(gs)) = Len(gs)
    BY <2>2, <2>4, DistinctLength
  <2>6. /\ RW!Holding("reading")' = RW!Holding("reading") \cup ToSet(gs)
        /\ RW!Holding("reading") \cap ToSet(gs) = {}
        /\ RW!Holding("writing")' = RW!Holding("writing")
    BY <2>1, <2>4 DEF RW!Holding, Called
  <2>7. ReadersExact'
    <3>1. /\ IsFiniteSet(RW!Holding("reading") \cup ToSet(gs))
          /\ Cardinality(RW!Holding("reading") \cup ToSet(gs)) =
               Cardinality(RW!Holding("reading")) + Cardinality(ToSet(gs))
               - Cardinality(RW!Holding("reading") \cap ToSet(gs))
      BY <1>t, <2>5, FS_Union
    <3>2. Cardinality(RW!Holding("reading") \cap ToSet(gs)) = 0
      BY <2>6, FS_EmptySet
    <3>3. readers \in Nat
      BY <1>t, RWTypes
    <3>4. readers' = Cardinality(RW!Holding("reading") \cup ToSet(gs))
      BY <1>t, <2>1, <2>2, <2>5, <3>1, <3>2, <3>3
    <3>5. /\ IsFiniteSet(RW!Holding("reading")')
          /\ readers' = Cardinality(RW!Holding("reading")')
      BY <2>6, <3>1, <3>4
    <3> QED BY <3>5, SameCardinality DEF ReadersExact, RW!ReadersCounted
  <2>8. RW!WriterFound'
    <3>1. \A j \in ToSet(rwMicro) : j.kind = "writer" => j \in ToSet(rwMicro')
      BY <2>1, <2>4
    <3> QED BY <1>t, <2>1, <2>6, <3>1, SameToSet DEF RW!WriterFound
  <2>9. RW!QueueHeld'
    BY <1>t, <2>1, <2>3, RWTypes DEF RW!QueueHeld
  <2> QED BY <2>4, <2>7, <2>8, <2>9 DEF RWInv
<1>12. CASE UNCHANGED rwVars
  <2>1. UNCHANGED <<readers, writer, readerWaitQueue, writerWaitQueue, rwMicro, rwPc, rwOp>>
    BY <1>12 DEF rwVars
  <2>2. /\ Called' = Called /\ RW!Holding("reading")' = RW!Holding("reading")
        /\ RW!Holding("writing")' = RW!Holding("writing")
    BY <2>1 DEF Called, RW!Holding
  <2> QED BY <1>t, <1>k, <2>1, <2>2
          DEF RWInv, RW!RWTypeOK, RWPlaces, RW!QueueHeld, RW!WriterFound
<1> QED BY <1>1, <1>3, <1>4, <1>5, <1>6, <1>7, <1>8, <1>10, <1>11, <1>12, RolesAssumption
        DEF RW!Next, RW!RunMicrotask

-----------------------------------------------------------------------------
(* WaitGroup. *)

LEMMA WGTypes ==
  ASSUME WG!WaitGroupTypeOK
  PROVE  /\ counter \in Int /\ wgWaiters \in Seq(Waiters) /\ wgMicro \in Seq(WG!Job)
         /\ task \in [Tasks -> {"new", "scheduled", "running", "done"}]
         /\ wgPc \in [Waiters -> {"idle", "waiting", "called"}]
         /\ waits \in [Waiters -> 0..MaxWaits] /\ misuse \in 0..MaxMisuse
         /\ awaited \in [Waiters -> SUBSET Tasks]
BY DEF WG!WaitGroupTypeOK

LEMMA WGJobFields ==
  /\ \A j \in WG!Job : \/ j.kind = "start" /\ j.t \in Tasks
                       \/ j.kind = "wake" /\ j.gs \in Seq(Waiters)
  /\ \A t \in Tasks : /\ WG!StartJob(t) \in WG!Job
                      /\ WG!StartJob(t).kind = "start" /\ WG!StartJob(t).t = t
  /\ \A q \in Seq(Waiters) : /\ WG!WakeJob(q) \in WG!Job
                             /\ WG!WakeJob(q).kind = "wake" /\ WG!WakeJob(q).gs = q
BY DEF WG!Job, WG!StartJob, WG!WakeJob

\* A microtask queued behind the others, or the first one taken away.
LEMMA JobsGrow ==
  ASSUME NEW jobs \in Seq(WG!Job), NEW j \in WG!Job
  PROVE  /\ Append(jobs, j) \in Seq(WG!Job)
         /\ \A k \in 1..Len(Append(jobs, j)) :
              \/ k \in 1..Len(jobs) /\ Append(jobs, j)[k] = jobs[k]
              \/ k = Len(jobs) + 1 /\ Append(jobs, j)[k] = j
         /\ ToSet(Append(jobs, j)) = ToSet(jobs) \cup {j}
         /\ jobs \o <<j>> = Append(jobs, j) /\ jobs \o <<>> = jobs
<1>1. /\ Append(jobs, j) \in Seq(WG!Job)
      /\ jobs \o <<j>> = Append(jobs, j) /\ jobs \o <<>> = jobs
  OBVIOUS
<1> QED BY <1>1, SeqSteps, SetOfSeq

LEMMA JobsShift ==
  ASSUME NEW jobs \in Seq(WG!Job), jobs # <<>>
  PROVE  /\ Tail(jobs) \in Seq(WG!Job) /\ Head(jobs) \in WG!Job
         /\ 1 \in 1..Len(jobs) /\ Head(jobs) = jobs[1]
         /\ \A k \in 1..Len(Tail(jobs)) :
              k + 1 \in 1..Len(jobs) /\ k + 1 # 1 /\ Tail(jobs)[k] = jobs[k + 1]
         /\ ToSet(jobs) = ToSet(Tail(jobs)) \cup {Head(jobs)}
<1>1. /\ Tail(jobs) \in Seq(WG!Job) /\ Head(jobs) \in WG!Job
      /\ 1 \in 1..Len(jobs) /\ Head(jobs) = jobs[1]
      /\ \A k \in 1..Len(Tail(jobs)) :
           k + 1 \in 1..Len(jobs) /\ k + 1 # 1 /\ Tail(jobs)[k] = jobs[k + 1]
  OBVIOUS
<1> QED BY <1>1, SetOfSeq

LEMMA StartsAppend ==
  ASSUME NEW jobs \in Seq(WG!Job), NEW t \in Tasks, NEW state, NEW next,
         StartsHold(jobs, state), state[t] # "scheduled", next[t] = "scheduled",
         \A u \in Tasks : u # t => next[u] = state[u]
  PROVE  StartsHold(Append(jobs, WG!StartJob(t)), next)
<1> DEFINE new == Append(jobs, WG!StartJob(t))
<1>1. /\ WG!StartJob(t).t = t
      /\ \A k \in 1..Len(new) : \/ k \in 1..Len(jobs) /\ new[k] = jobs[k]
                                \/ k = Len(jobs) + 1 /\ new[k] = WG!StartJob(t)
  BY WGJobFields, JobsGrow
<1>2. \A k \in 1..Len(jobs) : jobs[k].kind = "start" => jobs[k].t \in Tasks
  BY WGJobFields
<1> HIDE DEF new
<1>3. \A k \in 1..Len(jobs) : jobs[k].kind = "start" =>
        jobs[k].t # t /\ next[jobs[k].t] = "scheduled"
  BY <1>2 DEF StartsHold
<1>4. \A k \in 1..Len(new) : new[k].kind = "start" => next[new[k].t] = "scheduled"
  BY <1>1, <1>3
<1>5. \A k, l \in 1..Len(new) :
        new[k].kind = "start" /\ new[l].kind = "start" /\ new[k].t = new[l].t => k = l
  <2> TAKE k, l \in 1..Len(new)
  <2> HAVE new[k].kind = "start" /\ new[l].kind = "start" /\ new[k].t = new[l].t
  <2>1. CASE k \in 1..Len(jobs) /\ new[k] = jobs[k]
    <3>1. l \in 1..Len(jobs) /\ new[l] = jobs[l]
      BY <1>1, <1>3, <2>1
    <3> QED BY <2>1, <3>1 DEF StartsHold
  <2>2. CASE k = Len(jobs) + 1 /\ new[k] = WG!StartJob(t)
    BY <1>1, <1>3, <2>2
  <2> QED BY <1>1, <2>1, <2>2
<1> QED BY <1>4, <1>5 DEF StartsHold, new

LEMMA StartsKept ==
  ASSUME NEW jobs \in Seq(WG!Job), NEW state, NEW next, StartsHold(jobs, state),
         \A u \in Tasks : state[u] = "scheduled" => next[u] = "scheduled"
  PROVE  StartsHold(jobs, next) /\ \A q \in Seq(Waiters) :
           StartsHold(Append(jobs, WG!WakeJob(q)), next)
<1>1. \A k \in 1..Len(jobs) : jobs[k].kind = "start" => jobs[k].t \in Tasks
  BY WGJobFields
<1>2. StartsHold(jobs, next)
  BY <1>1 DEF StartsHold
<1>3. ASSUME NEW q \in Seq(Waiters) PROVE StartsHold(Append(jobs, WG!WakeJob(q)), next)
  <2> DEFINE new == Append(jobs, WG!WakeJob(q))
  <2>1. \A k \in 1..Len(new) : \/ k \in 1..Len(jobs) /\ new[k] = jobs[k]
                               \/ new[k] = WG!WakeJob(q)
    BY WGJobFields, JobsGrow
  <2>2. \A k \in 1..Len(new) : new[k].kind = "start" => k \in 1..Len(jobs) /\ new[k] = jobs[k]
    BY <2>1, WGJobFields
  <2> HIDE DEF new
  <2>3. StartsHold(new, next)
    BY <1>2, <2>2, SMTT(30) DEF StartsHold
  <2> QED BY <2>3 DEF new
<1> QED BY <1>2, <1>3

LEMMA StartsTail ==
  ASSUME NEW jobs \in Seq(WG!Job), jobs # <<>>, NEW state, NEW next,
         StartsHold(jobs, state),
         \A u \in Tasks : state[u] = "scheduled" /\ next[u] # "scheduled" =>
           Head(jobs).kind = "start" /\ Head(jobs).t = u
  PROVE  StartsHold(Tail(jobs), next)
<1> DEFINE new == Tail(jobs)
<1>1. /\ 1 \in 1..Len(jobs) /\ Head(jobs) = jobs[1]
      /\ \A k \in 1..Len(new) : k + 1 \in 1..Len(jobs) /\ k + 1 # 1 /\ new[k] = jobs[k + 1]
  BY JobsShift
<1>2. \A k \in 1..Len(jobs) : jobs[k].kind = "start" => jobs[k].t \in Tasks
  BY WGJobFields
<1> HIDE DEF new
<1>3. \A k \in 1..Len(new) : new[k].kind = "start" => next[new[k].t] = "scheduled"
  BY <1>1, <1>2 DEF StartsHold
<1>4. \A k, l \in 1..Len(new) :
        new[k].kind = "start" /\ new[l].kind = "start" /\ new[k].t = new[l].t => k = l
  <2> TAKE k, l \in 1..Len(new)
  <2> HAVE new[k].kind = "start" /\ new[l].kind = "start" /\ new[k].t = new[l].t
  <2>1. k + 1 = l + 1
    BY <1>1 DEF StartsHold
  <2> QED BY <2>1
<1> QED BY <1>3, <1>4 DEF StartsHold, new

LEMMA WakesAppend ==
  ASSUME NEW jobs \in Seq(WG!Job), NEW q \in Seq(Waiters), NEW state, NEW next,
         WakesHold(jobs, state), \A g \in ToSet(q) : state[g] # "called",
         \A g \in Waiters : next[g] = IF g \in ToSet(q) THEN "called" ELSE state[g]
  PROVE  WakesHold(Append(jobs, WG!WakeJob(q)), next)
<1> DEFINE new == Append(jobs, WG!WakeJob(q))
<1>1. /\ WG!WakeJob(q).gs = q
      /\ \A k \in 1..Len(new) : \/ k \in 1..Len(jobs) /\ new[k] = jobs[k]
                                \/ k = Len(jobs) + 1 /\ new[k] = WG!WakeJob(q)
  BY WGJobFields, JobsGrow
<1>2. \A r \in Seq(Waiters) : ToSet(r) \subseteq Waiters
  BY SetOfSeq
<1>3. \A k \in 1..Len(jobs) : jobs[k].kind = "wake" =>
        \A g \in ToSet(jobs[k].gs) : g \in Waiters /\ g \notin ToSet(q) /\ next[g] = "called"
  BY <1>2, WGJobFields DEF WakesHold
<1> HIDE DEF new
<1>4. \A k \in 1..Len(new) : new[k].kind = "wake" =>
        \A g \in ToSet(new[k].gs) : next[g] = "called"
  BY <1>1, <1>2, <1>3
<1>5. \A k, l \in 1..Len(new) :
        new[k].kind = "wake" /\ new[l].kind = "wake" /\ k # l =>
          ToSet(new[k].gs) \cap ToSet(new[l].gs) = {}
  <2> TAKE k, l \in 1..Len(new)
  <2> HAVE new[k].kind = "wake" /\ new[l].kind = "wake" /\ k # l
  <2>1. CASE k \in 1..Len(jobs) /\ l \in 1..Len(jobs)
    <3>1. new[k] = jobs[k] /\ new[l] = jobs[l]
      BY <1>1, <2>1
    <3> QED BY <2>1, <3>1 DEF WakesHold
  <2>2. CASE k \in 1..Len(jobs) /\ l \notin 1..Len(jobs)
    BY <1>1, <1>3, <2>2
  <2>3. CASE k \notin 1..Len(jobs) /\ l \in 1..Len(jobs)
    BY <1>1, <1>3, <2>3
  <2>4. CASE k \notin 1..Len(jobs) /\ l \notin 1..Len(jobs)
    BY <1>1, <2>4
  <2> QED BY <2>1, <2>2, <2>3, <2>4
<1> QED BY <1>4, <1>5 DEF WakesHold, new

LEMMA WakesKept ==
  ASSUME NEW jobs \in Seq(WG!Job), NEW state, NEW next, WakesHold(jobs, state),
         \A g \in Waiters : state[g] = "called" => next[g] = "called"
  PROVE  WakesHold(jobs, next) /\ \A t \in Tasks :
           WakesHold(Append(jobs, WG!StartJob(t)), next)
<1>1. \A r \in Seq(Waiters) : ToSet(r) \subseteq Waiters
  BY SetOfSeq
<1>2. \A k \in 1..Len(jobs) : jobs[k].kind = "wake" =>
        \A g \in ToSet(jobs[k].gs) : next[g] = "called"
  BY <1>1, WGJobFields DEF WakesHold
<1>3. WakesHold(jobs, next)
  BY <1>2 DEF WakesHold
<1>4. ASSUME NEW t \in Tasks PROVE WakesHold(Append(jobs, WG!StartJob(t)), next)
  <2> DEFINE new == Append(jobs, WG!StartJob(t))
  <2>1. \A k \in 1..Len(new) : \/ k \in 1..Len(jobs) /\ new[k] = jobs[k]
                               \/ new[k] = WG!StartJob(t)
    BY WGJobFields, JobsGrow
  <2>2. \A k \in 1..Len(new) : new[k].kind = "wake" => k \in 1..Len(jobs) /\ new[k] = jobs[k]
    BY <2>1, WGJobFields
  <2> HIDE DEF new
  <2>3. WakesHold(new, next)
    BY <1>3, <2>2 DEF WakesHold
  <2> QED BY <2>3 DEF new
<1> QED BY <1>3, <1>4

LEMMA WakesTail ==
  ASSUME NEW jobs \in Seq(WG!Job), jobs # <<>>, NEW state, NEW next,
         WakesHold(jobs, state),
         \A g \in Waiters : state[g] = "called" /\ next[g] # "called" =>
           Head(jobs).kind = "wake" /\ g \in ToSet(Head(jobs).gs)
  PROVE  WakesHold(Tail(jobs), next)
<1> DEFINE new == Tail(jobs)
<1>1. /\ 1 \in 1..Len(jobs) /\ Head(jobs) = jobs[1]
      /\ \A k \in 1..Len(new) : k + 1 \in 1..Len(jobs) /\ k + 1 # 1 /\ new[k] = jobs[k + 1]
  BY JobsShift
<1>2. \A k \in 1..Len(jobs) : jobs[k].kind = "wake" => ToSet(jobs[k].gs) \subseteq Waiters
  <2>1. \A r \in Seq(Waiters) : ToSet(r) \subseteq Waiters
    BY SetOfSeq
  <2> QED BY <2>1, WGJobFields
<1> HIDE DEF new
<1>3. \A k \in 1..Len(new) : new[k].kind = "wake" =>
        \A g \in ToSet(new[k].gs) : next[g] = "called"
  <2> TAKE k \in 1..Len(new)
  <2> HAVE new[k].kind = "wake"
  <2> TAKE g \in ToSet(new[k].gs)
  <2>1. k + 1 \in 1..Len(jobs) /\ k + 1 # 1 /\ new[k] = jobs[k + 1] /\ g \in Waiters
    BY <1>1, <1>2
  <2>2. state[g] = "called"
    BY <2>1 DEF WakesHold
  <2>3. ~(Head(jobs).kind = "wake" /\ g \in ToSet(Head(jobs).gs))
    BY <1>1, <2>1 DEF WakesHold
  <2> QED BY <2>1, <2>2, <2>3
<1>4. \A k, l \in 1..Len(new) :
        new[k].kind = "wake" /\ new[l].kind = "wake" /\ k # l =>
          ToSet(new[k].gs) \cap ToSet(new[l].gs) = {}
  <2> TAKE k, l \in 1..Len(new)
  <2> HAVE new[k].kind = "wake" /\ new[l].kind = "wake" /\ k # l
  <2>1. /\ k + 1 \in 1..Len(jobs) /\ new[k] = jobs[k + 1]
        /\ l + 1 \in 1..Len(jobs) /\ new[l] = jobs[l + 1]
        /\ k + 1 # l + 1
    BY <1>1
  <2> QED BY <2>1 DEF WakesHold
<1> QED BY <1>3, <1>4 DEF WakesHold, new

\* Add, followed by at most one task's start: when the counter reaches zero,
\* every waiter is called, in one microtask.
Added(delta, then) ==
  /\ counter' = counter + delta /\ counter' \in Int
  /\ wgWaiters' \in Seq(Waiters) /\ wgMicro' \in Seq(WG!Job)
  /\ wgPc' \in [Waiters -> {"idle", "waiting", "called"}]
  /\ \A g \in Waiters : \/ wgPc'[g] = wgPc[g]
                        \/ counter' = 0 /\ wgPc[g] = "waiting" /\ wgPc'[g] = "called"
  /\ WakesHold(wgMicro', wgPc') /\ WG!NoWaiterLeft'
  /\ \E mid \in Seq(WG!Job) :
       /\ wgMicro' = mid \o then
       /\ mid = wgMicro \/ \E q \in Seq(Waiters) : mid = Append(wgMicro, WG!WakeJob(q))

LEMMA AddStep ==
  ASSUME WGInv, NEW delta \in Int, NEW then,
         then = <<>> \/ \E t \in Tasks : then = <<WG!StartJob(t)>>,
         WG!Add(delta, then)
  PROVE  Added(delta, then)
<1>t. /\ counter \in Int /\ wgWaiters \in Seq(Waiters) /\ wgMicro \in Seq(WG!Job)
      /\ wgPc \in [Waiters -> {"idle", "waiting", "called"}]
      /\ WakesHold(wgMicro, wgPc)
  BY WGTypes DEF WGInv
<1>w. /\ wgWaiters # <<>> => counter # 0
      /\ \A g \in Waiters :
           /\ wgPc[g] = "waiting" <=> g \in ToSet(wgWaiters)
           /\ wgPc[g] = "called" =>
                \E j \in ToSet(wgMicro) : j.kind = "wake" /\ g \in ToSet(j.gs)
  BY SameToSet DEF WGInv, WG!NoWaiterLeft
<1>1. counter' = counter + delta /\ counter' \in Int
  BY <1>t DEF WG!Add
\* Once the waiters are dealt with, the start of a task changes nothing more.
<1>2. ASSUME NEW mid \in Seq(WG!Job), wgMicro' = mid \o then, WakesHold(mid, wgPc')
      PROVE  /\ wgMicro' \in Seq(WG!Job) /\ WakesHold(wgMicro', wgPc')
             /\ ToSet(mid) \subseteq ToSet(wgMicro')
  <2>1. CASE then = <<>>
    BY <1>2, <2>1
  <2>2. ASSUME NEW t \in Tasks, then = <<WG!StartJob(t)>>
        PROVE  /\ wgMicro' \in Seq(WG!Job) /\ WakesHold(wgMicro', wgPc')
               /\ ToSet(mid) \subseteq ToSet(wgMicro')
    <3>1. /\ WG!StartJob(t) \in WG!Job
          /\ Append(mid, WG!StartJob(t)) \in Seq(WG!Job)
          /\ ToSet(Append(mid, WG!StartJob(t))) = ToSet(mid) \cup {WG!StartJob(t)}
          /\ mid \o <<WG!StartJob(t)>> = Append(mid, WG!StartJob(t))
      BY WGJobFields, JobsGrow
    <3>2. WakesHold(Append(mid, WG!StartJob(t)), wgPc')
      BY <1>2, WakesKept
    <3> QED BY <1>2, <2>2, <3>1, <3>2
  <2> QED BY <2>1, <2>2
<1>3. CASE counter' = 0
  <2> DEFINE mid == Append(wgMicro, WG!WakeJob(wgWaiters))
  <2>1. /\ wgWaiters' = <<>> /\ wgMicro' = mid \o then
        /\ wgPc' = [g \in Waiters |-> IF g \in ToSet(wgWaiters) THEN "called" ELSE wgPc[g]]
    BY <1>3, SameToSet DEF WG!Add
  <2>2. /\ WG!WakeJob(wgWaiters) \in WG!Job
        /\ WG!WakeJob(wgWaiters).kind = "wake" /\ WG!WakeJob(wgWaiters).gs = wgWaiters
    BY <1>t, WGJobFields
  <2>3. mid \in Seq(WG!Job) /\ ToSet(mid) = ToSet(wgMicro) \cup {WG!WakeJob(wgWaiters)}
    BY <1>t, <2>2, JobsGrow
  <2>4. ToSet(wgWaiters) \subseteq Waiters
    BY <1>t, SetOfSeq
  <2>5. /\ wgPc' \in [Waiters -> {"idle", "waiting", "called"}]
        /\ \A g \in Waiters : wgPc'[g] = IF g \in ToSet(wgWaiters) THEN "called" ELSE wgPc[g]
    BY <1>t, <2>1
  <2>6. WakesHold(mid, wgPc')
    BY <1>t, <1>w, <2>4, <2>5, WakesAppend
  <2> HIDE DEF mid
  <2>7. /\ wgMicro' \in Seq(WG!Job) /\ WakesHold(wgMicro', wgPc')
        /\ ToSet(mid) \subseteq ToSet(wgMicro')
    BY <1>2, <2>1, <2>3, <2>6
  <2>8. wgWaiters' \in Seq(Waiters) /\ ToSet(wgWaiters') = {}
    <3>1. wgWaiters' \in Seq(Waiters) /\ wgWaiters' = <<>>
      BY <2>1
    <3> HIDE <2>1
    <3> QED BY <3>1, SetOfSeq
  <2>9. WG!NoWaiterLeft'
    <3>1. ASSUME NEW g \in Waiters, wgPc'[g] = "called"
          PROVE  \E j \in ToSet(wgMicro') : j.kind = "wake" /\ g \in ToSet(j.gs)
      <4>1. CASE g \in ToSet(wgWaiters)
        BY <2>2, <2>3, <2>7, <4>1
      <4>2. CASE g \notin ToSet(wgWaiters)
        BY <1>w, <2>3, <2>5, <2>7, <3>1, <4>2
      <4> QED BY <4>1, <4>2
    <3>2. \A g \in Waiters : wgPc'[g] # "waiting"
      BY <1>w, <2>5
    <3> QED BY <2>1, <2>8, <3>1, <3>2, SameToSet DEF WG!NoWaiterLeft
  <2>10. \A g \in Waiters : \/ wgPc'[g] = wgPc[g]
                            \/ wgPc[g] = "waiting" /\ wgPc'[g] = "called"
    BY <1>w, <2>5
  <2>11. \E m \in Seq(WG!Job) :
           /\ wgMicro' = m \o then
           /\ m = wgMicro \/ \E q \in Seq(Waiters) : m = Append(wgMicro, WG!WakeJob(q))
    BY <1>t, <2>1, <2>3 DEF mid
  <2> QED BY <1>1, <1>3, <2>5, <2>7, <2>8, <2>9, <2>10, <2>11 DEF Added
<1>4. CASE counter' # 0
  <2>1. wgMicro' = wgMicro \o then /\ UNCHANGED <<wgWaiters, wgPc>>
    BY <1>4 DEF WG!Add
  <2>2. /\ wgMicro' \in Seq(WG!Job) /\ WakesHold(wgMicro', wgPc')
        /\ ToSet(wgMicro) \subseteq ToSet(wgMicro')
    BY <1>2, <1>t, <2>1
  <2>3. WG!NoWaiterLeft'
    BY <1>4, <1>w, <2>1, <2>2, SameToSet DEF WG!NoWaiterLeft
  <2> QED BY <1>1, <1>t, <2>1, <2>2, <2>3 DEF Added
<1> QED BY <1>3, <1>4

LEMMA UnfinishedIs ==
  WG!Unfinished = {t \in Tasks : task[t] \in {"scheduled", "running"}}
BY DEF WG!Unfinished

\* What WaitCovers asks follows from the counter: when it is zero and the calls
\* were paired, no task is unfinished.
LEMMA NothingUnfinished ==
  WG!WaitGroupTypeOK /\ TasksCounted /\ counter = 0 /\ misuse = 0 =>
    \A u \in Tasks : task[u] # "new" => task[u] = "done"
<1> SUFFICES ASSUME WG!WaitGroupTypeOK, TasksCounted, counter = 0, misuse = 0
             PROVE  \A u \in Tasks : task[u] # "new" => task[u] = "done"
  OBVIOUS
<1>1. /\ IsFiniteSet(WG!Unfinished)
      /\ Cardinality(WG!Unfinished) = 0
  <2>1. /\ IsFiniteSet(WG!Unfinished)
        /\ counter = Cardinality(WG!Unfinished) - misuse
    BY SameCardinality DEF TasksCounted, WG!CounterExact
  <2>2. Cardinality(WG!Unfinished) \in Nat
    BY <2>1, FS_CardinalityType
  <2> QED BY <2>1, <2>2
<1>2. WG!Unfinished = {}
  BY <1>1, FS_EmptySet
<1> QED BY <1>2, UnfinishedIs, WGTypes

LEMMA NothingUnfinishedNext ==
  (WG!WaitGroupTypeOK /\ TasksCounted /\ counter = 0 /\ misuse = 0 =>
     \A u \in Tasks : task[u] # "new" => task[u] = "done")'
BY NothingUnfinished, PTL

\* No step takes the number of unfinished tasks apart from the counter.
LEMMA CountedStep ==
  ASSUME WG!WaitGroupTypeOK, TasksCounted, NEW delta \in {-1, 0, 1},
         counter' = counter + delta, NEW t,
         \/ /\ delta = 1 /\ t \notin WG!Unfinished /\ UNCHANGED misuse
            /\ WG!Unfinished' = WG!Unfinished \cup {t}
         \/ /\ delta = -1 /\ t \in WG!Unfinished /\ UNCHANGED misuse
            /\ WG!Unfinished' = WG!Unfinished \ {t}
         \/ /\ delta = -1 /\ misuse' = misuse + 1
            /\ WG!Unfinished' = WG!Unfinished
         \/ /\ delta = 1 /\ misuse' = misuse - 1
            /\ WG!Unfinished' = WG!Unfinished
         \/ /\ delta = 0 /\ UNCHANGED misuse
            /\ WG!Unfinished' = WG!Unfinished
  PROVE  TasksCounted'
<1> DEFINE old == WG!Unfinished
           new == WG!Unfinished'
<1>1. /\ IsFiniteSet(old) /\ counter = Cardinality(old) - misuse
      /\ counter \in Int /\ misuse \in Int
  BY SameCardinality, WGTypes DEF TasksCounted, WG!CounterExact
<1>2. Cardinality(old) \in Nat
  BY <1>1, FS_CardinalityType
<1>3. IsFiniteSet(new) /\ counter' = Cardinality(new) - misuse'
  <2>1. CASE /\ delta = 1 /\ t \notin old /\ UNCHANGED misuse
             /\ new = old \cup {t}
    <3>1. IsFiniteSet(old \cup {t}) /\ Cardinality(old \cup {t}) = Cardinality(old) + 1
      BY <1>1, <2>1, FS_AddElement
    <3> HIDE DEF old, new
    <3> QED BY <1>1, <1>2, <2>1, <3>1
  <2>2. CASE /\ delta = -1 /\ t \in old /\ UNCHANGED misuse
             /\ new = old \ {t}
    <3>1. IsFiniteSet(old \ {t}) /\ Cardinality(old \ {t}) = Cardinality(old) - 1
      BY <1>1, <2>2, FS_RemoveElement
    <3> HIDE DEF old, new
    <3> QED BY <1>1, <1>2, <2>2, <3>1
  <2>3. CASE delta = -1 /\ misuse' = misuse + 1 /\ new = old
    <3> HIDE DEF old, new
    <3> QED BY <1>1, <1>2, <2>3
  <2>4. CASE delta = 0 /\ UNCHANGED misuse /\ new = old
    <3> HIDE DEF old, new
    <3> QED BY <1>1, <1>2, <2>4
  <2>5. CASE delta = 1 /\ misuse' = misuse - 1 /\ new = old
    <3> HIDE DEF old, new
    <3> QED BY <1>1, <1>2, <2>5
  <2> QED BY <2>1, <2>2, <2>3, <2>4, <2>5
<1> QED BY <1>3, SameCardinality DEF TasksCounted, WG!CounterExact

\* Every step of a WaitGroup keeps WGInv.
LEMMA WGStep == WGInv /\ [WG!Next]_wgVars => WGInv'
<1> SUFFICES ASSUME WGInv, [WG!Next]_wgVars PROVE WGInv'
  OBVIOUS
<1>t. /\ counter \in Int /\ wgWaiters \in Seq(Waiters) /\ wgMicro \in Seq(WG!Job)
      /\ task \in [Tasks -> {"new", "scheduled", "running", "done"}]
      /\ wgPc \in [Waiters -> {"idle", "waiting", "called"}]
      /\ waits \in [Waiters -> 0..MaxWaits] /\ misuse \in 0..MaxMisuse
      /\ awaited \in [Waiters -> SUBSET Tasks]
  BY WGTypes DEF WGInv
<1>k. /\ WG!WaitGroupTypeOK /\ TasksCounted
      /\ StartsHold(wgMicro, task) /\ WakesHold(wgMicro, wgPc)
      /\ AwaitedLaunched
  BY DEF WGInv
<1>n. /\ wgWaiters # <<>> => counter # 0
      /\ \A g \in Waiters :
           /\ wgPc[g] = "waiting" <=> g \in ToSet(wgWaiters)
           /\ wgPc[g] = "called" =>
                \E j \in ToSet(wgMicro) : j.kind = "wake" /\ g \in ToSet(j.gs)
  BY SameToSet DEF WGInv, WG!NoWaiterLeft
<1>c. \A g \in Waiters : wgPc[g] # "waiting" /\ misuse = 0 =>
        \A t \in awaited[g] : task[t] = "done"
  BY DEF WGInv, WG!WaitCovers
\* A step that leaves awaited alone and finishes no task wrongly: whoever stops
\* waiting in it finds the counter at zero.
<1>a. ASSUME UNCHANGED awaited, WG!WaitGroupTypeOK', TasksCounted', misuse' = 0 => misuse = 0,
             \A t \in Tasks : /\ task[t] # "new" => task'[t] # "new"
                              /\ task[t] = "done" => task'[t] = "done",
             \A g \in Waiters : wgPc[g] = "waiting" /\ wgPc'[g] # "waiting" => counter' = 0
      PROVE  AwaitedLaunched' /\ WG!WaitCovers'
  <2>1. \A g \in Waiters : \A t \in awaited[g] : t \in Tasks /\ task'[t] # "new"
    BY <1>t, <1>k, <1>a DEF AwaitedLaunched
  <2>2. AwaitedLaunched'
    BY <1>a, <2>1 DEF AwaitedLaunched
  <2>3. ASSUME NEW g \in Waiters, wgPc'[g] # "waiting", misuse' = 0, NEW t \in awaited[g]
        PROVE  task'[t] = "done"
    <3>1. CASE wgPc[g] = "waiting"
      <4>1. counter' = 0 /\ t \in Tasks /\ task'[t] # "new"
        BY <1>a, <2>1, <2>3, <3>1
      <4>2. (WG!WaitGroupTypeOK /\ TasksCounted /\ counter = 0 /\ misuse = 0 =>
               \A u \in Tasks : task[u] # "new" => task[u] = "done")'
        BY NothingUnfinishedNext
      <4> QED BY <1>a, <2>3, <4>1, <4>2
    <3>2. CASE wgPc[g] # "waiting"
      <4>1. misuse = 0
        BY <1>t, <1>a, <2>3
      <4>2. t \in Tasks /\ task[t] = "done"
        BY <1>c, <2>1, <2>3, <3>2, <4>1
      <4> QED BY <1>a, <4>2
    <3> QED BY <3>1, <3>2
  <2>4. WG!WaitCovers'
    BY <1>a, <2>3 DEF WG!WaitCovers
  <2> QED BY <2>2, <2>4
<1>1. ASSUME NEW t \in Tasks, WG!Launch(t) PROVE WGInv'
  <2>1. /\ task[t] = "new" /\ task' = [task EXCEPT ![t] = "scheduled"]
        /\ WG!Add(1, <<WG!StartJob(t)>>) /\ UNCHANGED <<waits, misuse, awaited>>
    BY <1>1 DEF WG!Launch
  <2>2. /\ counter' = counter + 1 /\ counter' \in Int
        /\ wgWaiters' \in Seq(Waiters) /\ wgMicro' \in Seq(WG!Job)
        /\ wgPc' \in [Waiters -> {"idle", "waiting", "called"}]
        /\ \A g \in Waiters : \/ wgPc'[g] = wgPc[g]
                              \/ counter' = 0 /\ wgPc[g] = "waiting" /\ wgPc'[g] = "called"
        /\ WakesHold(wgMicro', wgPc') /\ WG!NoWaiterLeft'
        /\ \E mid \in Seq(WG!Job) :
             /\ wgMicro' = mid \o <<WG!StartJob(t)>>
             /\ mid = wgMicro \/ \E q \in Seq(Waiters) : mid = Append(wgMicro, WG!WakeJob(q))
    <3>1. Added(1, <<WG!StartJob(t)>>)
      <4>1. 1 \in Int /\ \E u \in Tasks : <<WG!StartJob(t)>> = <<WG!StartJob(u)>>
        OBVIOUS
      <4> QED BY <2>1, <4>1, AddStep
    <3> QED BY <3>1 DEF Added
  <2>3. /\ task' \in [Tasks -> {"new", "scheduled", "running", "done"}]
        /\ task'[t] = "scheduled" /\ \A u \in Tasks : u # t => task'[u] = task[u]
    BY <1>t, <2>1
  <2>4. WG!WaitGroupTypeOK'
    BY <1>t, <2>1, <2>2, <2>3 DEF WG!WaitGroupTypeOK
  <2>5. WG!Unfinished' = WG!Unfinished \cup {t} /\ t \notin WG!Unfinished
    BY <2>1, <2>3 DEF WG!Unfinished
  <2>6. TasksCounted'
    BY <1>k, <2>1, <2>2, <2>5, CountedStep
  <2>7. StartsHold(wgMicro', task')
    <3>1. PICK mid \in Seq(WG!Job) :
            /\ wgMicro' = mid \o <<WG!StartJob(t)>>
            /\ mid = wgMicro \/ \E q \in Seq(Waiters) : mid = Append(wgMicro, WG!WakeJob(q))
      BY <2>2
    <3>2. StartsHold(wgMicro, task) /\ \A q \in Seq(Waiters) :
            StartsHold(Append(wgMicro, WG!WakeJob(q)), task)
      BY <1>t, <1>k, StartsKept
    <3>3. StartsHold(mid, task)
      BY <3>1, <3>2
    <3>4. wgMicro' = Append(mid, WG!StartJob(t))
      BY <3>1, WGJobFields, JobsGrow
    <3> QED BY <2>1, <2>3, <3>3, <3>4, StartsAppend
  <2>8. AwaitedLaunched' /\ WG!WaitCovers'
    BY <1>a, <1>t, <2>1, <2>2, <2>3, <2>4, <2>6
  <2> QED BY <2>2, <2>4, <2>6, <2>7, <2>8 DEF WGInv
\* The counter is below -1: more than one Done is unpaid for, and stays so.
<1>l. ASSUME WG!LaunchThrows PROVE WGInv'
  <2>1. /\ counter + 1 < 0 /\ counter' = counter + 1 /\ misuse' = misuse - 1
        /\ WG!Add(1, <<>>) /\ UNCHANGED <<task, waits, awaited>>
    BY <1>l DEF WG!LaunchThrows, WG!Add
  <2>2. counter' # 0 /\ counter' \in Int
    BY <1>t, <2>1
  <2>3. wgMicro' = wgMicro \o <<>> /\ UNCHANGED <<wgWaiters, wgPc>>
    BY <2>1, <2>2 DEF WG!Add
  <2>4. wgMicro' = wgMicro
    BY <1>t, <2>3
  <2>5. misuse' \in 0..MaxMisuse /\ misuse' # 0
    <3>1. Cardinality(WG!Unfinished) \in Nat /\ counter = Cardinality(WG!Unfinished) - misuse
      BY <1>k, FS_CardinalityType, SameCardinality DEF TasksCounted, WG!CounterExact
    <3> QED BY <1>t, <2>1, <3>1, WaitGroupAssumption
  <2>6. WG!WaitGroupTypeOK'
    BY <1>t, <2>1, <2>2, <2>3, <2>4, <2>5 DEF WG!WaitGroupTypeOK
  <2>7. WG!Unfinished' = WG!Unfinished
    BY <2>1 DEF WG!Unfinished
  <2>8. TasksCounted'
    BY <1>k, <2>1, <2>7, CountedStep
  <2>9. StartsHold(wgMicro', task') /\ WakesHold(wgMicro', wgPc')
    <3>1. task' = task /\ wgPc' = wgPc
      BY <2>1, <2>3
    <3> QED BY <1>k, <2>4, <3>1
  <2>10. WG!NoWaiterLeft'
    BY <1>n, <2>2, <2>3, <2>4, SameToSet DEF WG!NoWaiterLeft
  <2>11. AwaitedLaunched' /\ WG!WaitCovers'
    BY <1>a, <2>1, <2>3, <2>5, <2>6, <2>8
  <2> QED BY <2>6, <2>8, <2>9, <2>10, <2>11 DEF WGInv
\* A Done, of a task that ends or of nobody: no start is queued.
<1>d. ASSUME WG!Add(-1, <<>>), UNCHANGED <<waits, awaited>>, misuse' \in 0..MaxMisuse,
             misuse' >= misuse, task' \in [Tasks -> {"new", "scheduled", "running", "done"}],
             \A t \in Tasks : \/ task'[t] = task[t]
                              \/ task[t] = "running" /\ task'[t] = "done",
             counter' = counter + (-1) => TasksCounted'
      PROVE  WGInv'
  <2>2. /\ counter' = counter + (-1) /\ counter' \in Int
        /\ wgWaiters' \in Seq(Waiters) /\ wgMicro' \in Seq(WG!Job)
        /\ wgPc' \in [Waiters -> {"idle", "waiting", "called"}]
        /\ \A g \in Waiters : \/ wgPc'[g] = wgPc[g]
                              \/ counter' = 0 /\ wgPc[g] = "waiting" /\ wgPc'[g] = "called"
        /\ WakesHold(wgMicro', wgPc') /\ WG!NoWaiterLeft'
        /\ \E mid \in Seq(WG!Job) :
             /\ wgMicro' = mid \o <<>>
             /\ mid = wgMicro \/ \E q \in Seq(Waiters) : mid = Append(wgMicro, WG!WakeJob(q))
    <3>1. -1 \in Int /\ WG!Add(-1, <<>>)
      BY <1>d
    <3>2. Added(-1, <<>>)
      BY <3>1, AddStep
    <3> QED BY <3>2 DEF Added
  <2>3. WG!WaitGroupTypeOK'
    BY <1>t, <1>d, <2>2 DEF WG!WaitGroupTypeOK
  <2>4. StartsHold(wgMicro', task')
    <3>1. PICK mid \in Seq(WG!Job) :
            /\ wgMicro' = mid \o <<>>
            /\ mid = wgMicro \/ \E q \in Seq(Waiters) : mid = Append(wgMicro, WG!WakeJob(q))
      BY <2>2
    <3>2. StartsHold(wgMicro, task') /\ \A q \in Seq(Waiters) :
            StartsHold(Append(wgMicro, WG!WakeJob(q)), task')
      BY <1>t, <1>k, <1>d, StartsKept
    <3>3. wgMicro' = mid
      BY <3>1
    <3> QED BY <3>1, <3>2, <3>3
  <2>5. TasksCounted'
    BY <1>d, <2>2
  <2>6. AwaitedLaunched' /\ WG!WaitCovers'
    <3>1. misuse' = 0 => misuse = 0
      BY <1>t, <1>d
    <3> QED BY <1>a, <1>d, <2>2, <2>3, <2>5, <3>1
  <2> QED BY <2>2, <2>3, <2>4, <2>5, <2>6 DEF WGInv
<1>2. ASSUME NEW t \in Tasks, WG!TaskEnds(t) PROVE WGInv'
  <2>1. /\ task[t] = "running" /\ task' = [task EXCEPT ![t] = "done"]
        /\ WG!Add(-1, <<>>) /\ UNCHANGED <<waits, misuse, awaited>>
    BY <1>2 DEF WG!TaskEnds
  <2>2. /\ task' \in [Tasks -> {"new", "scheduled", "running", "done"}]
        /\ task'[t] = "done" /\ \A u \in Tasks : u # t => task'[u] = task[u]
    BY <1>t, <2>1
  <2>3. WG!Unfinished' = WG!Unfinished \ {t} /\ t \in WG!Unfinished
    BY <2>1, <2>2 DEF WG!Unfinished
  <2>4. counter' = counter + (-1) => TasksCounted'
    BY <1>k, <2>1, <2>3, CountedStep
  <2>5. misuse' \in 0..MaxMisuse /\ misuse' >= misuse
    BY <1>t, <2>1
  <2> QED BY <1>d, <2>1, <2>2, <2>4, <2>5
<1>3. ASSUME WG!DoneTooOften PROVE WGInv'
  <2>1. /\ misuse < MaxMisuse /\ misuse' = misuse + 1
        /\ WG!Add(-1, <<>>) /\ UNCHANGED <<task, waits, awaited>>
    BY <1>3 DEF WG!DoneTooOften
  <2>2. WG!Unfinished' = WG!Unfinished
    BY <2>1 DEF WG!Unfinished
  <2>3. counter' = counter + (-1) => TasksCounted'
    BY <1>k, <2>1, <2>2, CountedStep
  <2>4. misuse' \in 0..MaxMisuse /\ misuse' >= misuse
    BY <1>t, <2>1, WaitGroupAssumption
  <2> QED BY <1>d, <1>t, <2>1, <2>3, <2>4
<1>w. ASSUME NEW g \in Waiters, WG!CallWait(g)
      PROVE  wgPc[g] = "idle" /\ waits' \in [Waiters -> 0..MaxWaits]
  BY <1>t, <1>w, WaitGroupAssumption DEF WG!CallWait
<1>4. ASSUME NEW g \in Waiters, WG!WaitReturns(g) PROVE WGInv'
  <2>1. /\ waits' \in [Waiters -> 0..MaxWaits]
        /\ UNCHANGED <<counter, wgWaiters, wgMicro, task, wgPc, misuse, awaited>>
    BY <1>4, <1>w DEF WG!WaitReturns
  <2>2. WG!Unfinished' = WG!Unfinished
    BY <2>1 DEF WG!Unfinished
  <2> QED BY <1>t, <2>1, <2>2
          DEF WGInv, WG!WaitGroupTypeOK, TasksCounted, WG!CounterExact, WG!NoWaiterLeft,
              AwaitedLaunched, WG!WaitCovers
<1>5. ASSUME NEW g \in Waiters, WG!WaitBlocks(g) PROVE WGInv'
  <2>1. /\ wgPc[g] = "idle" /\ waits' \in [Waiters -> 0..MaxWaits] /\ counter # 0
        /\ wgWaiters' = Append(wgWaiters, g) /\ wgPc' = [wgPc EXCEPT ![g] = "waiting"]
        /\ awaited' = [awaited EXCEPT ![g] = WG!Unfinished]
        /\ UNCHANGED <<counter, wgMicro, task, misuse>>
    BY <1>5, <1>w DEF WG!WaitBlocks
  <2>2. /\ wgWaiters' \in Seq(Waiters) /\ ToSet(wgWaiters') = ToSet(wgWaiters) \cup {g}
        /\ wgPc' \in [Waiters -> {"idle", "waiting", "called"}] /\ wgPc'[g] = "waiting"
        /\ \A h \in Waiters : h # g => wgPc'[h] = wgPc[h] /\ awaited'[h] = awaited[h]
        /\ awaited' \in [Waiters -> SUBSET Tasks] /\ awaited'[g] = WG!Unfinished
    <3>1. WG!Unfinished \in SUBSET Tasks
      BY UnfinishedIs
    <3> QED BY <1>t, <2>1, <3>1, SetOfSeq
  <2>3. WG!WaitGroupTypeOK'
    BY <1>t, <2>1, <2>2 DEF WG!WaitGroupTypeOK
  <2>4. TasksCounted'
    <3>1. WG!Unfinished' = WG!Unfinished
      BY <2>1 DEF WG!Unfinished
    <3> QED BY <1>k, <2>1, <3>1 DEF TasksCounted, WG!CounterExact
  <2>5. StartsHold(wgMicro', task') /\ WakesHold(wgMicro', wgPc')
    <3>1. WakesHold(wgMicro, wgPc')
      BY <1>t, <1>k, <2>1, <2>2, WakesKept
    <3> QED BY <1>k, <2>1, <3>1
  <2>6. WG!NoWaiterLeft'
    BY <1>n, <2>1, <2>2, SameToSet DEF WG!NoWaiterLeft
  <2>7. AwaitedLaunched'
    <3>1. \A t \in WG!Unfinished : task[t] # "new"
      BY UnfinishedIs
    <3> QED BY <1>k, <2>1, <2>2, <3>1 DEF AwaitedLaunched
  <2>8. WG!WaitCovers'
    BY <1>c, <2>1, <2>2 DEF WG!WaitCovers
  <2> QED BY <2>3, <2>4, <2>5, <2>6, <2>7, <2>8 DEF WGInv
<1>6. ASSUME WG!RunStart PROVE WGInv'
  <2> DEFINE t == Head(wgMicro).t
  <2>1. /\ wgMicro # <<>> /\ Head(wgMicro).kind = "start" /\ wgMicro' = Tail(wgMicro)
        /\ task' = [task EXCEPT ![t] = "running"]
        /\ UNCHANGED <<counter, wgWaiters, wgPc, waits, misuse, awaited>>
    BY <1>6 DEF WG!RunStart
  <2>2. /\ Tail(wgMicro) \in Seq(WG!Job) /\ Head(wgMicro) \in WG!Job
        /\ 1 \in 1..Len(wgMicro) /\ Head(wgMicro) = wgMicro[1]
        /\ ToSet(wgMicro) = ToSet(Tail(wgMicro)) \cup {Head(wgMicro)}
    BY <1>t, <2>1, JobsShift
  <2>3. t \in Tasks
    BY <2>1, <2>2, WGJobFields
  <2>4. task[t] = "scheduled"
    BY <1>k, <2>1, <2>2 DEF StartsHold
  <2>5. /\ task' \in [Tasks -> {"new", "scheduled", "running", "done"}]
        /\ task'[t] = "running" /\ \A u \in Tasks : u # t => task'[u] = task[u]
    <3> HIDE DEF t
    <3> QED BY <1>t, <2>1, <2>3
  <2> HIDE DEF t
  <2>6. WG!WaitGroupTypeOK'
    BY <1>t, <2>1, <2>2, <2>5 DEF WG!WaitGroupTypeOK
  <2>7. TasksCounted'
    <3>1. WG!Unfinished' = WG!Unfinished
      BY <2>3, <2>4, <2>5 DEF WG!Unfinished
    <3>2. counter' = counter + 0
      BY <1>t, <2>1
    <3> QED BY <1>k, <2>1, <3>1, <3>2, CountedStep
  <2>8. StartsHold(wgMicro', task')
    <3>1. \A u \in Tasks : task[u] = "scheduled" /\ task'[u] # "scheduled" =>
            Head(wgMicro).kind = "start" /\ Head(wgMicro).t = u
      BY <2>1, <2>5 DEF t
    <3>2. StartsHold(wgMicro, task) /\ wgMicro \in Seq(WG!Job) /\ wgMicro # <<>>
      BY <1>t, <1>k, <2>1
    <3>3. StartsHold(Tail(wgMicro), task')
      BY <3>1, <3>2, StartsTail
    <3> QED BY <2>1, <3>3
  <2>9. WakesHold(wgMicro', wgPc')
    BY <1>t, <1>k, <2>1, WakesTail
  <2>10. WG!NoWaiterLeft'
    <3>1. \A j \in ToSet(wgMicro) : j.kind = "wake" => j \in ToSet(wgMicro')
      BY <2>1, <2>2
    <3> QED BY <1>n, <2>1, <3>1, SameToSet DEF WG!NoWaiterLeft
  <2>11. AwaitedLaunched' /\ WG!WaitCovers'
    <3>1. /\ misuse' >= misuse
          /\ \A u \in Tasks : /\ task[u] # "new" => task'[u] # "new"
                              /\ task[u] = "done" => task'[u] = "done"
      BY <1>t, <2>1, <2>4, <2>5
    <3> QED BY <1>a, <2>1, <2>6, <2>7, <3>1
  <2> QED BY <2>6, <2>7, <2>8, <2>9, <2>10, <2>11 DEF WGInv
<1>7. ASSUME WG!RunWake PROVE WGInv'
  <2> DEFINE gs == Head(wgMicro).gs
  <2>1. /\ wgMicro # <<>> /\ Head(wgMicro).kind = "wake" /\ wgMicro' = Tail(wgMicro)
        /\ wgPc' = [g \in Waiters |-> IF g \in ToSet(gs) THEN "idle" ELSE wgPc[g]]
        /\ UNCHANGED <<counter, wgWaiters, task, waits, misuse, awaited>>
    BY <1>7, SameToSet DEF WG!RunWake
  <2>2. /\ Tail(wgMicro) \in Seq(WG!Job) /\ Head(wgMicro) \in WG!Job
        /\ 1 \in 1..Len(wgMicro) /\ Head(wgMicro) = wgMicro[1]
        /\ ToSet(wgMicro) = ToSet(Tail(wgMicro)) \cup {Head(wgMicro)}
    BY <1>t, <2>1, JobsShift
  <2>3. \A g \in ToSet(gs) : wgPc[g] = "called"
    BY <1>k, <2>1, <2>2 DEF WakesHold
  <2> HIDE DEF gs
  <2>4. /\ wgPc' \in [Waiters -> {"idle", "waiting", "called"}]
        /\ \A g \in Waiters : /\ wgPc'[g] = "waiting" <=> wgPc[g] = "waiting"
                              /\ wgPc'[g] = "called" <=> wgPc[g] = "called" /\ g \notin ToSet(gs)
    BY <1>t, <2>1, <2>3
  <2>5. WG!WaitGroupTypeOK'
    BY <1>t, <2>1, <2>2, <2>4 DEF WG!WaitGroupTypeOK
  <2>6. TasksCounted'
    <3>1. WG!Unfinished' = WG!Unfinished
      BY <2>1 DEF WG!Unfinished
    <3> QED BY <1>k, <2>1, <3>1 DEF TasksCounted, WG!CounterExact
  <2>7. StartsHold(wgMicro', task')
    BY <1>t, <1>k, <2>1, StartsTail
  <2>8. WakesHold(wgMicro', wgPc')
    <3>1. \A g \in Waiters : wgPc[g] = "called" /\ wgPc'[g] # "called" =>
            Head(wgMicro).kind = "wake" /\ g \in ToSet(Head(wgMicro).gs)
      BY <2>1, <2>4 DEF gs
    <3> QED BY <1>t, <1>k, <2>1, <3>1, WakesTail
  <2>9. WG!NoWaiterLeft'
    <3>1. \A g \in Waiters : wgPc'[g] = "called" =>
            \E j \in ToSet(wgMicro') : j.kind = "wake" /\ g \in ToSet(j.gs)
      BY <1>n, <2>1, <2>2, <2>4 DEF gs
    <3> QED BY <1>n, <2>1, <2>4, <3>1, SameToSet DEF WG!NoWaiterLeft
  <2>10. AwaitedLaunched' /\ WG!WaitCovers'
    <3>1. misuse' >= misuse
      BY <1>t, <2>1
    <3> QED BY <1>a, <2>1, <2>4, <2>5, <2>6, <3>1
  <2> QED BY <2>5, <2>6, <2>7, <2>8, <2>9, <2>10 DEF WGInv
<1>8. CASE UNCHANGED wgVars
  <2>1. UNCHANGED <<counter, wgWaiters, wgMicro, task, wgPc, waits, misuse, awaited>>
    BY <1>8 DEF wgVars
  <2>2. WG!Unfinished' = WG!Unfinished
    BY <2>1 DEF WG!Unfinished
  <2> QED BY <2>1, <2>2
          DEF WGInv, WG!WaitGroupTypeOK, TasksCounted, WG!CounterExact, WG!NoWaiterLeft,
              AwaitedLaunched, WG!WaitCovers
<1> QED BY <1>1, <1>2, <1>3, <1>l, <1>4, <1>5, <1>6, <1>7, <1>8 DEF WG!Next, WG!RunMicrotask

-----------------------------------------------------------------------------
(* Once. *)

\* What Do does to its mutex is what a goroutine may do to any.
LEMMA OnceUsesMutex ==
  ASSUME OncePlaces, OnceNext
  PROVE  [Next]_vars
<1>1. ASSUME NEW g \in G, DoReturns(g) PROVE [Next]_vars
  <2>1. pc[g] = "idle" /\ Call(g) /\ UNCHANGED <<locked, waitQueue, waiters, micro, pc>>
    BY <1>1 DEF DoReturns, OncePlaces
  <2>2. CASE locked
    <3>1. TryLockFails(g)
      BY <2>1, <2>2 DEF TryLockFails
    <3> QED BY <3>1 DEF Next, Operation
  <2>3. CASE ~locked
    <3>1. UnlockPanics(g)
      BY <2>1, <2>3 DEF UnlockPanics
    <3> QED BY <3>1 DEF Next, Operation
  <2> QED BY <2>2, <2>3
<1>2. ASSUME NEW g \in G, DoLocks(g) PROVE [Next]_vars
  BY <1>2 DEF DoLocks, Next, Operation
<1>3. ASSUME NEW g \in G, DoCalls(g) PROVE [Next]_vars
  BY <1>3 DEF DoCalls
<1>4. ASSUME NEW g \in G, DoFindsDone(g) \/ DoEnds(g) PROVE [Next]_vars
  BY <1>4 DEF DoFindsDone, DoEnds, Next, Operation
<1>5. ASSUME RunGrant PROVE [Next]_vars
  BY <1>5 DEF Next, RunMicrotask
<1> QED BY <1>1, <1>2, <1>3, <1>4, <1>5 DEF OnceNext, Behind

\* Whom Unlock touches: its caller, and the first waiter.
LEMMA UnlockTouches ==
  ASSUME IInv, NEW g \in G, Unlock(g)
  PROVE  /\ pc[g] = "critical" /\ pc'[g] = "idle"
         /\ \A h \in G : h # g => \/ pc'[h] = pc[h]
                                  \/ pc[h] = "queued" /\ pc'[h] = "granted"
<1>1. /\ pc[g] = "critical" /\ Release(g, "idle")
      /\ pc \in [G -> State] /\ waitQueue \in Seq(G) /\ AllIn(waitQueue, "queued")
  BY DEF Unlock, IInv, TypeOK, Places, QueuePlaces
<1>2. pc'[g] = "idle" /\ \A h \in G : h # g /\ pc[h] # "queued" => pc'[h] = pc[h]
  BY <1>1, ReleaseStep
<1>3. CASE waitQueue = <<>>
  <2>1. \A h \in G : h # g => pc'[h] = pc[h]
    BY <1>1, <1>3 DEF Release
  <2> QED BY <1>1, <1>2, <2>1
<1>4. CASE waitQueue # <<>>
  <2> DEFINE w == Head(waitQueue)
  <2>1. pc' = [pc EXCEPT ![g] = "idle", ![w] = "granted"] /\ w \in G
    BY <1>1, <1>4 DEF Release
  <2> HIDE DEF w
  <2>2. \A h \in G : h # g => pc'[h] = IF h = w THEN "granted" ELSE pc[h]
    BY <1>1, <2>1
  <2> QED BY <1>1, <1>2, <2>2
<1> QED BY <1>3, <1>4

LEMMA OnceStepKeeps ==
  ASSUME part = "once", part' = part, IInv, OnceInv, OnceNext
  PROVE  OnceInv'
<1>t. /\ done \in BOOLEAN /\ ended \in BOOLEAN /\ runs \in Nat
      /\ stage \in [G -> {"out", "locking", "calling"}] /\ pc \in [G -> State]
      /\ OncePlaces
  BY DEF OnceInv, OnceTypeOK, IInv, TypeOK
<1>p. \A g \in G : /\ stage[g] = "out" <=> pc[g] = "idle"
                   /\ stage[g] = "calling" => pc[g] = "critical" /\ done
  BY <1>t DEF OncePlaces
<1>i. /\ runs = (IF done THEN 1 ELSE 0)
      /\ done => ended \/ \E g \in G : stage[g] = "calling"
      /\ passed # {} => ended
  BY DEF OnceInv, CalledOnce, LockedDoWaitsForF
<1>o. \A g, h \in G : pc[g] = "critical" /\ pc[h] = "critical" => g = h
  BY OwnerForm DEF IInv
<1>1. ASSUME NEW g \in G, DoReturns(g) PROVE OnceInv'
  <2>1. UNCHANGED <<pc, done, stage, runs, ended, passed>>
    BY <1>1 DEF DoReturns, onceVars
  <2> QED BY <2>1 DEF OnceInv, OnceTypeOK, OncePlaces, CalledOnce, LockedDoWaitsForF
<1>2. ASSUME NEW g \in G, DoLocks(g) PROVE OnceInv'
  <2>1. /\ stage[g] = "out" /\ ~done /\ stage' = [stage EXCEPT ![g] = "locking"]
        /\ UNCHANGED <<done, runs, ended, passed>>
        /\ pc' = [pc EXCEPT ![g] = "critical"] \/ pc' = [pc EXCEPT ![g] = "queued"]
    BY <1>2 DEF DoLocks, LockFree, LockQueues
  <2>2. /\ stage' \in [G -> {"out", "locking", "calling"}]
        /\ stage'[g] = "locking" /\ \A h \in G : h # g => stage'[h] = stage[h]
    BY <1>t, <2>1
  <2>3. pc'[g] # "idle" /\ \A h \in G : h # g => pc'[h] = pc[h]
    BY <1>t, <2>1
  <2>4. OncePlaces'
    BY <1>p, <2>1, <2>2, <2>3 DEF OncePlaces
  <2> QED BY <1>t, <1>i, <2>1, <2>2, <2>4
          DEF OnceInv, OnceTypeOK, CalledOnce, LockedDoWaitsForF
<1>3. ASSUME NEW g \in G, DoCalls(g) PROVE OnceInv'
  <2>1. /\ stage[g] = "locking" /\ pc[g] = "critical" /\ ~done /\ done' = TRUE
        /\ runs' = runs + 1 /\ stage' = [stage EXCEPT ![g] = "calling"]
        /\ UNCHANGED <<pc, ended, passed>>
    BY <1>3 DEF DoCalls, vars
  <2>2. /\ stage' \in [G -> {"out", "locking", "calling"}]
        /\ stage'[g] = "calling" /\ \A h \in G : h # g => stage'[h] = stage[h]
    BY <1>t, <2>1
  <2>3. OncePlaces'
    BY <1>p, <2>1, <2>2 DEF OncePlaces
  <2>4. runs' = 1
    BY <1>i, <2>1
  <2> QED BY <1>t, <1>i, <2>1, <2>2, <2>3, <2>4
          DEF OnceInv, OnceTypeOK, CalledOnce, LockedDoWaitsForF
<1>4. ASSUME NEW g \in G, DoFindsDone(g) \/ DoEnds(g) PROVE OnceInv'
  <2>1. /\ Unlock(g) /\ stage[g] # "out"
        /\ stage' = [stage EXCEPT ![g] = "out"]
        /\ passed' = passed \cup {g} /\ UNCHANGED <<done, runs>>
        /\ done
    BY <1>4, <1>p DEF DoFindsDone, DoEnds
  <2>2. ended'
    <3>1. CASE DoEnds(g)
      BY <3>1 DEF DoEnds
    <3>2. CASE DoFindsDone(g)
      <4>1. stage[g] = "locking" /\ pc[g] = "critical" /\ ended' = ended
        BY <3>2 DEF DoFindsDone
      <4>2. \A h \in G : stage[h] # "calling"
        BY <1>p, <1>o, <4>1
      <4> QED BY <1>i, <2>1, <4>1, <4>2
    <3> QED BY <1>4, <3>1, <3>2
  <2>3. /\ stage' \in [G -> {"out", "locking", "calling"}]
        /\ stage'[g] = "out" /\ \A h \in G : h # g => stage'[h] = stage[h]
    BY <1>t, <2>1
  <2>4. ended' \in BOOLEAN
    BY <1>4, <1>t DEF DoFindsDone, DoEnds
  <2>5. OncePlaces'
    <3>1. /\ pc[g] = "critical" /\ pc'[g] = "idle"
          /\ \A h \in G : h # g => \/ pc'[h] = pc[h]
                                   \/ pc[h] = "queued" /\ pc'[h] = "granted"
      BY <2>1, UnlockTouches
    <3> QED BY <1>p, <2>1, <2>3, <3>1 DEF OncePlaces
  <2> QED BY <1>t, <1>i, <2>1, <2>2, <2>3, <2>4, <2>5
          DEF OnceInv, OnceTypeOK, CalledOnce, LockedDoWaitsForF
<1>5. ASSUME RunGrant, UNCHANGED onceVars PROVE OnceInv'
  <2> DEFINE w == Head(Head(micro).gs)
  <2>1. /\ UNCHANGED <<done, stage, runs, ended, passed>>
        /\ pc' = [pc EXCEPT ![w] = "critical"]
    BY <1>5 DEF RunGrant, onceVars
  <2>2. pc[w] = "granted"
    <3>1. /\ Head(micro) = micro[1] /\ 1 \in 1..Len(micro) /\ micro[1].kind = "grant"
          /\ Len(micro[1].gs) = 1 /\ micro[1].gs \in Seq(G) /\ pc[micro[1].gs[1]] = "granted"
      BY <1>5, ShiftMicro, Elements DEF IInv, TypeOK, Places, GrantPlaces, RunGrant
    <3>2. w = micro[1].gs[1]
      BY <3>1
    <3> QED BY <3>1, <3>2
  <2> HIDE DEF w
  <2>3. \A h \in G : pc'[h] = IF h = w THEN "critical" ELSE pc[h]
    BY <1>t, <2>1
  <2>4. OncePlaces'
    BY <1>p, <2>1, <2>2, <2>3 DEF OncePlaces
  <2> QED BY <1>t, <1>i, <2>1, <2>4
          DEF OnceInv, OnceTypeOK, CalledOnce, LockedDoWaitsForF
<1> QED BY <1>1, <1>2, <1>3, <1>4, <1>5 DEF OnceNext, Behind

-----------------------------------------------------------------------------
(* The four objects together. *)

LEMMA SyncInitial == SyncInit => SyncInv
<1> SUFFICES ASSUME SyncInit PROVE SyncInv
  OBVIOUS
<1>0. \A R : <<>> \in Seq(R)
  OBVIOUS
<1>e. Len(<<>>) = 0 /\ ToSet(<<>>) = {}
  BY DEF ToSet
<1>1. OnceInit /\ RW!Init /\ WG!Init
  BY DEF SyncInit
<1>2. IInv /\ Accounted
  BY <1>1, MutexInit DEF OnceInit
<1>3. OnceInv
  BY <1>1 DEF OnceInit, Init, OnceInv, OnceTypeOK, OncePlaces, CalledOnce, LockedDoWaitsForF
<1>4. RWInv
  <2>1. /\ readers = 0 /\ writer = FALSE /\ readerWaitQueue = <<>>
        /\ writerWaitQueue = <<>> /\ rwMicro = <<>>
        /\ rwPc = [g \in G |-> "idle"] /\ rwOp = [g \in G |-> 0]
    BY <1>1 DEF RW!Init
  <2>2. RW!RWTypeOK
    <3>1. rwPc \in [G -> RW!State] /\ rwOp \in [G -> 0..MaxOps]
      BY <2>1, MutexMaxOps DEF RW!State
    <3>2. /\ readerWaitQueue \in Seq(G) /\ writerWaitQueue \in Seq(G)
          /\ rwMicro \in Seq(RW!Job)
      BY <1>0, <2>1
    <3> QED BY <2>1, <3>1, <3>2 DEF RW!RWTypeOK
  <2>3. Called = {} /\ RW!Holding("reading") = {}
    BY <2>1 DEF Called, RW!Holding
  <2>4. RWPlaces
    BY <1>e, <2>1, <2>3 DEF RWPlaces, JobsHold, Distinct
  <2>5. ReadersExact
    BY <2>1, <2>3, FS_EmptySet, SameCardinality DEF ReadersExact, RW!ReadersCounted
  <2>6. RW!QueueHeld /\ RW!WriterFound
    BY <2>1 DEF RW!QueueHeld, RW!WriterFound
  <2> QED BY <2>2, <2>4, <2>5, <2>6 DEF RWInv
<1>5. WGInv
  <2>1. /\ counter = 0 /\ wgWaiters = <<>> /\ wgMicro = <<>>
        /\ task = [t \in Tasks |-> "new"] /\ wgPc = [g \in Waiters |-> "idle"]
        /\ waits = [g \in Waiters |-> 0] /\ misuse = 0
        /\ awaited = [g \in Waiters |-> {}]
    BY <1>1 DEF WG!Init
  <2>2. WG!WaitGroupTypeOK
    BY <1>0, <2>1, WaitGroupAssumption DEF WG!WaitGroupTypeOK
  <2>3. WG!Unfinished = {}
    BY <2>1 DEF WG!Unfinished
  <2>4. TasksCounted
    BY <2>1, <2>3, FS_EmptySet, SameCardinality DEF TasksCounted, WG!CounterExact
  <2>5. StartsHold(wgMicro, task) /\ WakesHold(wgMicro, wgPc)
    BY <1>e, <2>1 DEF StartsHold, WakesHold
  <2>6. WG!NoWaiterLeft /\ AwaitedLaunched /\ WG!WaitCovers
    BY <1>e, <2>1, SameToSet DEF WG!NoWaiterLeft, AwaitedLaunched, WG!WaitCovers
  <2> QED BY <2>2, <2>4, <2>5, <2>6 DEF WGInv
<1> QED BY <1>2, <1>3, <1>4, <1>5 DEF SyncInv

LEMMA SyncStep == SyncInv /\ [SyncNext]_syncVars => SyncInv'
<1> SUFFICES ASSUME SyncInv, [SyncNext]_syncVars PROVE SyncInv'
  OBVIOUS
<1>t. IInv /\ Accounted /\ OnceInv /\ RWInv /\ WGInv
  BY DEF SyncInv
<1>m. ASSUME [Next]_vars PROVE IInv' /\ Accounted'
  BY <1>t, <1>m, MutexSafe, MutexTypeStep, MutexFinds DEF IInv, Accounted
<1>o. ASSUME UNCHANGED onceVars, part' = part, part = "once" => UNCHANGED pc PROVE OnceInv'
  <2>1. UNCHANGED <<done, stage, runs, ended, passed>>
    BY <1>o DEF onceVars
  <2> QED BY <1>t, <1>o, <2>1
          DEF OnceInv, OnceTypeOK, OncePlaces, CalledOnce, LockedDoWaitsForF
<1>r. ASSUME UNCHANGED rwVars PROVE RWInv'
  BY <1>t, <1>r, RWStep
<1>w. ASSUME UNCHANGED wgVars PROVE WGInv'
  BY <1>t, <1>w, WGStep
<1>1. CASE MutexStep
  BY <1>m, <1>o, <1>r, <1>w, <1>1 DEF MutexStep, SyncInv
<1>2. CASE OnceStep
  <2>1. part = "once" /\ part' = part /\ OnceNext /\ UNCHANGED <<rwVars, wgVars>>
    BY <1>2 DEF OnceStep
  <2>2. OncePlaces
    BY <1>t, <2>1 DEF OnceInv
  <2>3. IInv' /\ Accounted'
    BY <1>m, <2>1, <2>2, OnceUsesMutex
  <2>4. OnceInv'
    BY <1>t, <2>1, OnceStepKeeps
  <2> QED BY <1>r, <1>w, <2>1, <2>3, <2>4 DEF SyncInv
<1>a. ASSUME UNCHANGED <<part, allVars>> PROVE IInv' /\ Accounted' /\ OnceInv'
  <2>1. UNCHANGED <<part, vars, onceVars>>
    BY <1>a DEF allVars, onceVars
  <2>2. UNCHANGED pc
    BY <2>1 DEF vars
  <2> QED BY <1>m, <1>o, <2>1, <2>2
<1>3. CASE RWMutexStep
  <2>1. RWInv'
    BY <1>t, <1>3, RWStep DEF RWMutexStep
  <2> QED BY <1>a, <1>w, <1>3, <2>1 DEF RWMutexStep, SyncInv
<1>4. CASE WaitGroupStep
  <2>1. WGInv'
    BY <1>t, <1>4, WGStep DEF WaitGroupStep
  <2> QED BY <1>a, <1>r, <1>4, <2>1 DEF WaitGroupStep, SyncInv
<1>5. CASE UNCHANGED syncVars
  BY <1>a, <1>r, <1>w, <1>5 DEF syncVars, SyncInv
<1> QED BY <1>1, <1>2, <1>3, <1>4, <1>5 DEF SyncNext

LEMMA SyncInvariant == SyncSpec => []SyncInv
BY SyncInitial, SyncStep, PTL DEF SyncSpec

\* A Mutex, and the mutex inside a Once, never has two owners, whatever Lock,
\* TryLock, Unlock, Cond.Wait, Signal, Broadcast and Do do with it.
THEOREM SyncMutualExclusion == SyncSpec => []MutualExclusion
<1>1. SyncInv => MutualExclusion
  BY DEF SyncInv, IInv
<1> QED BY SyncInvariant, <1>1, PTL

\* A Once calls f once, and a Do that asked for the lock returns after f has
\* ended: Do tests _done again behind the lock, and marks it before it calls f.
THEOREM OnceKeepsItsPromise == SyncSpec => []OnceAgrees
<1>1. SyncInv => OnceAgrees
  BY DEF SyncInv, OnceInv, OnceAgrees
<1> QED BY SyncInvariant, <1>1, PTL

\* Nobody who waits for a Mutex, a Cond or an RWMutex is stranded: Unlock,
\* RUnlock, Signal and Broadcast take a waiter out of his queue only to put him
\* into a microtask, a queue of an RWMutex has a holder or a chosen writer ahead
\* of it, and _readers counts the readers exactly.
THEOREM SyncStrandsNobody == SyncSpec => []NobodyStranded
<1>1. SyncInv => NobodyStranded
  <2> SUFFICES ASSUME SyncInv PROVE NobodyStranded
    OBVIOUS
  <2>1. TypeOK /\ Accounted
    BY DEF SyncInv, IInv
  <2>2. RW!RWTypeOK /\ RWPlaces /\ RW!QueueHeld /\ RW!WriterFound /\ RW!ReadersCounted
    BY DEF SyncInv, RWInv, ReadersExact
  <2>3. RW!BlockedFound
    <3>1. rwMicro \in Seq(RW!Job) /\ JobsHold(rwMicro, Called)
      BY <2>2, RWTypes DEF RWPlaces
    <3>2. \A g \in Called : \E j \in ToSet(rwMicro) : g \in ToSet(j.gs)
      BY <3>1, SetOfSeq DEF JobsHold
    <3>3. \A g \in G : /\ rwPc[g] = "wantsRead" <=> g \in ToSet(readerWaitQueue)
                       /\ rwPc[g] = "wantsWrite" <=> g \in ToSet(writerWaitQueue)
      BY <2>2 DEF RWPlaces
    <3> QED BY <3>2, <3>3, SameToSet DEF RW!BlockedFound, Called
  <2> QED BY <2>1, <2>2, <2>3 DEF NobodyStranded, RW!NobodyStranded
<1> QED BY SyncInvariant, <1>1, PTL

\* A Wait that returns has seen every task that was launched before it end, and
\* leaves no other waiter behind; the counter is exact also while the start of
\* a task is still queued, since Go counts it in the call.
THEOREM WaitGroupWaits == SyncSpec => []WaitCovers
<1>1. SyncInv => WaitCovers
  BY DEF SyncInv, WGInv, TasksCounted, WaitCovers
<1> QED BY SyncInvariant, <1>1, PTL
=============================================================================
