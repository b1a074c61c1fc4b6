------------------------------ MODULE Channel ------------------------------
(***************************************************************************)
(* The goroutine channels of the GoScript runtime, gs/builtin/channel.ts:  *)
(* class BufferedChannel and the helpers chanSend, chanRecv and            *)
(* chanRecvWithOk.                                                         *)
(*                                                                         *)
(* A goroutine is an async function, so it runs without interruption until *)
(* it awaits a promise.  One action below is one such uninterrupted piece: *)
(* a whole call of send, receive, receiveWithOk or close up to its await,  *)
(* one queued microtask, one expired timer, or the continuation of an      *)
(* await.  queueMicrotask is a first-in-first-out queue (micro); the       *)
(* zero-delay timers that close() starts (timers) expire in the order in   *)
(* which they were started and only when no microtask is queued.  How many *)
(* microtasks the engine takes to continue an await is not modelled: when  *)
(* a microtask has settled the promise, the continuation (Resume) may run  *)
(* at any moment before the next timer.  The promise that a timer settles  *)
(* is the only thing the microtask queue then holds, so its continuation   *)
(* is part of the timer's action.                                          *)
(*                                                                         *)
(* Every send carries a value of its own, numbered in the order in which   *)
(* the sends reach the runtime, so a value also names its send.  Zero is   *)
(* the element type's zero value, the result of a receive from a closed    *)
(* channel (value: zeroValue, ok: false).                                  *)
(***************************************************************************)
EXTENDS Naturals, Sequences, FiniteSets, SequencesExt

CONSTANTS G,         \* goroutines
          Chans,     \* channels
          Capacity,  \* the buffer size makeChannel was given, per channel
          SendChans, \* the channels the program sends on; the others are only
                     \* closed, like the Done channel of a context
          MaxOps     \* bound: channel operations each goroutine starts

ASSUME CapacityAssumption == Capacity \in [Chans -> Nat]
ASSUME SendChansAssumption == SendChans \subseteq Chans
ASSUME MaxOpsAssumption == MaxOps \in Nat

VARIABLES
  chan,    \* the BufferedChannel objects
  micro,   \* jobs passed to queueMicrotask and not yet run
  timers,  \* jobs passed to setTimeout(_, 0) and not yet run
  pc,      \* what each goroutine is doing
  op,      \* number of operations each goroutine has started
  done,    \* settled promises that each goroutine has not yet looked at
  sent,    \* history: one record per value, in the order of the sends
  taken,   \* history: per channel, the values taken out of it, in order
  got      \* history: per goroutine, what its receives returned, in order

vars == <<chan, micro, timers, pc, op, done, sent, taken, got>>

-----------------------------------------------------------------------------
(* Data. *)

Zero == 0

Value == Nat \ {Zero}

\* A promise pair (resolve, reject): operation n of goroutine g, on channel c.
\* i numbers the cases of a select statement; it is 0 for any other operation.
Task == [g : G, n : 1..MaxOps, c : Chans, i : Nat]

\* An entry of BufferedChannel.senders.
SenderTask == [t : Task, v : Value]

\* A job settles a task's promise.  "handoff" is the first microtask of
\* completeUnbufferedReceive, which queues the sender's acknowledgement.
Job == [kind : {"handoff", "sent", "zero", "closed"},
        to : Task, from : Task, v : Nat]

\* How a promise was settled: a completed send or receive, or a rejected send.
Outcome == [kind : {"sent", "received", "panic"}, t : Task, v : Nat]

\* History records: what became of a send for its sender, and what a receive
\* returned.
SendRecord == [c : Chans, st : {"pending", "returned", "panicked", "withdrawn"}]
Receipt == [c : Chans, v : Nat]

ChannelState == [buffer : Seq(Value), closed : BOOLEAN,
                 senders : Seq(SenderTask),
                 receivers : Seq(Task), receiversWithOk : Seq(Task)]

TypeOK ==
  /\ chan \in [Chans -> ChannelState]
  /\ micro \in Seq(Job)
  /\ timers \in Seq(Job)
  /\ pc \in [G -> {"ready", "waiting", "selecting", "forever"}]
  /\ op \in [G -> 0..MaxOps]
  /\ done \in [G -> SUBSET Outcome]
  /\ sent \in Seq(SendRecord)
  /\ taken \in [Chans -> Seq(Value)]
  /\ got \in [G -> Seq(Receipt)]

\* The field initialisers and constructor of BufferedChannel.
NewChannel == [buffer |-> <<>>, closed |-> FALSE, senders |-> <<>>,
               receivers |-> <<>>, receiversWithOk |-> <<>>]

Init ==
  /\ chan = [c \in Chans |-> NewChannel]
  /\ micro = <<>>
  /\ timers = <<>>
  /\ pc = [g \in G |-> "ready"]
  /\ op = [g \in G |-> 0]
  /\ done = [g \in G |-> {}]
  /\ sent = <<>>
  /\ taken = [c \in Chans |-> <<>>]
  /\ got = [g \in G |-> <<>>]

-----------------------------------------------------------------------------
(* What one channel's fields allow, and how one call changes them. *)

HasReceiver(ch) == ch.receivers # <<>> \/ ch.receiversWithOk # <<>>

\* send() serves every waiting receive() before any receiveWithOk() or select.
NextReceiver(ch) ==
  IF ch.receivers # <<>> THEN Head(ch.receivers) ELSE Head(ch.receiversWithOk)

ShiftReceiver(ch) ==
  IF ch.receivers # <<>> THEN [ch EXCEPT !.receivers = Tail(@)]
                         ELSE [ch EXCEPT !.receiversWithOk = Tail(@)]

\* Mutant: off by one.
HasRoomForOneMore(c, ch) == Len(ch.buffer) <= Capacity[c]

HasRoom(c, ch) == Len(ch.buffer) < Capacity[c]

\* Take the oldest buffered value; a waiting sender's value moves in behind.
ShiftBuffer(ch) ==
  IF ch.senders = <<>>
  THEN [ch EXCEPT !.buffer = Tail(@)]
  ELSE [ch EXCEPT !.buffer = Append(Tail(@), Head(ch.senders).v),
                  !.senders = Tail(@)]

ShiftSender(ch) == [ch EXCEPT !.senders = Tail(@)]

CanReceiveNonBlocking(ch) ==
  ch.buffer # <<>> \/ ch.senders # <<>> \/ ch.closed

CanSendNonBlocking(c, ch) ==
  ch.closed \/ HasRoom(c, ch) \/ HasReceiver(ch)

HandoffJob(t, v, sender) ==
  [kind |-> "handoff", to |-> t, from |-> sender, v |-> v]
SentJob(t, v)  == [kind |-> "sent",   to |-> t, from |-> t, v |-> v]
ZeroJob(t)     == [kind |-> "zero",   to |-> t, from |-> t, v |-> Zero]
ClosedJob(s)   == [kind |-> "closed", to |-> s.t, from |-> s.t, v |-> s.v]

\* Mutant: the served sender is not told.
UnblockNobody(ch) == <<>>

\* The microtask that unblocks the sender a receive has just served, if any.
UnblockSender(ch) ==
  IF ch.senders = <<>> THEN <<>>
  ELSE <<SentJob(Head(ch.senders).t, Head(ch.senders).v)>>

-----------------------------------------------------------------------------
(* Goroutines. *)

\* A goroutine that is not blocked may call into the runtime.  A panic that
\* the program recovers leaves its goroutine in the same state.
CanStart(g) == pc[g] = "ready" /\ op[g] < MaxOps

Start(g, state) ==
  /\ op' = [op EXCEPT ![g] = @ + 1]
  /\ pc' = [pc EXCEPT ![g] = state]

TaskOf(g, c, i) == [g |-> g, n |-> op[g] + 1, c |-> c, i |-> i]

NextValue == Len(sent) + 1

RecordSend(c, state) == sent' = Append(sent, [c |-> c, st |-> state])

Take(c, v) == taken' = [taken EXCEPT ![c] = Append(@, v)]

Return(g, c, v) == got' = [got EXCEPT ![g] = Append(@, [c |-> c, v |-> v])]

-----------------------------------------------------------------------------
(* chanSend on a channel: BufferedChannel.send *)

SendPanics(g, c) ==
  /\ CanStart(g)
  /\ chan[c].closed
  /\ Start(g, "ready")
  /\ RecordSend(c, "panicked")
  /\ UNCHANGED <<chan, micro, timers, done, taken, got>>

\* Mutant: the sender does not await the hand-off.
SendHandsOffWithoutWaiting(g, c) ==
  /\ CanStart(g)
  /\ ~chan[c].closed
  /\ HasReceiver(chan[c])
  /\ chan' = [chan EXCEPT ![c] = ShiftReceiver(@)]
  /\ micro' = Append(micro, HandoffJob(NextReceiver(chan[c]), NextValue,
                                       TaskOf(g, c, 0)))
  /\ Start(g, "ready")
  /\ RecordSend(c, "returned")
  /\ Take(c, NextValue)
  /\ UNCHANGED <<timers, done, got>>

\* Rendezvous with a waiting receiver; the sender awaits the acknowledgement.
SendHandsOff(g, c) ==
  /\ CanStart(g)
  /\ ~chan[c].closed
  /\ HasReceiver(chan[c])
  /\ chan' = [chan EXCEPT ![c] = ShiftReceiver(@)]
  /\ micro' = Append(micro, HandoffJob(NextReceiver(chan[c]), NextValue,
                                       TaskOf(g, c, 0)))
  /\ Start(g, "waiting")
  /\ RecordSend(c, "pending")
  /\ Take(c, NextValue)
  /\ UNCHANGED <<timers, done, got>>

SendBuffers(g, c) ==
  /\ CanStart(g)
  /\ ~chan[c].closed
  /\ ~HasReceiver(chan[c])
  /\ HasRoom(c, chan[c])
  /\ chan' = [chan EXCEPT ![c].buffer = Append(@, NextValue)]
  /\ Start(g, "ready")
  /\ RecordSend(c, "returned")
  /\ UNCHANGED <<micro, timers, done, taken, got>>

SendBlocks(g, c) ==
  /\ CanStart(g)
  /\ ~chan[c].closed
  /\ ~HasReceiver(chan[c])
  /\ ~HasRoom(c, chan[c])
  /\ chan' = [chan EXCEPT ![c].senders =
                 Append(@, [t |-> TaskOf(g, c, 0), v |-> NextValue])]
  /\ Start(g, "waiting")
  /\ RecordSend(c, "pending")
  /\ UNCHANGED <<micro, timers, done, taken, got>>

-----------------------------------------------------------------------------
(* chanRecv and chanRecvWithOk on a channel: BufferedChannel.receive and   *)
(* receiveWithOk, which test the closed flag and the senders in a          *)
(* different order.                                                        *)

ReceiveBuffered(g, c) ==
  /\ CanStart(g)
  /\ chan[c].buffer # <<>>
  /\ chan' = [chan EXCEPT ![c] = ShiftBuffer(@)]
  /\ micro' = micro \o UnblockSender(chan[c])
  /\ Start(g, "ready")
  /\ Take(c, Head(chan[c].buffer))
  /\ Return(g, c, Head(chan[c].buffer))
  /\ UNCHANGED <<timers, done, sent>>

\* Mutant: the closed flag is tested before the buffer.
ReceiveClosedFirst(g, c, withOk) ==
  /\ CanStart(g)
  /\ chan[c].closed
  /\ Start(g, "ready")
  /\ Return(g, c, Zero)
  /\ UNCHANGED <<chan, micro, timers, done, sent, taken>>

ReceiveClosed(g, c, withOk) ==
  /\ CanStart(g)
  /\ chan[c].buffer = <<>>
  /\ chan[c].closed
  /\ withOk => chan[c].senders = <<>>
  /\ Start(g, "ready")
  /\ Return(g, c, Zero)
  /\ UNCHANGED <<chan, micro, timers, done, sent, taken>>

ReceiveFromSender(g, c, withOk) ==
  /\ CanStart(g)
  /\ chan[c].buffer = <<>>
  /\ ~withOk => ~chan[c].closed
  /\ chan[c].senders # <<>>
  /\ chan' = [chan EXCEPT ![c] = ShiftSender(@)]
  /\ micro' = micro \o UnblockSender(chan[c])
  /\ Start(g, "ready")
  /\ Take(c, Head(chan[c].senders).v)
  /\ Return(g, c, Head(chan[c].senders).v)
  /\ UNCHANGED <<timers, done, sent>>

ReceiveBlocks(g, c, withOk) ==
  /\ CanStart(g)
  /\ chan[c].buffer = <<>>
  /\ chan[c].senders = <<>>
  /\ ~chan[c].closed
  /\ chan' = IF withOk
             THEN [chan EXCEPT ![c].receiversWithOk = Append(@, TaskOf(g, c, 0))]
             ELSE [chan EXCEPT ![c].receivers = Append(@, TaskOf(g, c, 0))]
  /\ Start(g, "waiting")
  /\ UNCHANGED <<micro, timers, done, sent, taken, got>>

\* chanSend, chanRecv and chanRecvWithOk on a nil channel never return.
NilOperation(g) ==
  /\ CanStart(g)
  /\ Start(g, "forever")
  /\ UNCHANGED <<chan, micro, timers, done, sent, taken, got>>

-----------------------------------------------------------------------------
(* BufferedChannel.close *)

\* Mutant: the third loop of close() is missing.
CloseWakesNoReceiverWithOk(ch) ==
  [k \in 1..Len(ch.senders) |-> ClosedJob(ch.senders[k])]
    \o [k \in 1..Len(ch.receivers) |-> ZeroJob(ch.receivers[k])]

\* One timer per waiter: senders first, then receive(), then receiveWithOk().
CloseWakes(ch) ==
  [k \in 1..Len(ch.senders) |-> ClosedJob(ch.senders[k])]
    \o [k \in 1..Len(ch.receivers) |-> ZeroJob(ch.receivers[k])]
    \o [k \in 1..Len(ch.receiversWithOk) |-> ZeroJob(ch.receiversWithOk[k])]

\* Mutants: a list that close() does not reset, and a buffer that it does.
CloseKeepsReceiversWithOk(ch) ==
  [ch EXCEPT !.closed = TRUE, !.senders = <<>>, !.receivers = <<>>]
CloseKeepsSenders(ch) ==
  [ch EXCEPT !.closed = TRUE, !.receivers = <<>>, !.receiversWithOk = <<>>]
CloseDropsBuffer(ch) ==
  [ch EXCEPT !.closed = TRUE, !.buffer = <<>>, !.senders = <<>>,
             !.receivers = <<>>, !.receiversWithOk = <<>>]

CloseChannel(ch) == [ch EXCEPT !.closed = TRUE, !.senders = <<>>,
                               !.receivers = <<>>, !.receiversWithOk = <<>>]

\* Mutant: the waiters are woken by microtasks, not at a task boundary.
CloseWakesAtOnce(g, c) ==
  /\ CanStart(g)
  /\ ~chan[c].closed
  /\ chan' = [chan EXCEPT ![c] = CloseChannel(@)]
  /\ micro' = micro \o CloseWakes(chan[c])
  /\ Start(g, "ready")
  /\ UNCHANGED <<timers, done, sent, taken, got>>

Close(g, c) ==
  /\ CanStart(g)
  /\ ~chan[c].closed
  /\ chan' = [chan EXCEPT ![c] = CloseChannel(@)]
  /\ timers' = timers \o CloseWakes(chan[c])
  /\ Start(g, "ready")
  /\ UNCHANGED <<micro, done, sent, taken, got>>

ClosePanics(g, c) ==
  /\ CanStart(g)
  /\ chan[c].closed
  /\ Start(g, "ready")
  /\ UNCHANGED <<chan, micro, timers, done, sent, taken, got>>

-----------------------------------------------------------------------------
(* Microtasks, timers, and the continuation of a blocked operation. *)

\* Some goroutine is still awaiting the promise: a select statement that has
\* ended has aborted its cases (state.done), and nobody listens to it anyway.
Live(t) == op[t.g] = t.n /\ pc[t.g] \in {"waiting", "selecting"}

Settle(t, kind, v) ==
  done' = IF Live(t)
          THEN [done EXCEPT ![t.g] = @ \cup {[kind |-> kind, t |-> t, v |-> v]}]
          ELSE done

\* completeUnbufferedReceive: first the receiver, then, one microtask later,
\* the sender.
RunHandoff ==
  /\ micro # <<>>
  /\ Head(micro).kind = "handoff"
  /\ Settle(Head(micro).to, "received", Head(micro).v)
  /\ micro' = Append(Tail(micro), SentJob(Head(micro).from, Head(micro).v))
  /\ UNCHANGED <<chan, timers, pc, op, sent, taken, got>>

RunSent ==
  /\ micro # <<>>
  /\ Head(micro).kind = "sent"
  /\ Settle(Head(micro).to, "sent", Head(micro).v)
  /\ micro' = Tail(micro)
  /\ UNCHANGED <<chan, timers, pc, op, sent, taken, got>>

\* What the goroutine learns from a settled promise, and that it goes on.
Continue(g, o) ==
  /\ pc' = [pc EXCEPT ![g] = "ready"]
  /\ sent' = CASE o.kind = "sent"  -> [sent EXCEPT ![o.v].st = "returned"]
               [] o.kind = "panic" -> [sent EXCEPT ![o.v].st = "panicked"]
               [] OTHER            -> sent
  /\ got' = IF o.kind = "received"
            THEN [got EXCEPT ![g] = Append(@, [c |-> o.t.c, v |-> o.v])]
            ELSE got

Resume(g) ==
  /\ pc[g] = "waiting"
  /\ \E o \in done[g] : Continue(g, o)
  /\ done' = [done EXCEPT ![g] = {}]
  /\ UNCHANGED <<chan, micro, timers, op, taken>>

\* A timer expires once every microtask and every continuation has run.
TimerTurn == timers # <<>> /\ micro = <<>> /\ \A g \in G : done[g] = {}

\* A timer of close(): rejectSend, or resolveReceive with the zero value.
TimerOutcome(j) == [kind |-> IF j.kind = "closed" THEN "panic" ELSE "received",
                    t |-> j.to, v |-> j.v]

RunTimer ==
  /\ TimerTurn
  /\ Live(Head(timers).to)
  /\ pc[Head(timers).to.g] = "waiting"
  /\ Continue(Head(timers).to.g, TimerOutcome(Head(timers)))
  /\ timers' = Tail(timers)
  /\ UNCHANGED <<chan, micro, op, done, taken>>

-----------------------------------------------------------------------------
Send(g, c) ==
  SendPanics(g, c) \/ SendHandsOff(g, c) \/ SendBuffers(g, c) \/ SendBlocks(g, c)

Receive(g, c, withOk) ==
  \/ ReceiveBuffered(g, c)
  \/ ReceiveClosed(g, c, withOk)
  \/ ReceiveFromSender(g, c, withOk)
  \/ ReceiveBlocks(g, c, withOk)

Operation(g) ==
  \/ \E c \in SendChans : Send(g, c)
  \/ \E c \in Chans : Close(g, c) \/ ClosePanics(g, c)
  \/ \E c \in Chans, withOk \in BOOLEAN : Receive(g, c, withOk)
  \/ NilOperation(g)

RunMicrotask == RunHandoff \/ RunSent

Next ==
  \/ \E g \in G : Operation(g) \/ Resume(g)
  \/ RunMicrotask
  \/ RunTimer

Spec == Init /\ [][Next]_vars

\* The event loop runs every queued job and every continuation.  Nothing says
\* that a goroutine ever starts another operation.
Fairness == WF_vars(RunMicrotask) /\ WF_vars(RunTimer)
              /\ \A g \in G : WF_vars(Resume(g))

FairSpec == Spec /\ Fairness

-----------------------------------------------------------------------------
(* Properties. *)

\* The tasks that wait in the queues of a channel.
Queued(ch) == {s.t : s \in ToSet(ch.senders)} \cup ToSet(ch.receivers)
                \cup ToSet(ch.receiversWithOk)

\* No two parties wait that could serve each other, and nobody waits who
\* could proceed.
Disciplined(c, ch) ==
  /\ HasReceiver(ch) => ch.buffer = <<>> /\ ch.senders = <<>>
  /\ ch.senders # <<>> => Len(ch.buffer) = Capacity[c]
  /\ Len(ch.buffer) <= Capacity[c]
  /\ ch.closed => ch.senders = <<>> /\ ~HasReceiver(ch)

\* BufferedChannel keeps its waiting lists in order: with a waiting receiver
\* there is neither a buffered value nor a waiting sender, a sender waits only
\* on a full buffer, the buffer never exceeds its capacity, and a closed
\* channel has no waiter left.  receive() and receiveWithOk(), which test the
\* closed flag and the senders in a different order, agree because of this.
QueueDiscipline == \A c \in Chans : Disciplined(c, chan[c])

\* The values of a channel in the order in which they leave it.
Line(c) ==
  chan[c].buffer \o [k \in 1..Len(chan[c].senders) |-> chan[c].senders[k].v]

\* A goroutine sees the values of a channel in the order of the sends, no
\* value is received twice, and after the zero value of a closed channel no
\* value follows (buffered values are drained first).
ReceivedInOrder ==
  /\ \A g \in G : \A j, k \in 1..Len(got[g]) :
       j < k /\ got[g][j].c = got[g][k].c =>
         \/ got[g][j].v # Zero /\ got[g][j].v < got[g][k].v
         \/ got[g][k].v = Zero
  /\ \A g, h \in G : \A j \in 1..Len(got[g]), k \in 1..Len(got[h]) :
       got[g][j].v = got[h][k].v /\ got[g][j].v # Zero => g = h /\ j = k

\* Places of a goroutine's pending promise: a queue of some channel, a job
\* that will settle it, or a result it has not looked at yet.
InQueue(t)  == t \in Queued(chan[t.c])
InJobs(t)   == \E j \in ToSet(micro) \cup ToSet(timers) : t \in {j.to, j.from}
InDone(t)   == \E o \in done[t.g] : o.t = t

CurrentTask(g, c) == [g |-> g, n |-> op[g], c |-> c, i |-> 0]

\* The operation a blocked goroutine waits for is in exactly one place, so
\* its wakeup is neither lost nor delivered twice; and every waiter that the
\* channels keep belongs to an operation that is still waiting.
NoLostWakeup ==
  /\ \A g \in G : pc[g] = "waiting" =>
       \E c \in Chans :
         LET t == CurrentTask(g, c)
         IN  \/ InQueue(t) /\ ~InJobs(t) /\ ~InDone(t)
             \/ ~InQueue(t) /\ InJobs(t) /\ ~InDone(t)
             \/ ~InQueue(t) /\ ~InJobs(t) /\ InDone(t)
  /\ \A c \in Chans : \A t \in Queued(chan[c]) : Live(t)

\* The value v is on its way to a receiver that still waits for it.
InFlight(v) ==
  \/ \E j \in ToSet(micro) : j.kind = "handoff" /\ j.v = v /\ Live(j.to)
  \/ \E g \in G : \E o \in done[g] : o.kind = "received" /\ o.v = v

Received(v) == \E g \in G : \E e \in ToSet(got[g]) : e.v = v

Buffered(v) == \E c \in Chans : v \in ToSet(chan[c].buffer)

\* A send that returned is never lost: its value is buffered, on its way to a
\* waiting receiver, or received.
NoLoss ==
  \A v \in 1..Len(sent) :
    sent[v].st = "returned" => Buffered(v) \/ InFlight(v) \/ Received(v)

\* A send that panicked (send on closed channel, or close() with the sender
\* blocked) delivered nothing: neither a receiver nor the buffer has its value.
PanickedSendDeliversNothing ==
  \A v \in 1..Len(sent) :
    sent[v].st = "panicked" => ~Buffered(v) /\ ~InFlight(v) /\ ~Received(v)

\* completeUnbufferedReceive settles the receiver before the sender: when a
\* send on an unbuffered channel returns, its receiver already has the value.
Rendezvous ==
  \A v \in 1..Len(sent) :
    sent[v].st = "returned" /\ Capacity[sent[v].c] = 0 =>
      ~\E j \in ToSet(micro) : j.kind = "handoff" /\ j.v = v

\* A blocked goroutine whose task has left the queues of its channel (handed
\* a value, served by a receive, or woken by close) eventually continues.  No
\* task stays in a queue of a closed channel (QueueDiscipline), so in
\* particular nobody stays blocked on a closed channel.
ServedContinues ==
  \A g \in G :
    (pc[g] = "waiting" /\ \A c \in Chans : ~InQueue(CurrentTask(g, c)))
      ~> pc[g] = "ready"

\* BufferedChannel implements the Go channel: a step of the runtime is a step
\* of GoChannel on the line made of the buffer and the blocked senders' values,
\* or changes nothing there.
Go == INSTANCE GoChannel WITH
        line   <- [c \in Chans |-> Line(c)],
        closed <- [c \in Chans |-> chan[c].closed],
        next   <- NextValue

ImplementsGoChannel == Go!Spec
=============================================================================
