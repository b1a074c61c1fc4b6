--------------------------- MODULE ChannelProofs ---------------------------
(***************************************************************************)
(* Theorems about the channels of gs/builtin/channel.ts for every number   *)
(* of goroutines, channels, capacities and operations: types, the          *)
(* discipline of the three waiting lists, that they implement GoChannel,   *)
(* and that no wakeup and no value is lost or reordered.  The last part    *)
(* rests on ChannelInv, which follows every pending promise and every      *)
(* value by a token from place to place.                                   *)
(***************************************************************************)
EXTENDS Channel, SequenceFacts

\* What a goroutine learns about one of its sends keeps the history typed,
\* whether or not v is a send that took place.
LEMMA SentUpdate ==
  ASSUME NEW s \in Seq(SendRecord), NEW v \in Nat,
         NEW x \in {"returned", "panicked"}
  PROVE  [s EXCEPT ![v].st = x] \in Seq(SendRecord)
<1> DEFINE f == [s EXCEPT ![v].st = x]
<1>1. s \in [1..Len(s) -> SendRecord] /\ Len(s) \in Nat
  OBVIOUS
<1>2. \A k \in 1..Len(s) : [s[k] EXCEPT !.st = x] \in SendRecord
  BY <1>1 DEF SendRecord
<1>3. f \in [1..Len(s) -> SendRecord]
  BY <1>1, <1>2
<1> QED BY <1>1, <1>3, FunctionIsSeq

\* The jobs of close() are jobs.
LEMMA CloseWakesType ==
  ASSUME NEW ch \in ChannelState
  PROVE  CloseWakes(ch) \in Seq(Job)
<1> DEFINE a == [k \in 1..Len(ch.senders) |-> ClosedJob(ch.senders[k])]
           b == [k \in 1..Len(ch.receivers) |-> ZeroJob(ch.receivers[k])]
           d == [k \in 1..Len(ch.receiversWithOk) |-> ZeroJob(ch.receiversWithOk[k])]
<1>0. /\ ch.senders \in Seq(SenderTask)
      /\ ch.receivers \in Seq(Task)
      /\ ch.receiversWithOk \in Seq(Task)
  BY DEF ChannelState
<1>1. a \in Seq(Job)
  <2>1. \A s \in SenderTask : ClosedJob(s) \in Job
    BY DEF ClosedJob, Job, SenderTask, Value, Zero
  <2>2. a \in [1..Len(ch.senders) -> Job] /\ Len(ch.senders) \in Nat
    BY <1>0, <2>1
  <2> QED BY <2>2, FunctionIsSeq
<1>x. \A t \in Task : ZeroJob(t) \in Job
  BY DEF ZeroJob, Job, Zero
<1>2. b \in Seq(Job)
  <2>2. b \in [1..Len(ch.receivers) -> Job] /\ Len(ch.receivers) \in Nat
    BY <1>0, <1>x
  <2> QED BY <2>2, FunctionIsSeq
<1>3. d \in Seq(Job)
  <2>2. d \in [1..Len(ch.receiversWithOk) -> Job] /\ Len(ch.receiversWithOk) \in Nat
    BY <1>0, <1>x
  <2> QED BY <2>2, FunctionIsSeq
<1> HIDE DEF a, b, d
<1>4. a \o b \o d \in Seq(Job)
  BY <1>1, <1>2, <1>3
<1> QED BY <1>4 DEF CloseWakes, a, b, d

\* Replacing fields by well-typed ones keeps a channel well-typed.
LEMMA ChannelFields ==
  ASSUME NEW ch \in ChannelState
  PROVE  /\ ch.buffer \in Seq(Value)
         /\ ch.closed \in BOOLEAN
         /\ ch.senders \in Seq(SenderTask)
         /\ ch.receivers \in Seq(Task)
         /\ ch.receiversWithOk \in Seq(Task)
         /\ \A q \in Seq(Task) :
              /\ [ch EXCEPT !.receivers = q] \in ChannelState
              /\ [ch EXCEPT !.receiversWithOk = q] \in ChannelState
         /\ \A b \in Seq(Value) : [ch EXCEPT !.buffer = b] \in ChannelState
         /\ \A q \in Seq(SenderTask) : [ch EXCEPT !.senders = q] \in ChannelState
         /\ \A b \in Seq(Value), q \in Seq(SenderTask) :
              [ch EXCEPT !.buffer = b, !.senders = q] \in ChannelState
<1>1. /\ ch.buffer \in Seq(Value)
      /\ ch.closed \in BOOLEAN
      /\ ch.senders \in Seq(SenderTask)
      /\ ch.receivers \in Seq(Task)
      /\ ch.receiversWithOk \in Seq(Task)
  BY DEF ChannelState
<1>2. \A q \in Seq(Task) : [ch EXCEPT !.receivers = q] \in ChannelState
  BY DEF ChannelState
<1>3. \A q \in Seq(Task) : [ch EXCEPT !.receiversWithOk = q] \in ChannelState
  BY DEF ChannelState
<1>4. \A b \in Seq(Value) : [ch EXCEPT !.buffer = b] \in ChannelState
  BY DEF ChannelState
<1>5. \A q \in Seq(SenderTask) : [ch EXCEPT !.senders = q] \in ChannelState
  BY DEF ChannelState
<1>6. \A b \in Seq(Value), q \in Seq(SenderTask) :
        [ch EXCEPT !.buffer = b, !.senders = q] \in ChannelState
  BY DEF ChannelState
<1> QED BY <1>1, <1>2, <1>3, <1>4, <1>5, <1>6

\* One call keeps the fields of a channel typed.
LEMMA ChannelSteps ==
  ASSUME NEW ch \in ChannelState
  PROVE  /\ HasReceiver(ch) => /\ ShiftReceiver(ch) \in ChannelState
                               /\ NextReceiver(ch) \in Task
         /\ ch.buffer # <<>> => /\ ShiftBuffer(ch) \in ChannelState
                                /\ Head(ch.buffer) \in Value
         /\ ch.senders # <<>> => /\ ShiftSender(ch) \in ChannelState
                                 /\ Head(ch.senders) \in SenderTask
         /\ CloseChannel(ch) \in ChannelState
<1>0. /\ ch.buffer \in Seq(Value)
      /\ ch.closed \in BOOLEAN
      /\ ch.senders \in Seq(SenderTask)
      /\ ch.receivers \in Seq(Task)
      /\ ch.receiversWithOk \in Seq(Task)
  BY ChannelFields
<1>1. HasReceiver(ch) => ShiftReceiver(ch) \in ChannelState
  <2>1. ch.receivers # <<>> => Tail(ch.receivers) \in Seq(Task)
    BY <1>0
  <2>2. ch.receiversWithOk # <<>> => Tail(ch.receiversWithOk) \in Seq(Task)
    BY <1>0
  <2> QED BY <2>1, <2>2, ChannelFields, Zenon DEF HasReceiver, ShiftReceiver
<1>2. HasReceiver(ch) => NextReceiver(ch) \in Task
  BY <1>0 DEF HasReceiver, NextReceiver
<1>3. ch.senders # <<>> => Head(ch.senders).v \in Value
  <2>1. ch.senders # <<>> => Head(ch.senders) \in SenderTask
    BY <1>0
  <2> QED BY <2>1 DEF SenderTask
<1>s. ch.senders # <<>> => Tail(ch.senders) \in Seq(SenderTask)
  BY <1>0
<1>4. ch.buffer # <<>> => ShiftBuffer(ch) \in ChannelState
  <2>1. ch.buffer # <<>> => Tail(ch.buffer) \in Seq(Value)
    BY <1>0
  <2>2. ch.buffer # <<>> /\ ch.senders # <<>> =>
          Append(Tail(ch.buffer), Head(ch.senders).v) \in Seq(Value)
    BY <2>1, <1>3
  <2> QED BY <2>1, <2>2, <1>s, ChannelFields, Zenon DEF ShiftBuffer
<1>5. ch.buffer # <<>> => Head(ch.buffer) \in Value
  BY <1>0
<1>6. ch.senders # <<>> => Head(ch.senders) \in SenderTask
  BY <1>0
<1>7. ch.senders # <<>> => ShiftSender(ch) \in ChannelState
  BY <1>s, ChannelFields, Zenon DEF ShiftSender
<1>8. CloseChannel(ch) \in ChannelState
  <2>1. <<>> \in Seq(SenderTask) /\ <<>> \in Seq(Task)
    OBVIOUS
  <2> QED BY <1>0, <2>1 DEF CloseChannel, ChannelState
<1> QED BY <1>1, <1>2, <1>4, <1>5, <1>6, <1>7, <1>8

\* The jobs that sends and receives queue are jobs.
LEMMA JobTypes ==
  /\ \A t \in Task, u \in Task, v \in Nat : HandoffJob(t, v, u) \in Job
  /\ \A t \in Task, v \in Nat : SentJob(t, v) \in Job
  /\ \A ch \in ChannelState : UnblockSender(ch) \in Seq(Job)
<1>1. \A t \in Task, u \in Task, v \in Nat : HandoffJob(t, v, u) \in Job
  BY DEF HandoffJob, Job
<1>2. \A t \in Task, v \in Nat : SentJob(t, v) \in Job
  BY DEF SentJob, Job
<1>3. ASSUME NEW ch \in ChannelState
      PROVE  UnblockSender(ch) \in Seq(Job)
  <2>1. CASE ch.senders = <<>>
    BY <2>1 DEF UnblockSender
  <2>2. CASE ch.senders # <<>>
    <3>1. Head(ch.senders) \in SenderTask
      BY <2>2, ChannelSteps
    <3>2. SentJob(Head(ch.senders).t, Head(ch.senders).v) \in Job
      BY <3>1, <1>2 DEF SenderTask, Value
    <3> QED BY <2>2, <3>2 DEF UnblockSender
  <2> QED BY <2>1, <2>2
<1> QED BY <1>1, <1>2, <1>3

-----------------------------------------------------------------------------
\* What every operation does to the goroutine that starts it.
LEMMA StartType ==
  ASSUME TypeOK, NEW g \in G, CanStart(g)
  PROVE  /\ \A c \in Chans : TaskOf(g, c, 0) \in Task
         /\ \A st \in {"ready", "waiting", "selecting", "forever"} : Start(g, st) =>
              /\ op' \in [G -> 0..MaxOps]
              /\ pc' \in [G -> {"ready", "waiting", "selecting", "forever"}]
<1>1. op[g] + 1 \in 1..MaxOps
  BY MaxOpsAssumption DEF TypeOK, CanStart
<1>2. \A c \in Chans : TaskOf(g, c, 0) \in Task
  BY <1>1 DEF TaskOf, Task
<1>3. \A st \in {"ready", "waiting", "selecting", "forever"} : Start(g, st) =>
        op' \in [G -> 0..MaxOps]
  BY <1>1, MaxOpsAssumption DEF TypeOK, Start
<1>4. \A st \in {"ready", "waiting", "selecting", "forever"} : Start(g, st) =>
        pc' \in [G -> {"ready", "waiting", "selecting", "forever"}]
  BY DEF TypeOK, Start
<1> QED BY <1>2, <1>3, <1>4

\* What an operation adds to the histories.
LEMMA HistoryType ==
  ASSUME TypeOK, NEW c \in Chans
  PROVE  /\ NextValue \in Value
         /\ \A st \in {"pending", "returned", "panicked", "withdrawn"} :
              RecordSend(c, st) => sent' \in Seq(SendRecord)
         /\ \A v \in Value : Take(c, v) => taken' \in [Chans -> Seq(Value)]
         /\ \A g \in G, v \in Nat : Return(g, c, v) => got' \in [G -> Seq(Receipt)]
<1>1. NextValue \in Value
  BY DEF TypeOK, NextValue, Value, Zero
<1>2. ASSUME NEW st \in {"pending", "returned", "panicked", "withdrawn"},
             RecordSend(c, st)
      PROVE  sent' \in Seq(SendRecord)
  <2>1. [c |-> c, st |-> st] \in SendRecord
    BY DEF SendRecord
  <2> QED BY <1>2, <2>1 DEF RecordSend, TypeOK
<1>3. ASSUME NEW v \in Value, Take(c, v)
      PROVE  taken' \in [Chans -> Seq(Value)]
  BY <1>3 DEF TypeOK, Take
<1>4. ASSUME NEW g \in G, NEW v \in Nat, Return(g, c, v)
      PROVE  got' \in [G -> Seq(Receipt)]
  <2>1. [c |-> c, v |-> v] \in Receipt
    BY DEF Receipt
  <2> QED BY <1>4, <2>1 DEF TypeOK, Return
<1> QED BY <1>1, <1>2, <1>3, <1>4

\* Settling a promise adds an outcome.
LEMMA SettleType ==
  ASSUME TypeOK, NEW t \in Task, NEW kind \in {"sent", "received", "panic"},
         NEW v \in Nat, Settle(t, kind, v)
  PROVE  done' \in [G -> SUBSET Outcome]
<1>1. [kind |-> kind, t |-> t, v |-> v] \in Outcome
  BY DEF Outcome
<1>2. t.g \in G
  BY DEF Task
<1> QED BY <1>1, <1>2 DEF TypeOK, Settle

\* A goroutine that goes on records a typed result.
LEMMA ContinueType ==
  ASSUME TypeOK, NEW g \in G, NEW o \in Outcome, Continue(g, o)
  PROVE  /\ pc' \in [G -> {"ready", "waiting", "selecting", "forever"}]
         /\ sent' \in Seq(SendRecord)
         /\ got' \in [G -> Seq(Receipt)]
<1>1. /\ o.kind \in {"sent", "received", "panic"}
      /\ o.t \in Task
      /\ o.v \in Nat
  BY DEF Outcome
<1>2. pc' \in [G -> {"ready", "waiting", "selecting", "forever"}]
  BY DEF Continue, TypeOK
<1>3. sent' \in Seq(SendRecord)
  <2>1. [sent EXCEPT ![o.v].st = "returned"] \in Seq(SendRecord)
    BY <1>1, SentUpdate DEF TypeOK
  <2>2. [sent EXCEPT ![o.v].st = "panicked"] \in Seq(SendRecord)
    BY <1>1, SentUpdate DEF TypeOK
  <2>3. sent \in Seq(SendRecord)
    BY DEF TypeOK
  <2>4. CASE o.kind = "sent"
    BY <2>1, <2>4, Zenon DEF Continue
  <2>5. CASE o.kind = "panic"
    <3>1. o.kind # "sent"
      BY <2>5
    <3> QED BY <2>2, <2>5, <3>1, Zenon DEF Continue
  <2>6. CASE o.kind = "received"
    <3>1. o.kind # "sent" /\ o.kind # "panic"
      BY <2>6
    <3> QED BY <2>3, <3>1, Zenon DEF Continue
  <2> QED BY <1>1, <2>4, <2>5, <2>6
<1>4. got' \in [G -> Seq(Receipt)]
  <2>1. [c |-> o.t.c, v |-> o.v] \in Receipt
    BY <1>1 DEF Receipt, Task
  <2> QED BY <2>1 DEF Continue, TypeOK
<1> QED BY <1>2, <1>3, <1>4

LEMMA ChanUpdate ==
  ASSUME TypeOK, NEW c \in Chans, NEW ch \in ChannelState
  PROVE  [chan EXCEPT ![c] = ch] \in [Chans -> ChannelState]
BY DEF TypeOK

\* Every step keeps the state typed.
LEMMA TypeStep == TypeOK /\ [Next]_vars => TypeOK'
<1> SUFFICES ASSUME TypeOK, [Next]_vars PROVE TypeOK'
  OBVIOUS
<1>0. \A c \in Chans : chan[c] \in ChannelState
  BY DEF TypeOK
<1>f. \A c \in Chans : /\ chan[c].buffer \in Seq(Value)
                       /\ chan[c].senders \in Seq(SenderTask)
                       /\ chan[c].receivers \in Seq(Task)
                       /\ chan[c].receiversWithOk \in Seq(Task)
  BY <1>0, ChannelFields
<1> DEFINE States == {"ready", "waiting", "selecting", "forever"}
<1>1. ASSUME NEW g \in G, NEW c \in Chans, SendPanics(g, c)
      PROVE  TypeOK'
  <2>1. CanStart(g) /\ Start(g, "ready") /\ RecordSend(c, "panicked")
    BY <1>1 DEF SendPanics
  <2>2. op' \in [G -> 0..MaxOps] /\ pc' \in [G -> States]
    BY <2>1, StartType
  <2>3. sent' \in Seq(SendRecord)
    BY <2>1, HistoryType
  <2> QED BY <1>1, <2>2, <2>3 DEF SendPanics, TypeOK
<1>2. ASSUME NEW g \in G, NEW c \in Chans, SendHandsOff(g, c)
      PROVE  TypeOK'
  <2>1. /\ CanStart(g) /\ Start(g, "waiting") /\ RecordSend(c, "pending")
        /\ HasReceiver(chan[c]) /\ Take(c, NextValue)
    BY <1>2 DEF SendHandsOff
  <2>2. op' \in [G -> 0..MaxOps] /\ pc' \in [G -> States]
    BY <2>1, StartType
  <2>3. sent' \in Seq(SendRecord) /\ taken' \in [Chans -> Seq(Value)]
    BY <2>1, HistoryType
  <2>4. chan' \in [Chans -> ChannelState]
    BY <1>0, <1>2, <2>1, ChannelSteps, ChanUpdate DEF SendHandsOff
  <2>5. micro' \in Seq(Job)
    <3>1. HandoffJob(NextReceiver(chan[c]), NextValue, TaskOf(g, c, 0)) \in Job
      BY <1>0, <2>1, ChannelSteps, StartType, HistoryType, JobTypes DEF Value
    <3> QED BY <1>2, <3>1 DEF SendHandsOff, TypeOK
  <2> QED BY <1>2, <2>2, <2>3, <2>4, <2>5 DEF SendHandsOff, TypeOK
<1>3. ASSUME NEW g \in G, NEW c \in Chans, SendBuffers(g, c)
      PROVE  TypeOK'
  <2>1. CanStart(g) /\ Start(g, "ready") /\ RecordSend(c, "returned")
    BY <1>3 DEF SendBuffers
  <2>2. op' \in [G -> 0..MaxOps] /\ pc' \in [G -> States]
    BY <2>1, StartType
  <2>3. sent' \in Seq(SendRecord)
    BY <2>1, HistoryType
  <2>4. chan' \in [Chans -> ChannelState]
    <3>1. Append(chan[c].buffer, NextValue) \in Seq(Value)
      <4>1. NextValue \in Value
        BY HistoryType
      <4> QED BY <1>f, <4>1
    <3>2. [chan[c] EXCEPT !.buffer = Append(chan[c].buffer, NextValue)]
            \in ChannelState
      BY <1>0, <3>1, ChannelFields
    <3> QED BY <1>3, <3>2, ChanUpdate DEF SendBuffers
  <2> QED BY <1>3, <2>2, <2>3, <2>4 DEF SendBuffers, TypeOK
<1>4. ASSUME NEW g \in G, NEW c \in Chans, SendBlocks(g, c)
      PROVE  TypeOK'
  <2>1. CanStart(g) /\ Start(g, "waiting") /\ RecordSend(c, "pending")
    BY <1>4 DEF SendBlocks
  <2>2. op' \in [G -> 0..MaxOps] /\ pc' \in [G -> States]
    BY <2>1, StartType
  <2>3. sent' \in Seq(SendRecord)
    BY <2>1, HistoryType
  <2>4. chan' \in [Chans -> ChannelState]
    <3> DEFINE s == [t |-> TaskOf(g, c, 0), v |-> NextValue]
    <3>1. s \in SenderTask
      BY <2>1, StartType, HistoryType DEF SenderTask
    <3>2. Append(chan[c].senders, s) \in Seq(SenderTask)
      <4> HIDE DEF s
      <4> QED BY <1>f, <3>1
    <3>3. [chan[c] EXCEPT !.senders = Append(chan[c].senders, s)] \in ChannelState
      BY <1>0, <3>2, ChannelFields
    <3> QED BY <1>4, <3>3, ChanUpdate DEF SendBlocks
  <2> QED BY <1>4, <2>2, <2>3, <2>4 DEF SendBlocks, TypeOK
<1>5. ASSUME NEW g \in G, NEW c \in Chans, ReceiveBuffered(g, c)
      PROVE  TypeOK'
  <2>1. /\ CanStart(g) /\ Start(g, "ready") /\ chan[c].buffer # <<>>
        /\ Take(c, Head(chan[c].buffer)) /\ Return(g, c, Head(chan[c].buffer))
    BY <1>5 DEF ReceiveBuffered
  <2>2. op' \in [G -> 0..MaxOps] /\ pc' \in [G -> States]
    BY <2>1, StartType
  <2>3. Head(chan[c].buffer) \in Value /\ Head(chan[c].buffer) \in Nat
    BY <1>0, <2>1, ChannelSteps DEF Value
  <2>4. taken' \in [Chans -> Seq(Value)] /\ got' \in [G -> Seq(Receipt)]
    BY <2>1, <2>3, HistoryType
  <2>5. chan' \in [Chans -> ChannelState]
    BY <1>0, <1>5, <2>1, ChannelSteps, ChanUpdate DEF ReceiveBuffered
  <2>6. micro' \in Seq(Job)
    <3>1. UnblockSender(chan[c]) \in Seq(Job)
      BY <1>0, JobTypes
    <3> QED BY <1>5, <3>1 DEF ReceiveBuffered, TypeOK
  <2> QED BY <1>5, <2>2, <2>4, <2>5, <2>6 DEF ReceiveBuffered, TypeOK
<1>6. ASSUME NEW g \in G, NEW c \in Chans, NEW w \in BOOLEAN, ReceiveClosed(g, c, w)
      PROVE  TypeOK'
  <2>1. CanStart(g) /\ Start(g, "ready") /\ Return(g, c, Zero)
    BY <1>6 DEF ReceiveClosed
  <2>2. op' \in [G -> 0..MaxOps] /\ pc' \in [G -> States]
    BY <2>1, StartType
  <2>3. got' \in [G -> Seq(Receipt)]
    BY <2>1, HistoryType DEF Zero
  <2> QED BY <1>6, <2>2, <2>3 DEF ReceiveClosed, TypeOK
<1>7. ASSUME NEW g \in G, NEW c \in Chans, NEW w \in BOOLEAN,
             ReceiveFromSender(g, c, w)
      PROVE  TypeOK'
  <2>1. /\ CanStart(g) /\ Start(g, "ready") /\ chan[c].senders # <<>>
        /\ Take(c, Head(chan[c].senders).v)
        /\ Return(g, c, Head(chan[c].senders).v)
    BY <1>7 DEF ReceiveFromSender
  <2>2. op' \in [G -> 0..MaxOps] /\ pc' \in [G -> States]
    BY <2>1, StartType
  <2>3. Head(chan[c].senders).v \in Value /\ Head(chan[c].senders).v \in Nat
    <3>1. Head(chan[c].senders) \in SenderTask
      BY <1>0, <2>1, ChannelSteps
    <3> QED BY <3>1 DEF SenderTask, Value
  <2>4. taken' \in [Chans -> Seq(Value)] /\ got' \in [G -> Seq(Receipt)]
    BY <2>1, <2>3, HistoryType
  <2>5. chan' \in [Chans -> ChannelState]
    BY <1>0, <1>7, <2>1, ChannelSteps, ChanUpdate DEF ReceiveFromSender
  <2>6. micro' \in Seq(Job)
    <3>1. UnblockSender(chan[c]) \in Seq(Job)
      BY <1>0, JobTypes
    <3> QED BY <1>7, <3>1 DEF ReceiveFromSender, TypeOK
  <2> QED BY <1>7, <2>2, <2>4, <2>5, <2>6 DEF ReceiveFromSender, TypeOK
<1>8. ASSUME NEW g \in G, NEW c \in Chans, NEW w \in BOOLEAN, ReceiveBlocks(g, c, w)
      PROVE  TypeOK'
  <2>1. CanStart(g) /\ Start(g, "waiting")
    BY <1>8 DEF ReceiveBlocks
  <2>2. op' \in [G -> 0..MaxOps] /\ pc' \in [G -> States]
    BY <2>1, StartType
  <2>3. chan' \in [Chans -> ChannelState]
    <3> DEFINE t == TaskOf(g, c, 0)
    <3>1. t \in Task
      BY <2>1, StartType
    <3>2. /\ Append(chan[c].receivers, t) \in Seq(Task)
          /\ Append(chan[c].receiversWithOk, t) \in Seq(Task)
      <4> HIDE DEF t
      <4> QED BY <1>f, <3>1
    <3>3. /\ [chan[c] EXCEPT !.receivers = Append(chan[c].receivers, t)]
               \in ChannelState
          /\ [chan[c] EXCEPT !.receiversWithOk = Append(chan[c].receiversWithOk, t)]
               \in ChannelState
      BY <1>0, <3>2, ChannelFields
    <3> QED BY <1>8, <3>3, ChanUpdate DEF ReceiveBlocks
  <2> QED BY <1>8, <2>2, <2>3 DEF ReceiveBlocks, TypeOK
<1>9. ASSUME NEW g \in G, NilOperation(g)
      PROVE  TypeOK'
  <2>1. CanStart(g) /\ Start(g, "forever")
    BY <1>9 DEF NilOperation
  <2>2. op' \in [G -> 0..MaxOps] /\ pc' \in [G -> States]
    BY <2>1, StartType
  <2> QED BY <1>9, <2>2 DEF NilOperation, TypeOK
<1>10. ASSUME NEW g \in G, NEW c \in Chans, Close(g, c)
       PROVE  TypeOK'
  <2>1. CanStart(g) /\ Start(g, "ready")
    BY <1>10 DEF Close
  <2>2. op' \in [G -> 0..MaxOps] /\ pc' \in [G -> States]
    BY <2>1, StartType
  <2>3. chan' \in [Chans -> ChannelState]
    BY <1>0, <1>10, ChannelSteps, ChanUpdate DEF Close
  <2>4. timers' \in Seq(Job)
    <3>1. CloseWakes(chan[c]) \in Seq(Job)
      BY <1>0, CloseWakesType
    <3> QED BY <1>10, <3>1 DEF Close, TypeOK
  <2> QED BY <1>10, <2>2, <2>3, <2>4 DEF Close, TypeOK
<1>11. ASSUME NEW g \in G, NEW c \in Chans, ClosePanics(g, c)
       PROVE  TypeOK'
  <2>1. CanStart(g) /\ Start(g, "ready")
    BY <1>11 DEF ClosePanics
  <2>2. op' \in [G -> 0..MaxOps] /\ pc' \in [G -> States]
    BY <2>1, StartType
  <2> QED BY <1>11, <2>2 DEF ClosePanics, TypeOK
<1>12. ASSUME NEW g \in G, Resume(g)
       PROVE  TypeOK'
  <2>1. PICK o \in done[g] : Continue(g, o)
    BY <1>12 DEF Resume
  <2>2. o \in Outcome
    BY <2>1 DEF TypeOK
  <2>3. /\ pc' \in [G -> States] /\ sent' \in Seq(SendRecord)
        /\ got' \in [G -> Seq(Receipt)]
    BY <2>1, <2>2, ContinueType
  <2>4. done' \in [G -> SUBSET Outcome]
    BY <1>12 DEF Resume, TypeOK
  <2> QED BY <1>12, <2>3, <2>4 DEF Resume, TypeOK
<1>13. ASSUME RunHandoff
       PROVE  TypeOK'
  <2>1. micro # <<>> /\ Settle(Head(micro).to, "received", Head(micro).v)
    BY <1>13 DEF RunHandoff
  <2>2. Head(micro) \in Job /\ Tail(micro) \in Seq(Job)
    BY <2>1 DEF TypeOK
  <2>3. Head(micro).to \in Task /\ Head(micro).from \in Task /\ Head(micro).v \in Nat
    BY <2>2 DEF Job
  <2>4. done' \in [G -> SUBSET Outcome]
    BY <2>1, <2>3, SettleType
  <2>5. micro' \in Seq(Job)
    <3>1. SentJob(Head(micro).from, Head(micro).v) \in Job
      BY <2>3, JobTypes
    <3> QED BY <1>13, <2>2, <3>1 DEF RunHandoff
  <2> QED BY <1>13, <2>4, <2>5 DEF RunHandoff, TypeOK
<1>14. ASSUME RunSent
       PROVE  TypeOK'
  <2>1. micro # <<>> /\ Settle(Head(micro).to, "sent", Head(micro).v)
    BY <1>14 DEF RunSent
  <2>2. Head(micro) \in Job /\ Tail(micro) \in Seq(Job)
    BY <2>1 DEF TypeOK
  <2>3. Head(micro).to \in Task /\ Head(micro).v \in Nat
    BY <2>2 DEF Job
  <2>4. done' \in [G -> SUBSET Outcome]
    BY <2>1, <2>3, SettleType
  <2> QED BY <1>14, <2>2, <2>4 DEF RunSent, TypeOK
<1>15. ASSUME RunTimer
       PROVE  TypeOK'
  <2>1. timers # <<>>
    BY <1>15 DEF RunTimer, TimerTurn
  <2>2. Head(timers) \in Job /\ Tail(timers) \in Seq(Job)
    BY <2>1 DEF TypeOK
  <2>3. Head(timers).to \in Task /\ Head(timers).v \in Nat /\ Head(timers).to.g \in G
    BY <2>2 DEF Job, Task
  <2>4. TimerOutcome(Head(timers)) \in Outcome
    BY <2>3 DEF TimerOutcome, Outcome
  <2>5. /\ pc' \in [G -> States] /\ sent' \in Seq(SendRecord)
        /\ got' \in [G -> Seq(Receipt)]
    BY <1>15, <2>3, <2>4, ContinueType DEF RunTimer
  <2> QED BY <1>15, <2>2, <2>5 DEF RunTimer, TypeOK
<1>16. CASE UNCHANGED vars
  BY <1>16 DEF vars, TypeOK
<1> QED BY <1>1, <1>2, <1>3, <1>4, <1>5, <1>6, <1>7, <1>8, <1>9, <1>10, <1>11,
           <1>12, <1>13, <1>14, <1>15, <1>16, SendChansAssumption
        DEF Next, Operation, Send, Receive, RunMicrotask

LEMMA TypeInit == Init => TypeOK
<1> SUFFICES ASSUME Init PROVE TypeOK
  OBVIOUS
<1>1. NewChannel \in ChannelState
  BY DEF NewChannel, ChannelState
<1> QED BY <1>1, MaxOpsAssumption DEF Init, TypeOK

\* In every reachable state of the channels of channel.ts the buffers, queues,
\* jobs and histories have their types.
THEOREM ChannelTypeCorrect == Spec => []TypeOK
BY TypeInit, TypeStep, PTL DEF Spec

-----------------------------------------------------------------------------
\* Each change that a call makes to one channel, under the guard of its branch,
\* keeps the waiting lists in order.
LEMMA DisciplineSteps ==
  ASSUME NEW c \in Chans, NEW ch \in ChannelState, Disciplined(c, ch)
  PROVE  /\ HasReceiver(ch) /\ ~ch.closed => Disciplined(c, ShiftReceiver(ch))
         /\ ~ch.closed /\ ~HasReceiver(ch) /\ HasRoom(c, ch) =>
              \A v \in Value :
                Disciplined(c, [ch EXCEPT !.buffer = Append(ch.buffer, v)])
         /\ ~ch.closed /\ ~HasReceiver(ch) /\ ~HasRoom(c, ch) =>
              \A s \in SenderTask :
                Disciplined(c, [ch EXCEPT !.senders = Append(ch.senders, s)])
         /\ ch.buffer # <<>> => Disciplined(c, ShiftBuffer(ch))
         /\ ch.buffer = <<>> /\ ch.senders # <<>> => Disciplined(c, ShiftSender(ch))
         /\ ~CanReceiveNonBlocking(ch) =>
              \A t \in Task :
                /\ Disciplined(c, [ch EXCEPT !.receivers = Append(ch.receivers, t)])
                /\ Disciplined(c, [ch EXCEPT !.receiversWithOk =
                                        Append(ch.receiversWithOk, t)])
         /\ Disciplined(c, CloseChannel(ch))
<1>0. /\ ch.buffer \in Seq(Value)
      /\ ch.closed \in BOOLEAN
      /\ ch.senders \in Seq(SenderTask)
      /\ ch.receivers \in Seq(Task)
      /\ ch.receiversWithOk \in Seq(Task)
  BY ChannelFields
<1>d. ch = [buffer |-> ch.buffer, closed |-> ch.closed, senders |-> ch.senders,
            receivers |-> ch.receivers, receiversWithOk |-> ch.receiversWithOk]
  BY DEF ChannelState
<1>c. Capacity[c] \in Nat /\ Len(ch.buffer) \in Nat
  BY <1>0, CapacityAssumption
<1>1. HasReceiver(ch) /\ ~ch.closed => Disciplined(c, ShiftReceiver(ch))
  BY <1>0, <1>d, <1>c DEF Disciplined, HasReceiver, ShiftReceiver
<1>2. ASSUME ~ch.closed, ~HasReceiver(ch), HasRoom(c, ch), NEW v \in Value
      PROVE  Disciplined(c, [ch EXCEPT !.buffer = Append(ch.buffer, v)])
  BY <1>0, <1>d, <1>c, <1>2 DEF Disciplined, HasReceiver, HasRoom
<1>3. ASSUME ~ch.closed, ~HasReceiver(ch), ~HasRoom(c, ch), NEW s \in SenderTask
      PROVE  Disciplined(c, [ch EXCEPT !.senders = Append(ch.senders, s)])
  BY <1>0, <1>d, <1>c, <1>3 DEF Disciplined, HasReceiver, HasRoom
<1>4. ch.buffer # <<>> => Disciplined(c, ShiftBuffer(ch))
  BY <1>0, <1>d, <1>c DEF Disciplined, HasReceiver, ShiftBuffer
<1>5. ch.buffer = <<>> /\ ch.senders # <<>> => Disciplined(c, ShiftSender(ch))
  BY <1>0, <1>d, <1>c DEF Disciplined, HasReceiver, ShiftSender
<1>6. ASSUME ~CanReceiveNonBlocking(ch), NEW t \in Task
      PROVE  /\ Disciplined(c, [ch EXCEPT !.receivers = Append(ch.receivers, t)])
             /\ Disciplined(c, [ch EXCEPT !.receiversWithOk =
                                     Append(ch.receiversWithOk, t)])
  BY <1>0, <1>d, <1>c, <1>6 DEF Disciplined, HasReceiver, CanReceiveNonBlocking
<1>7. Disciplined(c, CloseChannel(ch))
  BY <1>0, <1>d, <1>c DEF Disciplined, HasReceiver, CloseChannel
<1> QED BY <1>1, <1>2, <1>3, <1>4, <1>5, <1>6, <1>7

\* Changing one channel concerns the discipline of that channel only.
LEMMA OneChannel ==
  ASSUME TypeOK, QueueDiscipline, NEW c \in Chans, NEW ch, Disciplined(c, ch),
         chan' = [chan EXCEPT ![c] = ch]
  PROVE  QueueDiscipline'
<1> SUFFICES ASSUME NEW d \in Chans PROVE Disciplined(d, chan'[d])
  BY DEF QueueDiscipline, Disciplined, HasReceiver
<1>1. CASE d = c
  <2>1. chan'[d] = ch
    BY <1>1 DEF TypeOK
  <2> QED BY <1>1, <2>1
<1>2. CASE d # c
  <2>1. chan'[d] = chan[d]
    BY <1>2 DEF TypeOK
  <2> QED BY <2>1 DEF QueueDiscipline
<1> QED BY <1>1, <1>2

\* Every step keeps the waiting lists in order.
LEMMA DisciplineStep ==
  TypeOK /\ QueueDiscipline /\ [Next]_vars => QueueDiscipline'
<1> SUFFICES ASSUME TypeOK, QueueDiscipline, [Next]_vars
             PROVE  QueueDiscipline'
  OBVIOUS
<1>0. \A c \in Chans : chan[c] \in ChannelState /\ Disciplined(c, chan[c])
  BY DEF TypeOK, QueueDiscipline
<1>u. ASSUME chan' = chan PROVE QueueDiscipline'
  BY <1>u DEF QueueDiscipline, Disciplined, HasReceiver
<1>1. ASSUME NEW g \in G, NEW c \in Chans, SendHandsOff(g, c)
      PROVE  QueueDiscipline'
  BY <1>0, <1>1, DisciplineSteps, OneChannel DEF SendHandsOff
<1>2. ASSUME NEW g \in G, NEW c \in Chans, SendBuffers(g, c)
      PROVE  QueueDiscipline'
  <2> DEFINE new == [chan[c] EXCEPT !.buffer = Append(chan[c].buffer, NextValue)]
  <2>1. NextValue \in Value
    BY HistoryType
  <2>2. Disciplined(c, new)
    BY <1>0, <1>2, <2>1, DisciplineSteps DEF SendBuffers
  <2>3. chan' = [chan EXCEPT ![c] = new]
    BY <1>2 DEF SendBuffers
  <2> HIDE DEF new
  <2> QED BY <2>2, <2>3, OneChannel
<1>3. ASSUME NEW g \in G, NEW c \in Chans, SendBlocks(g, c)
      PROVE  QueueDiscipline'
  <2> DEFINE s == [t |-> TaskOf(g, c, 0), v |-> NextValue]
             new == [chan[c] EXCEPT !.senders = Append(chan[c].senders, s)]
  <2>1. s \in SenderTask
    BY <1>3, StartType, HistoryType DEF SendBlocks, SenderTask
  <2>2. Disciplined(c, new)
    <3> HIDE DEF s
    <3> QED BY <1>0, <1>3, <2>1, DisciplineSteps DEF SendBlocks
  <2>3. chan' = [chan EXCEPT ![c] = new]
    BY <1>3 DEF SendBlocks
  <2> HIDE DEF new
  <2> QED BY <2>2, <2>3, OneChannel
<1>4. ASSUME NEW g \in G, NEW c \in Chans, ReceiveBuffered(g, c)
      PROVE  QueueDiscipline'
  BY <1>0, <1>4, DisciplineSteps, OneChannel DEF ReceiveBuffered
<1>5. ASSUME NEW g \in G, NEW c \in Chans, NEW w \in BOOLEAN,
             ReceiveFromSender(g, c, w)
      PROVE  QueueDiscipline'
  BY <1>0, <1>5, DisciplineSteps, OneChannel DEF ReceiveFromSender
<1>6. ASSUME NEW g \in G, NEW c \in Chans, NEW w \in BOOLEAN, ReceiveBlocks(g, c, w)
      PROVE  QueueDiscipline'
  <2> DEFINE t == TaskOf(g, c, 0)
             a == [chan[c] EXCEPT !.receivers = Append(chan[c].receivers, t)]
             b == [chan[c] EXCEPT !.receiversWithOk =
                                    Append(chan[c].receiversWithOk, t)]
  <2>1. t \in Task
    BY <1>6, StartType DEF ReceiveBlocks
  <2>2. ~CanReceiveNonBlocking(chan[c])
    BY <1>6 DEF ReceiveBlocks, CanReceiveNonBlocking
  <2>3. Disciplined(c, a) /\ Disciplined(c, b)
    <3> HIDE DEF t
    <3> QED BY <1>0, <2>1, <2>2, DisciplineSteps
  <2>4. chan' = [chan EXCEPT ![c] = a] \/ chan' = [chan EXCEPT ![c] = b]
    BY <1>6 DEF ReceiveBlocks
  <2> HIDE DEF a, b
  <2> QED BY <2>3, <2>4, OneChannel
<1>7. ASSUME NEW g \in G, NEW c \in Chans, Close(g, c)
      PROVE  QueueDiscipline'
  BY <1>0, <1>7, DisciplineSteps, OneChannel DEF Close
<1>8. ASSUME NEW g \in G, NEW c \in Chans,
             SendPanics(g, c) \/ ClosePanics(g, c)
               \/ (\E w \in BOOLEAN : ReceiveClosed(g, c, w))
      PROVE  QueueDiscipline'
  BY <1>8, <1>u DEF SendPanics, ClosePanics, ReceiveClosed
<1>9. ASSUME NEW g \in G, NilOperation(g) \/ Resume(g)
      PROVE  QueueDiscipline'
  BY <1>9, <1>u DEF NilOperation, Resume
<1>10. CASE RunHandoff \/ RunSent \/ RunTimer \/ UNCHANGED vars
  BY <1>10, <1>u DEF RunHandoff, RunSent, RunTimer, vars
<1> QED BY <1>1, <1>2, <1>3, <1>4, <1>5, <1>6, <1>7, <1>8, <1>9, <1>10,
           SendChansAssumption
        DEF Next, Operation, Send, Receive, RunMicrotask

LEMMA DisciplineInit == Init => QueueDiscipline
BY CapacityAssumption
   DEF Init, NewChannel, QueueDiscipline, Disciplined, HasReceiver

\* BufferedChannel keeps its waiting lists in order in every execution: no
\* receiver waits beside a value, no sender beside free room, nobody on a
\* closed channel.  The proof is by induction from TypeOK and the property.
THEOREM ChannelQueueDiscipline == Spec => []QueueDiscipline
BY DisciplineInit, ChannelTypeCorrect, DisciplineStep, PTL DEF Spec

-----------------------------------------------------------------------------
(* The line of values of a channel, and what each call makes of it.        *)

LineOf(ch) == ch.buffer \o [k \in 1..Len(ch.senders) |-> ch.senders[k].v]

Offered(q) == [k \in 1..Len(q) |-> q[k].v]

\* The values that a queue of senders offers.
LEMMA OfferedSteps ==
  ASSUME NEW q \in Seq(SenderTask)
  PROVE  /\ Offered(q) \in Seq(Value) /\ Len(Offered(q)) = Len(q)
         /\ \A s \in SenderTask : Offered(Append(q, s)) = Append(Offered(q), s.v)
         /\ q # <<>> => /\ Offered(q) # <<>> /\ Head(Offered(q)) = Head(q).v
                        /\ Offered(Tail(q)) = Tail(Offered(q))
         /\ q = <<>> => Offered(q) = <<>>
<1>t. \A s \in SenderTask : s.v \in Value
  BY DEF SenderTask
<1>1. ASSUME NEW p \in Seq(SenderTask)
      PROVE  /\ Offered(p) \in Seq(Value) /\ Len(Offered(p)) = Len(p)
             /\ Len(p) \in Nat /\ \A k \in 1..Len(p) : Offered(p)[k] = p[k].v
  <2>1. Offered(p) \in [1..Len(p) -> Value] /\ Len(p) \in Nat
    BY <1>t DEF Offered
  <2> QED BY <2>1, FunctionIsSeq DEF Offered
<1>2. ASSUME NEW s \in SenderTask PROVE Offered(Append(q, s)) = Append(Offered(q), s.v)
  <2> DEFINE p == Append(q, s)
             o == Offered(q)
             l == Offered(p)
             r == Append(o, s.v)
  <2>p. /\ p \in Seq(SenderTask) /\ Len(p) = Len(q) + 1
        /\ \A k \in 1..Len(q) : p[k] = q[k]
        /\ p[Len(q) + 1] = s
    OBVIOUS
  <2> HIDE DEF p
  <2>o. o \in Seq(Value) /\ Len(o) = Len(q) /\ Len(q) \in Nat
        /\ \A k \in 1..Len(q) : o[k] = q[k].v
    BY <1>1
  <2>l. l \in Seq(Value) /\ Len(l) = Len(q) + 1 /\ \A k \in 1..(Len(q) + 1) : l[k] = p[k].v
    BY <1>1, <2>p
  <2> HIDE DEF o, l
  <2>r. /\ r \in Seq(Value) /\ Len(r) = Len(q) + 1
        /\ \A k \in 1..Len(q) : r[k] = o[k]
        /\ r[Len(q) + 1] = s.v
    BY <1>t, <2>o
  <2> HIDE DEF r
  <2>e. ASSUME NEW k \in 1..Len(l) PROVE l[k] = r[k]
    <3>1. CASE k \in 1..Len(q)
      <4>1. k \in 1..(Len(q) + 1)
        BY <2>o, <3>1
      <4> QED BY <2>p, <2>o, <2>l, <2>r, <3>1, <4>1
    <3>2. CASE k = Len(q) + 1
      BY <2>p, <2>o, <2>l, <2>r, <3>2
    <3> QED BY <2>o, <2>l, <3>1, <3>2
  <2>1. l = r
    BY <2>l, <2>r, <2>e, SameElements
  <2> QED BY <2>1 DEF l, r, o, p
<1>3. ASSUME q # <<>>
      PROVE  /\ Offered(q) # <<>> /\ Head(Offered(q)) = Head(q).v
             /\ Offered(Tail(q)) = Tail(Offered(q))
  <2> DEFINE p == Tail(q)
             o == Offered(q)
             l == Offered(p)
             r == Tail(o)
  <2>p. /\ p \in Seq(SenderTask) /\ Len(p) = Len(q) - 1 /\ Len(q) >= 1
        /\ \A k \in 1..Len(p) : k + 1 \in 1..Len(q) /\ p[k] = q[k + 1]
        /\ Head(q) = q[1] /\ 1 \in 1..Len(q)
    BY <1>3
  <2> HIDE DEF p
  <2>o. o \in Seq(Value) /\ Len(o) = Len(q) /\ Len(q) \in Nat
        /\ \A k \in 1..Len(q) : o[k] = q[k].v
    BY <1>1
  <2>l. l \in Seq(Value) /\ Len(l) = Len(p) /\ \A k \in 1..Len(p) : l[k] = p[k].v
    BY <1>1, <2>p
  <2> HIDE DEF o, l
  <2>h. o # <<>> /\ Head(o) = o[1]
    BY <2>p, <2>o
  <2>r. r \in Seq(Value) /\ Len(r) = Len(p) /\ \A k \in 1..Len(p) : r[k] = o[k + 1]
    BY <2>o, <2>h, <2>p
  <2> HIDE DEF r
  <2>e. \A k \in 1..Len(l) : l[k] = r[k]
    BY <2>p, <2>o, <2>l, <2>r, ZenonT(40)
  <2>1. l = r
    BY <2>l, <2>r, <2>e, SameElements
  <2>2. o # <<>> /\ Head(o) = Head(q).v
    BY <2>h, <2>o, <2>p
  <2> QED BY <2>1, <2>2 DEF l, r, o, p
<1>4. ASSUME q = <<>> PROVE Offered(q) = <<>>
  <2> DEFINE o == Offered(q)
  <2>1. o \in Seq(Value) /\ Len(o) = 0
    BY <1>1, <1>4
  <2> HIDE DEF o
  <2>2. o = <<>>
    BY <2>1
  <2> QED BY <2>2 DEF o
<1> QED BY <1>1, <1>2, <1>3, <1>4

LEMMA LineSteps ==
  ASSUME NEW c \in Chans, NEW ch \in ChannelState, Disciplined(c, ch)
  PROVE  /\ LineOf(ch) \in Seq(Value)
         /\ HasReceiver(ch) => LineOf(ch) = <<>> /\ LineOf(ShiftReceiver(ch)) = <<>>
         /\ HasRoom(c, ch) => \A v \in Value :
              LineOf([ch EXCEPT !.buffer = Append(ch.buffer, v)]) = Append(LineOf(ch), v)
         /\ \A s \in SenderTask :
              LineOf([ch EXCEPT !.senders = Append(ch.senders, s)]) = Append(LineOf(ch), s.v)
         /\ ch.buffer # <<>> => /\ LineOf(ch) # <<>> /\ Head(LineOf(ch)) = Head(ch.buffer)
                                /\ LineOf(ShiftBuffer(ch)) = Tail(LineOf(ch))
         /\ ch.buffer = <<>> /\ ch.senders # <<>> =>
              /\ LineOf(ch) # <<>> /\ Head(LineOf(ch)) = Head(ch.senders).v
              /\ LineOf(ShiftSender(ch)) = Tail(LineOf(ch))
         /\ \A q : /\ LineOf([ch EXCEPT !.receivers = q]) = LineOf(ch)
                   /\ LineOf([ch EXCEPT !.receiversWithOk = q]) = LineOf(ch)
         /\ LineOf(CloseChannel(ch)) = ch.buffer
         /\ SubSeq(LineOf(ch), 1, IF Len(LineOf(ch)) < Capacity[c]
                                  THEN Len(LineOf(ch)) ELSE Capacity[c]) = ch.buffer
<1> DEFINE b == ch.buffer
           q == ch.senders
           w == Offered(q)
<1>f. LineOf(ch) = b \o w
  BY DEF LineOf, Offered
<1>0. b \in Seq(Value) /\ q \in Seq(SenderTask)
  BY ChannelFields
<1>d. ch = [buffer |-> b, closed |-> ch.closed, senders |-> q,
            receivers |-> ch.receivers, receiversWithOk |-> ch.receiversWithOk]
  BY DEF ChannelState
<1>c. /\ HasReceiver(ch) => b = <<>> /\ q = <<>>
      /\ q # <<>> => Len(b) = Capacity[c]
      /\ Len(b) <= Capacity[c] /\ Capacity[c] \in Nat /\ Len(b) \in Nat
      /\ HasRoom(c, ch) => Len(b) < Capacity[c]
  BY <1>0, CapacityAssumption DEF Disciplined, HasRoom
<1> HIDE DEF b, q
<1>o. /\ w \in Seq(Value) /\ Len(w) = Len(q) /\ Len(q) \in Nat
      /\ q = <<>> => w = <<>>
      /\ \A s \in SenderTask : Offered(Append(q, s)) = Append(w, s.v)
      /\ q # <<>> => /\ w # <<>> /\ Head(w) = Head(q).v
                     /\ Offered(Tail(q)) = Tail(w)
  BY <1>0, OfferedSteps
<1> HIDE DEF w
<1>j. /\ b \o w \in Seq(Value) /\ Len(b \o w) = Len(b) + Len(w)
      /\ b \o <<>> = b /\ <<>> \o w = w
      /\ \A x \in Value : b \o Append(w, x) = Append(b \o w, x)
      /\ b # <<>> => /\ b \o w # <<>> /\ Head(b \o w) = Head(b)
                     /\ Tail(b) \o w = Tail(b \o w)
                     /\ w # <<>> => Append(Tail(b), Head(w)) \o Tail(w) = Tail(b \o w)
      /\ SubSeq(b \o w, 1, Len(b)) = b
  <2>1. b \in Seq(Value) /\ w \in Seq(Value)
    BY <1>0, <1>o
  <2>2. /\ b \o w \in Seq(Value) /\ Len(b \o w) = Len(b) + Len(w)
        /\ b \o <<>> = b /\ <<>> \o w = w
        /\ SubSeq(b \o w, 1, Len(b)) = b
    BY <2>1, Joined
  <2>3. \A x \in Value : b \o Append(w, x) = Append(b \o w, x)
    BY <2>1, Joined
  <2>4. b # <<>> => /\ b \o w # <<>> /\ Head(b \o w) = Head(b)
                    /\ Tail(b) \o w = Tail(b \o w)
    BY <2>1, Joined
  <2>5. b # <<>> /\ w # <<>> => Append(Tail(b), Head(w)) \o Tail(w) = Tail(b \o w)
    BY <2>1, Joined
  <2> QED BY <2>2, <2>3, <2>4, <2>5
<1>1. LineOf(ch) \in Seq(Value)
  BY <1>f, <1>j
<1>r. \A x : /\ LineOf([ch EXCEPT !.receivers = x]) = LineOf(ch)
             /\ LineOf([ch EXCEPT !.receiversWithOk = x]) = LineOf(ch)
  BY <1>d DEF LineOf
<1>2. HasReceiver(ch) => LineOf(ch) = <<>> /\ LineOf(ShiftReceiver(ch)) = <<>>
  <2>1. HasReceiver(ch) => LineOf(ch) = <<>>
    BY <1>c, <1>f, <1>j, <1>o, Zenon
  <2> QED BY <1>r, <2>1 DEF ShiftReceiver
<1>3. ASSUME HasRoom(c, ch), NEW v \in Value
      PROVE  LineOf([ch EXCEPT !.buffer = Append(b, v)]) = Append(LineOf(ch), v)
  <2>1. q = <<>> /\ w = <<>>
    BY <1>c, <1>o, <1>3
  <2>2. LineOf(ch) = b
    BY <1>f, <1>j, <2>1
  <2>3. LineOf([ch EXCEPT !.buffer = Append(b, v)]) = Append(b, v) \o w
    BY <1>d DEF LineOf, Offered, w, q
  <2>4. Append(b, v) \in Seq(Value)
    BY <1>0
  <2>5. Append(b, v) \o <<>> = Append(b, v)
    BY <2>4
  <2> QED BY <2>1, <2>2, <2>3, <2>5
<1>4. ASSUME NEW s \in SenderTask
      PROVE  LineOf([ch EXCEPT !.senders = Append(q, s)]) = Append(LineOf(ch), s.v)
  <2>1. \A p : LineOf([ch EXCEPT !.senders = p]) = b \o Offered(p)
    BY <1>d DEF LineOf, Offered
  <2>2. s.v \in Value
    BY DEF SenderTask
  <2> QED BY <1>f, <1>o, <1>j, <2>1, <2>2
<1>5. ASSUME b # <<>>
      PROVE  /\ LineOf(ch) # <<>> /\ Head(LineOf(ch)) = Head(b)
             /\ LineOf(ShiftBuffer(ch)) = Tail(LineOf(ch))
  <2>1. LineOf(ch) # <<>> /\ Head(LineOf(ch)) = Head(b)
    BY <1>f, <1>j, <1>5
  <2>2. CASE q = <<>>
    <3>1. LineOf(ShiftBuffer(ch)) = Tail(b) \o w
      BY <1>d, <2>2 DEF LineOf, Offered, ShiftBuffer, b, q, w
    <3> QED BY <1>f, <1>j, <1>5, <2>1, <3>1
  <2>3. CASE q # <<>>
    <3>1. LineOf(ShiftBuffer(ch)) = Append(Tail(b), Head(q).v) \o Offered(Tail(q))
      BY <1>d, <2>3 DEF LineOf, Offered, ShiftBuffer, b, q
    <3> QED BY <1>f, <1>j, <1>o, <1>5, <2>1, <2>3, <3>1
  <2> QED BY <2>2, <2>3
<1>6. ASSUME b = <<>>, q # <<>>
      PROVE  /\ LineOf(ch) # <<>> /\ Head(LineOf(ch)) = Head(q).v
             /\ LineOf(ShiftSender(ch)) = Tail(LineOf(ch))
  <2>1. /\ w # <<>> /\ Head(w) = Head(q).v
        /\ Offered(Tail(q)) = Tail(w)
    BY <1>o, <1>6
  <2>2. LineOf(ch) = w
    BY <1>f, <1>j, <1>6
  <2>3. LineOf(ShiftSender(ch)) = <<>> \o Offered(Tail(q))
    BY <1>d, <1>6 DEF LineOf, Offered, ShiftSender, q
  <2>4. Tail(w) \in Seq(Value)
    BY <1>o, <2>1
  <2>5. <<>> \o Tail(w) = Tail(w)
    BY <2>4
  <2> QED BY <2>1, <2>2, <2>3, <2>5
<1>7. LineOf(CloseChannel(ch)) = b
  <2>1. LineOf(CloseChannel(ch)) = b \o Offered(<<>>)
    BY <1>d DEF LineOf, Offered, CloseChannel
  <2>2. <<>> \in Seq(SenderTask)
    OBVIOUS
  <2>3. Offered(<<>>) = <<>>
    BY <2>2, OfferedSteps
  <2> QED BY <1>j, <2>1, <2>3
<1>8. SubSeq(LineOf(ch), 1, IF Len(LineOf(ch)) < Capacity[c]
                            THEN Len(LineOf(ch)) ELSE Capacity[c]) = b
  <2>1. Len(LineOf(ch)) = Len(b) + Len(q) /\ SubSeq(LineOf(ch), 1, Len(b)) = b
    BY <1>f, <1>j, <1>o
  <2>2. q = <<>> <=> Len(q) = 0
    BY <1>0
  <2>3. (IF Len(LineOf(ch)) < Capacity[c] THEN Len(LineOf(ch)) ELSE Capacity[c]) = Len(b)
    <3>1. CASE q = <<>>
      <4>1. Len(LineOf(ch)) = Len(b)
        BY <1>c, <2>1, <2>2, <3>1
      <4> QED BY <1>c, <4>1
    <3>2. CASE q # <<>>
      <4>1. Len(LineOf(ch)) > Capacity[c] /\ Len(b) = Capacity[c]
        BY <1>c, <1>o, <2>1, <2>2, <3>2
      <4> QED BY <1>c, <4>1
    <3> QED BY <3>1, <3>2
  <2> QED BY <2>1, <2>3
<1> QED BY <1>1, <1>2, <1>3, <1>4, <1>5, <1>6, <1>7, <1>8, <1>r DEF b, q

\* What a GoChannel sees of the channels.
Lines == [c \in Chans |-> Line(c)]
Closed == [c \in Chans |-> chan[c].closed]

\* One call changes the line of one channel.
LEMMA LineUpdate ==
  ASSUME TypeOK, NEW c \in Chans, NEW x \in ChannelState,
         chan' = [chan EXCEPT ![c] = x]
  PROVE  /\ Lines' = [Lines EXCEPT ![c] = LineOf(x)]
         /\ Closed'
              = [Closed EXCEPT ![c] = x.closed]
         /\ Lines[c] = LineOf(chan[c])
         /\ Closed[c] = chan[c].closed
         /\ x.closed = chan[c].closed => UNCHANGED Closed
         /\ LineOf(x) = LineOf(chan[c]) => UNCHANGED Lines
<1>1. \A d \in Chans : chan'[d] = IF d = c THEN x ELSE chan[d]
  BY DEF TypeOK
<1>2. \A d \in Chans : Line(d) = LineOf(chan[d]) /\ Line(d)' = LineOf(chan'[d])
  BY DEF Line, LineOf
<1>3. [d \in Chans |-> Line(d)]' = [d \in Chans |-> Line(d)']
  OBVIOUS
<1>4. \A d \in Chans : Line(d)' = IF d = c THEN LineOf(x) ELSE Line(d)
  BY <1>1, <1>2
<1>5. [d \in Chans |-> Line(d)]' = [[d \in Chans |-> Line(d)] EXCEPT ![c] = LineOf(x)]
  BY <1>3, <1>4
<1>6. [d \in Chans |-> chan[d].closed]'
        = [[d \in Chans |-> chan[d].closed] EXCEPT ![c] = x.closed]
  <2>1. [d \in Chans |-> chan[d].closed]' = [d \in Chans |-> chan'[d].closed]
    OBVIOUS
  <2>2. \A d \in Chans : chan'[d].closed = IF d = c THEN x.closed ELSE chan[d].closed
    BY <1>1
  <2> QED BY <2>1, <2>2
<1>7. ASSUME x.closed = chan[c].closed PROVE UNCHANGED [d \in Chans |-> chan[d].closed]
  BY <1>6, <1>7
<1>8. ASSUME LineOf(x) = LineOf(chan[c]) PROVE UNCHANGED [d \in Chans |-> Line(d)]
  <2>1. [d \in Chans |-> Line(d)]
          = [[d \in Chans |-> Line(d)] EXCEPT ![c] = LineOf(x)]
    BY <1>2, <1>8
  <2> QED BY <1>5, <2>1
<1> QED BY <1>2, <1>5, <1>6, <1>7, <1>8 DEF Lines, Closed

\* Fields that a call leaves alone.
LEMMA ClosedStays ==
  ASSUME NEW ch \in ChannelState
  PROVE  /\ ShiftReceiver(ch).closed = ch.closed
         /\ ShiftBuffer(ch).closed = ch.closed
         /\ ShiftSender(ch).closed = ch.closed
         /\ CloseChannel(ch).closed = TRUE
         /\ \A q : /\ [ch EXCEPT !.buffer = q].closed = ch.closed
                   /\ [ch EXCEPT !.senders = q].closed = ch.closed
                   /\ [ch EXCEPT !.receivers = q].closed = ch.closed
                   /\ [ch EXCEPT !.receiversWithOk = q].closed = ch.closed
<1>1. ch = [buffer |-> ch.buffer, closed |-> ch.closed, senders |-> ch.senders,
            receivers |-> ch.receivers, receiversWithOk |-> ch.receiversWithOk]
  BY DEF ChannelState
<1>2. /\ ShiftReceiver(ch).closed = ch.closed
      /\ ShiftSender(ch).closed = ch.closed
      /\ CloseChannel(ch).closed = TRUE
  BY <1>1 DEF ShiftReceiver, ShiftSender, CloseChannel
<1>3. ShiftBuffer(ch).closed = ch.closed
  BY <1>1 DEF ShiftBuffer
<1>4. \A q : /\ [ch EXCEPT !.buffer = q].closed = ch.closed
             /\ [ch EXCEPT !.senders = q].closed = ch.closed
             /\ [ch EXCEPT !.receivers = q].closed = ch.closed
             /\ [ch EXCEPT !.receiversWithOk = q].closed = ch.closed
  BY <1>1
<1> QED BY <1>2, <1>3, <1>4

\* Every step of the runtime is a step of the Go channel or changes nothing
\* there.
LEMMA GoStep == TypeOK /\ QueueDiscipline /\ [Next]_vars => [Go!Next]_(Go!vars)
<1> SUFFICES ASSUME TypeOK, QueueDiscipline, [Next]_vars
             PROVE  Go!Next \/ UNCHANGED Go!vars
  OBVIOUS
<1>t. \A c \in Chans : /\ chan[c] \in ChannelState /\ Disciplined(c, chan[c])
                       /\ chan[c].senders \in Seq(SenderTask) /\ chan[c].buffer \in Seq(Value)
                       /\ chan[c].receivers \in Seq(Task)
                       /\ chan[c].receiversWithOk \in Seq(Task)
  BY ChannelFields DEF TypeOK, QueueDiscipline
<1>n. sent \in Seq(SendRecord) /\ NextValue \in Value /\ Len(sent) \in Nat
  BY DEF TypeOK, NextValue, Value, Zero
<1>l. ASSUME NEW c \in Chans, NEW st \in {"pending", "returned", "panicked", "withdrawn"},
             RecordSend(c, st)
      PROVE  NextValue' = NextValue + 1
  <2>1. [c |-> c, st |-> st] \in SendRecord
    BY DEF SendRecord
  <2>2. Len(sent') = Len(sent) + 1
    BY <1>n, <1>l, <2>1 DEF RecordSend
  <2> QED BY <1>n, <2>2 DEF NextValue
<1>u. ASSUME chan' = chan, taken' = taken, Len(sent') = Len(sent)
      PROVE  UNCHANGED Go!vars
  <2>1. \A c \in Chans : Line(c)' = Line(c)
    BY <1>u DEF Line
  <2> QED BY <1>u, <2>1 DEF Go!vars, NextValue
<1>1. ASSUME NEW g \in G, NEW c \in Chans, SendPanics(g, c)
      PROVE  Go!Next
  <2>1. chan[c].closed /\ NextValue' = NextValue + 1 /\ chan' = chan /\ taken' = taken
    BY <1>1, <1>l DEF SendPanics
  <2>2. \A d \in Chans : Line(d)' = Line(d)
    BY <2>1 DEF Line
  <2>3. Go!Refuse(c)
    BY <2>1, <2>2 DEF Go!Refuse
  <2> QED BY <2>3 DEF Go!Next
<1>2. ASSUME NEW g \in G, NEW c \in Chans, SendHandsOff(g, c)
      PROVE  Go!Next
  <2>1. /\ ~chan[c].closed /\ HasReceiver(chan[c]) /\ NextValue' = NextValue + 1
        /\ chan' = [chan EXCEPT ![c] = ShiftReceiver(chan[c])]
        /\ taken' = [taken EXCEPT ![c] = Append(@, NextValue)]
    BY <1>2, <1>l DEF SendHandsOff, Take
  <2>2. /\ LineOf(chan[c]) = <<>> /\ LineOf(ShiftReceiver(chan[c])) = <<>>
        /\ ShiftReceiver(chan[c]) \in ChannelState
        /\ ShiftReceiver(chan[c]).closed = chan[c].closed
    BY <1>t, <2>1, LineSteps, ChannelSteps, ClosedStays
  <2>3. Go!Pass(c)
    BY <2>1, <2>2, LineUpdate, ZenonT(40) DEF Go!Pass, Lines, Closed
  <2> QED BY <2>3 DEF Go!Next
<1>3. ASSUME NEW g \in G, NEW c \in Chans, SendBuffers(g, c)
      PROVE  Go!Next
  <2> DEFINE x == [chan[c] EXCEPT !.buffer = Append(chan[c].buffer, NextValue)]
  <2>1. /\ ~chan[c].closed /\ HasRoom(c, chan[c]) /\ NextValue' = NextValue + 1
        /\ chan' = [chan EXCEPT ![c] = x] /\ taken' = taken
    BY <1>3, <1>l DEF SendBuffers
  <2>2. x \in ChannelState /\ x.closed = chan[c].closed
    <3>1. Append(chan[c].buffer, NextValue) \in Seq(Value)
      BY <1>t, <1>n
    <3> QED BY <1>t, <3>1, ChannelFields, ClosedStays
  <2>3. LineOf(x) = Append(LineOf(chan[c]), NextValue)
    BY <1>t, <1>n, <2>1, LineSteps
  <2> HIDE DEF x
  <2>4. Go!Offer(c)
    <3>0. /\ Lines' = [Lines EXCEPT ![c] = LineOf(x)]
          /\ Lines[c] = LineOf(chan[c])
          /\ UNCHANGED Closed
          /\ Closed[c] = chan[c].closed
      BY <2>1, <2>2, LineUpdate
    <3>1. /\ Lines' = [Lines EXCEPT ![c] = Append(LineOf(chan[c]), NextValue)]
          /\ UNCHANGED Closed
      BY <2>1, <2>2, <2>3, <3>0
    <3> QED BY <2>1, <3>0, <3>1 DEF Go!Offer, Lines, Closed
  <2> QED BY <2>4 DEF Go!Next
<1>4. ASSUME NEW g \in G, NEW c \in Chans, SendBlocks(g, c)
      PROVE  Go!Next
  <2> DEFINE s == [t |-> TaskOf(g, c, 0), v |-> NextValue]
             x == [chan[c] EXCEPT !.senders = Append(chan[c].senders, s)]
  <2>1. /\ ~chan[c].closed /\ NextValue' = NextValue + 1
        /\ chan' = [chan EXCEPT ![c] = x] /\ taken' = taken /\ CanStart(g)
    BY <1>4, <1>l DEF SendBlocks
  <2>s. s \in SenderTask /\ s.v = NextValue
    BY <1>n, <2>1, StartType DEF SenderTask
  <2> HIDE DEF s
  <2>2. x \in ChannelState /\ x.closed = chan[c].closed
    <3>1. Append(chan[c].senders, s) \in Seq(SenderTask)
      BY <1>t, <2>s
    <3> QED BY <1>t, <3>1, ChannelFields, ClosedStays
  <2>3. LineOf(x) = Append(LineOf(chan[c]), NextValue)
    BY <1>t, <2>s, <2>1, LineSteps
  <2> HIDE DEF x
  <2>4. Go!Offer(c)
    <3>0. /\ Lines' = [Lines EXCEPT ![c] = LineOf(x)]
          /\ Lines[c] = LineOf(chan[c])
          /\ UNCHANGED Closed
          /\ Closed[c] = chan[c].closed
      BY <2>1, <2>2, LineUpdate
    <3>1. /\ Lines' = [Lines EXCEPT ![c] = Append(LineOf(chan[c]), NextValue)]
          /\ UNCHANGED Closed
      BY <2>1, <2>2, <2>3, <3>0
    <3> QED BY <2>1, <3>0, <3>1 DEF Go!Offer, Lines, Closed
  <2> QED BY <2>4 DEF Go!Next
<1>5. ASSUME NEW g \in G, NEW c \in Chans, ReceiveBuffered(g, c)
      PROVE  Go!Next
  <2>1. /\ chan[c].buffer # <<>> /\ NextValue' = NextValue
        /\ chan' = [chan EXCEPT ![c] = ShiftBuffer(chan[c])]
        /\ taken' = [taken EXCEPT ![c] = Append(@, Head(chan[c].buffer))]
    BY <1>5 DEF ReceiveBuffered, Take, NextValue
  <2>2. /\ LineOf(chan[c]) # <<>> /\ Head(LineOf(chan[c])) = Head(chan[c].buffer)
        /\ LineOf(ShiftBuffer(chan[c])) = Tail(LineOf(chan[c]))
        /\ ShiftBuffer(chan[c]) \in ChannelState
        /\ ShiftBuffer(chan[c]).closed = chan[c].closed
    BY <1>t, <2>1, LineSteps, ChannelSteps, ClosedStays
  <2>3. Go!Take(c)
    <3>0. /\ Lines' = [Lines EXCEPT ![c] = LineOf(ShiftBuffer(chan[c]))]
          /\ Lines[c] = LineOf(chan[c])
          /\ UNCHANGED Closed
          /\ Closed[c] = chan[c].closed
      BY <2>1, <2>2, LineUpdate
    <3>1. /\ Lines' = [Lines EXCEPT ![c] = Tail(LineOf(chan[c]))]
          /\ UNCHANGED Closed
      BY <2>1, <2>2, <3>0
    <3> QED BY <2>1, <2>2, <3>0, <3>1 DEF Go!Take, Lines, Closed
  <2> QED BY <2>3 DEF Go!Next
<1>6. ASSUME NEW g \in G, NEW c \in Chans, NEW w \in BOOLEAN, ReceiveFromSender(g, c, w)
      PROVE  Go!Next
  <2>1. /\ chan[c].buffer = <<>> /\ chan[c].senders # <<>> /\ NextValue' = NextValue
        /\ chan' = [chan EXCEPT ![c] = ShiftSender(chan[c])]
        /\ taken' = [taken EXCEPT ![c] = Append(@, Head(chan[c].senders).v)]
    BY <1>6 DEF ReceiveFromSender, Take, NextValue
  <2>2. /\ LineOf(chan[c]) # <<>> /\ Head(LineOf(chan[c])) = Head(chan[c].senders).v
        /\ LineOf(ShiftSender(chan[c])) = Tail(LineOf(chan[c]))
        /\ ShiftSender(chan[c]) \in ChannelState
        /\ ShiftSender(chan[c]).closed = chan[c].closed
    BY <1>t, <2>1, LineSteps, ChannelSteps, ClosedStays
  <2>3. Go!Take(c)
    <3>0. /\ Lines' = [Lines EXCEPT ![c] = LineOf(ShiftSender(chan[c]))]
          /\ Lines[c] = LineOf(chan[c])
          /\ UNCHANGED Closed
          /\ Closed[c] = chan[c].closed
      BY <2>1, <2>2, LineUpdate
    <3>1. /\ Lines' = [Lines EXCEPT ![c] = Tail(LineOf(chan[c]))]
          /\ UNCHANGED Closed
      BY <2>1, <2>2, <3>0
    <3> QED BY <2>1, <2>2, <3>0, <3>1 DEF Go!Take, Lines, Closed
  <2> QED BY <2>3 DEF Go!Next
<1>7. ASSUME NEW g \in G, NEW c \in Chans, NEW w \in BOOLEAN, ReceiveBlocks(g, c, w)
      PROVE  UNCHANGED Go!vars
  <2>1. PICK x \in ChannelState : /\ chan' = [chan EXCEPT ![c] = x]
                                  /\ x.closed = chan[c].closed
                                  /\ LineOf(x) = LineOf(chan[c])
    <3> DEFINE t == TaskOf(g, c, 0)
    <3>1. t \in Task
      BY <1>7, StartType DEF ReceiveBlocks
    <3> HIDE DEF t
    <3>2. /\ Append(chan[c].receivers, t) \in Seq(Task)
          /\ Append(chan[c].receiversWithOk, t) \in Seq(Task)
      BY <1>t, <3>1
    <3> DEFINE y == [chan[c] EXCEPT !.receivers = Append(chan[c].receivers, t)]
               z == [chan[c] EXCEPT !.receiversWithOk = Append(chan[c].receiversWithOk, t)]
    <3>3. /\ y \in ChannelState /\ y.closed = chan[c].closed /\ LineOf(y) = LineOf(chan[c])
          /\ z \in ChannelState /\ z.closed = chan[c].closed /\ LineOf(z) = LineOf(chan[c])
      BY <1>t, <3>2, ChannelFields, ClosedStays, LineSteps
    <3>4. chan' = [chan EXCEPT ![c] = y] \/ chan' = [chan EXCEPT ![c] = z]
      BY <1>7 DEF ReceiveBlocks, t
    <3> HIDE DEF y, z
    <3> QED BY <3>3, <3>4
  <2>2. taken' = taken /\ NextValue' = NextValue
    BY <1>7 DEF ReceiveBlocks, NextValue
  <2>3. UNCHANGED <<Lines, Closed>>
    BY <2>1, LineUpdate
  <2> QED BY <2>2, <2>3 DEF Go!vars, Lines, Closed
<1>8. ASSUME NEW g \in G, NEW c \in Chans, Close(g, c)
      PROVE  Go!Next
  <2>1. /\ ~chan[c].closed /\ NextValue' = NextValue /\ taken' = taken
        /\ chan' = [chan EXCEPT ![c] = CloseChannel(chan[c])]
    BY <1>8 DEF Close, NextValue
  <2>2. /\ LineOf(CloseChannel(chan[c])) = chan[c].buffer
        /\ CloseChannel(chan[c]) \in ChannelState /\ CloseChannel(chan[c]).closed = TRUE
        /\ SubSeq(LineOf(chan[c]), 1, IF Len(LineOf(chan[c])) < Capacity[c]
                       THEN Len(LineOf(chan[c])) ELSE Capacity[c]) = chan[c].buffer
    BY <1>t, <2>1, LineSteps, ChannelSteps, ClosedStays
  <2>3. Go!Buffered(c) = chan[c].buffer
    BY <2>2 DEF Go!Buffered, Line, LineOf
  <2>4. Go!Close(c)
    <3>0. /\ Lines' = [Lines EXCEPT ![c] = LineOf(CloseChannel(chan[c]))]
          /\ Lines[c] = LineOf(chan[c])
          /\ Closed' = [Closed EXCEPT ![c] = CloseChannel(chan[c]).closed]
          /\ Closed[c] = chan[c].closed
      BY <2>1, <2>2, LineUpdate
    <3>1. /\ Lines' = [Lines EXCEPT ![c] = chan[c].buffer]
          /\ Closed' = [Closed EXCEPT ![c] = TRUE]
      BY <2>1, <2>2, <3>0
    <3> QED BY <2>1, <2>3, <3>0, <3>1 DEF Go!Close, Lines, Closed
  <2> QED BY <2>4 DEF Go!Next
<1>9. ASSUME NEW g \in G, NEW c \in Chans,
             ClosePanics(g, c) \/ (\E w \in BOOLEAN : ReceiveClosed(g, c, w))
      PROVE  UNCHANGED Go!vars
  BY <1>9, <1>u DEF ClosePanics, ReceiveClosed
<1>c. ASSUME NEW g \in G, NEW o \in Outcome, Continue(g, o)
      PROVE  Len(sent') = Len(sent)
  <2>1. \A v, x : Len([sent EXCEPT ![v].st = x]) = Len(sent)
    BY <1>n
  <2> QED BY <1>c, <2>1 DEF Continue
<1>10. ASSUME NEW g \in G, NilOperation(g) \/ Resume(g)
       PROVE  UNCHANGED Go!vars
  <2>1. CASE NilOperation(g)
    BY <1>u, <2>1 DEF NilOperation
  <2>2. CASE Resume(g)
    <3>1. PICK o \in done[g] : Continue(g, o)
      BY <2>2 DEF Resume
    <3>2. o \in Outcome
      BY DEF TypeOK
    <3> QED BY <1>c, <1>u, <2>2, <3>1, <3>2 DEF Resume
  <2> QED BY <1>10, <2>1, <2>2
<1>11. CASE RunHandoff \/ RunSent \/ UNCHANGED vars
  BY <1>11, <1>u DEF RunHandoff, RunSent, vars
<1>12. CASE RunTimer
  <2> DEFINE j == Head(timers)
  <2>1. j \in Job /\ Continue(j.to.g, TimerOutcome(j)) /\ chan' = chan /\ taken' = taken
    BY <1>12 DEF RunTimer, TimerTurn, TypeOK
  <2>2. TimerOutcome(j) \in Outcome /\ j.to.g \in G
    BY <2>1 DEF TimerOutcome, Outcome, Job, Task
  <2> HIDE DEF j
  <2> QED BY <1>c, <1>u, <2>1, <2>2
<1> QED BY <1>1, <1>2, <1>3, <1>4, <1>5, <1>6, <1>7, <1>8, <1>9, <1>10, <1>11, <1>12,
           SendChansAssumption
        DEF Next, Operation, Send, Receive, RunMicrotask

\* BufferedChannel, with its waiting lists, microtasks and timers, implements
\* the Go channel: a line of values first in, first out, that a send joins or
\* passes when nobody waits, a receive takes from, and close() cuts down to
\* its buffered values.
THEOREM ChannelImplementsGo == Spec => ImplementsGoChannel
<1>1. Init => Go!Init
  <2> SUFFICES ASSUME Init PROVE Go!Init
    OBVIOUS
  <2>1. \A c \in Chans : chan[c] = NewChannel
    BY DEF Init
  <2>2. \A c \in Chans : Line(c) = <<>> /\ chan[c].closed = FALSE
    BY <2>1 DEF Line, NewChannel
  <2>3. NextValue = 1
    BY DEF Init, NextValue
  <2> QED BY <2>2, <2>3 DEF Init, Go!Init
<1> QED BY <1>1, GoStep, ChannelTypeCorrect, ChannelQueueDiscipline, PTL
        DEF Spec, ImplementsGoChannel, Go!Spec

-----------------------------------------------------------------------------
(* Where each promise and each value is.  A token stands for one place     *)
(* that can settle the promise of task t, and carries the value concerned: *)
(* a waiting list ("offer", "want", "wantOk"), a queued microtask (the     *)
(* receiver of a "handoff", its sender "hand", an "ack"), a timer of       *)
(* close() ("zero", "closed"), or a settled promise that its goroutine has *)
(* not looked at ("sent", "received").                                     *)

Place == {"offer", "want", "wantOk", "handoff", "hand", "ack", "zero", "closed",
          "sent", "received"}

Token == [p : Place, t : Task, v : Nat]

TokenAt(p, t, v) == [p |-> p, t |-> t, v |-> v]

QueueTokens(ch) ==
  {TokenAt("offer", s.t, s.v) : s \in ToSet(ch.senders)}
    \cup {TokenAt("want", t, Zero) : t \in ToSet(ch.receivers)}
    \cup {TokenAt("wantOk", t, Zero) : t \in ToSet(ch.receiversWithOk)}

JobTokens(j) ==
  IF j.kind = "handoff" THEN {TokenAt("handoff", j.to, j.v), TokenAt("hand", j.from, j.v)}
  ELSE {TokenAt(IF j.kind = "sent" THEN "ack" ELSE j.kind, j.to, j.v)}

OutcomeToken(o) == TokenAt(o.kind, o.t, o.v)

QueuedTokens  == UNION {QueueTokens(chan[c]) : c \in Chans}
MicroTokens   == UNION {JobTokens(j) : j \in ToSet(micro)}
TimerTokens   == UNION {JobTokens(j) : j \in ToSet(timers)}
SettledTokens == UNION {{OutcomeToken(o) : o \in done[g]} : g \in G}

Tokens == QueuedTokens \cup MicroTokens \cup TimerTokens \cup SettledTokens

\* Keys of the members of the queues.
SenderKey == [s \in SenderTask |-> s.t.g]
TaskKey   == [t \in Task |-> t.g]
ToKey     == [j \in Job |-> j.to.g]
FromKey   == [j \in Job |-> j.from.g]

\* What the queues hold.
QueueShape(c, ch) ==
  /\ \A s \in ToSet(ch.senders) : s.t.c = c
  /\ \A t \in ToSet(ch.receivers) \cup ToSet(ch.receiversWithOk) : t.c = c
  /\ Keyed(ch.senders, SenderKey)
  /\ Keyed(ch.receivers, TaskKey)
  /\ Keyed(ch.receiversWithOk, TaskKey)

MicroShape ==
  /\ \A j \in ToSet(micro) : /\ j.kind \in {"handoff", "sent"} /\ j.v # Zero
                             /\ j.to.c = j.from.c
                             /\ j.kind = "sent" => j.to = j.from
  /\ Keyed(micro, ToKey)
  /\ Keyed(micro, FromKey)

TimerShape ==
  /\ \A j \in ToSet(timers) : /\ j.kind \in {"zero", "closed"} /\ j.to = j.from
                              /\ j.kind = "zero" <=> j.v = Zero
  /\ Keyed(timers, ToKey)

DoneShape ==
  \A g \in G : \A o \in done[g] : o.t.g = g /\ o.kind \in {"sent", "received"} /\ o.v # Zero

Shape ==
  /\ \A c \in Chans : QueueShape(c, chan[c])
  /\ MicroShape
  /\ TimerShape
  /\ DoneShape

\* A token belongs to the operation its goroutine is waiting for; a waiting
\* goroutine has exactly one.
Awaited ==
  /\ \A x \in Tokens : /\ x.t.i = 0 /\ pc[x.t.g] = "waiting" /\ op[x.t.g] = x.t.n
  /\ \A x, y \in Tokens : x.t.g = y.t.g => x = y
  /\ \A g \in G : pc[g] = "waiting" => \E x \in Tokens : x.t.g = g

Sending == {"offer", "hand", "ack", "closed", "sent"}
Flying  == {"handoff", "received"}

\* The values of a channel: those in line (buffered, or offered by a blocked
\* sender), those taken out of it, and those that a send may leave behind.
LineSet(c)  == ToSet(LineOf(chan[c]))
TakenSet(c) == ToSet(taken[c])
Placed(c)   == LineSet(c) \cup TakenSet(c)
Kept(c)     == ToSet(chan[c].buffer) \cup TakenSet(c)

\* A closed channel that has no value left gets none.
Exhausted(c) == chan[c].closed /\ LineOf(chan[c]) = <<>>

InGot(v) == \E g \in G : \E k \in 1..Len(got[g]) : got[g][k].v = v

Increasing(s) == \A k, l \in 1..Len(s) : k < l => s[k] < s[l]

\* The values of a channel leave it in the order of their sends.
Ordered ==
  \A c \in Chans :
    /\ Increasing(LineOf(chan[c]))
    /\ \A v \in Placed(c) : v \in 1..Len(sent) /\ sent[v].c = c
    /\ \A d \in TakenSet(c), v \in LineSet(c) : d < v

\* What is known of the value of a send that is not over.
SendFact(x) ==
  x.p \in Sending =>
    /\ x.v \in 1..Len(sent) /\ sent[x.v] = [c |-> x.t.c, st |-> "pending"]
    /\ x.p \in {"hand", "ack", "sent"} => x.v \in Kept(x.t.c)
    /\ x.p = "closed" => x.v \notin Placed(x.t.c)

\* A value on its way comes after all that its receiver got from the channel.
FlightFact(x) ==
  x.p \in Flying =>
    /\ x.v \in TakenSet(x.t.c) /\ ~InGot(x.v)
    /\ \A k \in 1..Len(got[x.t.g]) :
         got[x.t.g][k].c = x.t.c => got[x.t.g][k].v # Zero /\ got[x.t.g][k].v < x.v

\* close() promises the zero value when no other value can follow.
WakeFact(x) == x.p = "zero" => Exhausted(x.t.c)

TokensKnown == \A x \in Tokens : SendFact(x) /\ FlightFact(x) /\ WakeFact(x)

\* A value has one sender and one receiver.
Alike(x, y) == x.v = y.v /\ \/ x.p \in Sending /\ y.p \in Sending
                            \/ x.p \in Flying /\ y.p \in Flying

TokensApart == \A x, y \in Tokens : Alike(x, y) => x = y

\* What the sender was told agrees with where its value is.
SendsKnown ==
  \A v \in 1..Len(sent) :
    /\ sent[v].st = "returned" => v \in Kept(sent[v].c)
    /\ sent[v].st = "panicked" => v \notin Placed(sent[v].c)

\* A value that was taken is received or on its way.
TakenFound ==
  \A c \in Chans : \A v \in TakenSet(c) :
    InGot(v) \/ \E x \in Tokens : x.p \in Flying /\ x.v = v

\* A value that was received was taken, and the zero value means the end.
ReceiptFact(e) == IF e.v = Zero THEN Exhausted(e.c) ELSE e.v \in TakenSet(e.c)

GotKnown == \A g \in G : \A k \in 1..Len(got[g]) : ReceiptFact(got[g][k])

Values == /\ Ordered /\ TokensKnown /\ TokensApart
          /\ SendsKnown /\ TakenFound /\ GotKnown /\ ReceivedInOrder

ChannelInv == TypeOK /\ QueueDiscipline /\ Shape /\ Awaited /\ Values

\* A token is in one place of one component of the state.
LEMMA TokenPlaces ==
  ASSUME TypeOK, Shape
  PROVE  /\ \A x \in QueuedTokens : x \in Token /\ x.p \in {"offer", "want", "wantOk"}
         /\ \A c \in Chans : \A x \in QueueTokens(chan[c]) : x \in Token /\ x.t.c = c
         /\ \A x \in MicroTokens : x \in Token /\ x.p \in {"handoff", "hand", "ack"}
         /\ \A x \in TimerTokens : x \in Token /\ x.p \in {"zero", "closed"}
         /\ \A x \in SettledTokens : x \in Token /\ x.p \in {"sent", "received"}
         /\ Tokens \subseteq Token
<1>1. ASSUME NEW c \in Chans, NEW x \in QueueTokens(chan[c])
      PROVE  x \in Token /\ x.p \in {"offer", "want", "wantOk"} /\ x.t.c = c
  <2>0. /\ ToSet(chan[c].senders) \subseteq SenderTask
        /\ ToSet(chan[c].receivers) \subseteq Task
        /\ ToSet(chan[c].receiversWithOk) \subseteq Task
    <3>1. chan[c] \in ChannelState
      BY DEF TypeOK
    <3>2. /\ chan[c].senders \in Seq(SenderTask) /\ chan[c].receivers \in Seq(Task)
          /\ chan[c].receiversWithOk \in Seq(Task)
      BY <3>1, ChannelFields
    <3> QED BY <3>2, SetOfSeq
  <2>1. QueueShape(c, chan[c])
    BY DEF Shape
  <2>2. CASE \E s \in ToSet(chan[c].senders) : x = TokenAt("offer", s.t, s.v)
    BY <2>0, <2>1, <2>2 DEF QueueShape, TokenAt, Token, Place, SenderTask, Value
  <2>3. CASE \E t \in ToSet(chan[c].receivers) : x = TokenAt("want", t, Zero)
    BY <2>0, <2>1, <2>3 DEF QueueShape, TokenAt, Token, Place, Zero
  <2>4. CASE \E t \in ToSet(chan[c].receiversWithOk) : x = TokenAt("wantOk", t, Zero)
    BY <2>0, <2>1, <2>4 DEF QueueShape, TokenAt, Token, Place, Zero
  <2> QED BY <2>2, <2>3, <2>4 DEF QueueTokens
<1>2. ASSUME NEW x \in MicroTokens
      PROVE  x \in Token /\ x.p \in {"handoff", "hand", "ack"}
  <2>1. PICK j \in ToSet(micro) : x \in JobTokens(j)
    BY DEF MicroTokens
  <2>2. j \in Job /\ j.kind \in {"handoff", "sent"}
    BY SetOfSeq DEF TypeOK, Shape, MicroShape
  <2> QED BY <2>1, <2>2 DEF JobTokens, TokenAt, Token, Place, Job
<1>3. ASSUME NEW x \in TimerTokens
      PROVE  x \in Token /\ x.p \in {"zero", "closed"}
  <2>1. PICK j \in ToSet(timers) : x \in JobTokens(j)
    BY DEF TimerTokens
  <2>2. j \in Job /\ j.kind \in {"zero", "closed"}
    BY SetOfSeq DEF TypeOK, Shape, TimerShape
  <2> QED BY <2>1, <2>2 DEF JobTokens, TokenAt, Token, Place, Job
<1>4. ASSUME NEW x \in SettledTokens
      PROVE  x \in Token /\ x.p \in {"sent", "received"}
  <2>1. PICK g \in G : \E o \in done[g] : x = OutcomeToken(o)
    BY DEF SettledTokens
  <2> PICK o \in done[g] : x = OutcomeToken(o)
    BY <2>1
  <2>2. o \in Outcome /\ o.kind \in {"sent", "received"}
    BY DEF TypeOK, Shape, DoneShape
  <2> QED BY <2>1, <2>2 DEF OutcomeToken, TokenAt, Token, Place, Outcome
<1>5. \A x \in QueuedTokens : x \in Token /\ x.p \in {"offer", "want", "wantOk"}
  BY <1>1 DEF QueuedTokens
<1> QED BY <1>1, <1>2, <1>3, <1>4, <1>5 DEF Tokens

\* The waiting lists of a channel as sets of tokens.
WantPlace(ch) == IF ch.receivers # <<>> THEN "want" ELSE "wantOk"

LEMMA QueueTokenSteps ==
  ASSUME NEW c \in Chans, NEW ch \in ChannelState, QueueShape(c, ch)
  PROVE  /\ HasReceiver(ch) =>
              LET x == TokenAt(WantPlace(ch), NextReceiver(ch), Zero)
              IN  /\ x \in QueueTokens(ch)
                  /\ QueueTokens(ShiftReceiver(ch)) = QueueTokens(ch) \ {x}
         /\ ch.senders # <<>> =>
              LET x == TokenAt("offer", Head(ch.senders).t, Head(ch.senders).v)
              IN  /\ x \in QueueTokens(ch)
                  /\ QueueTokens(ShiftSender(ch)) = QueueTokens(ch) \ {x}
                  /\ QueueTokens(ShiftBuffer(ch)) = QueueTokens(ch) \ {x}
         /\ ch.senders = <<>> => QueueTokens(ShiftBuffer(ch)) = QueueTokens(ch)
         /\ \A s \in SenderTask : QueueTokens([ch EXCEPT !.senders = Append(ch.senders, s)])
                                    = QueueTokens(ch) \cup {TokenAt("offer", s.t, s.v)}
         /\ \A t \in Task :
              /\ QueueTokens([ch EXCEPT !.receivers = Append(ch.receivers, t)])
                   = QueueTokens(ch) \cup {TokenAt("want", t, Zero)}
              /\ QueueTokens([ch EXCEPT !.receiversWithOk = Append(ch.receiversWithOk, t)])
                   = QueueTokens(ch) \cup {TokenAt("wantOk", t, Zero)}
         /\ \A q : QueueTokens([ch EXCEPT !.buffer = q]) = QueueTokens(ch)
         /\ QueueTokens(CloseChannel(ch)) = {}
<1> DEFINE b == ch.buffer
           q == ch.senders
           r == ch.receivers
           k == ch.receiversWithOk
           O(s) == {TokenAt("offer", x.t, x.v) : x \in ToSet(s)}
           W(s) == {TokenAt("want", t, Zero) : t \in ToSet(s)}
           K(s) == {TokenAt("wantOk", t, Zero) : t \in ToSet(s)}
<1>0. q \in Seq(SenderTask) /\ r \in Seq(Task) /\ k \in Seq(Task)
  BY ChannelFields
<1>d. ch = [buffer |-> b, closed |-> ch.closed, senders |-> q,
            receivers |-> r, receiversWithOk |-> k]
  BY DEF ChannelState
<1>k. Keyed(q, SenderKey) /\ Keyed(r, TaskKey) /\ Keyed(k, TaskKey)
  BY DEF QueueShape
<1> HIDE DEF b, q, r, k
<1>1. \A x : QueueTokens(x) = O(x.senders) \cup W(x.receivers) \cup K(x.receiversWithOk)
  BY DEF QueueTokens
<1>2. ASSUME q # <<>>
      PROVE  /\ Head(q) \in ToSet(q)
             /\ O(Tail(q)) = O(q) \ {TokenAt("offer", Head(q).t, Head(q).v)}
  <2>1. Head(q) \in ToSet(q) /\ ToSet(Tail(q)) = ToSet(q) \ {Head(q)} /\ Head(q) \in SenderTask
    BY <1>0, <1>2, <1>k, KeyedHead, SetOfSeq
  <2>2. \A x \in ToSet(q) : x \in SenderTask
    BY <1>0, SetOfSeq
  <2>3. \A x, y \in SenderTask : x.t = y.t /\ x.v = y.v => x = y
    BY DEF SenderTask
  <2> QED BY <2>1, <2>2, <2>3 DEF TokenAt
<1>3. ASSUME r # <<>>
      PROVE  Head(r) \in ToSet(r) /\ W(Tail(r)) = W(r) \ {TokenAt("want", Head(r), Zero)}
  <2>1. Head(r) \in ToSet(r) /\ ToSet(Tail(r)) = ToSet(r) \ {Head(r)}
    BY <1>0, <1>3, <1>k, KeyedHead
  <2> QED BY <2>1 DEF TokenAt
<1>4. ASSUME k # <<>>
      PROVE  Head(k) \in ToSet(k) /\ K(Tail(k)) = K(k) \ {TokenAt("wantOk", Head(k), Zero)}
  <2>1. Head(k) \in ToSet(k) /\ ToSet(Tail(k)) = ToSet(k) \ {Head(k)}
    BY <1>0, <1>4, <1>k, KeyedHead
  <2> QED BY <2>1 DEF TokenAt
<1>p. \A t, v : /\ TokenAt("want", t, v) \notin O(q) \cup K(k)
                /\ TokenAt("wantOk", t, v) \notin O(q) \cup W(r)
                /\ TokenAt("offer", t, v) \notin W(r) \cup K(k)
  BY DEF TokenAt
<1>5. ASSUME HasReceiver(ch)
      PROVE  LET x == TokenAt(WantPlace(ch), NextReceiver(ch), Zero)
             IN  /\ x \in QueueTokens(ch)
                 /\ QueueTokens(ShiftReceiver(ch)) = QueueTokens(ch) \ {x}
  <2>1. CASE r # <<>>
    <3>1. /\ WantPlace(ch) = "want" /\ NextReceiver(ch) = Head(r)
          /\ ShiftReceiver(ch).senders = q /\ ShiftReceiver(ch).receivers = Tail(r)
          /\ ShiftReceiver(ch).receiversWithOk = k
      BY <1>d, <2>1 DEF WantPlace, NextReceiver, ShiftReceiver, r
    <3>2. QueueTokens(ch) = O(q) \cup W(r) \cup K(k)
      BY <1>1, <1>d
    <3>3. QueueTokens(ShiftReceiver(ch)) = O(q) \cup W(Tail(r)) \cup K(k)
      BY <1>1, <3>1
    <3> HIDE DEF O, W, K
    <3>4. TokenAt("want", Head(r), Zero) \in W(r)
      BY <1>3, <2>1 DEF W
    <3> QED BY <1>3, <1>p, <2>1, <3>1, <3>2, <3>3, <3>4
  <2>2. CASE r = <<>>
    <3>1. /\ WantPlace(ch) = "wantOk" /\ NextReceiver(ch) = Head(k) /\ k # <<>>
          /\ ShiftReceiver(ch).senders = q /\ ShiftReceiver(ch).receivers = r
          /\ ShiftReceiver(ch).receiversWithOk = Tail(k)
      BY <1>5, <1>d, <2>2 DEF WantPlace, NextReceiver, ShiftReceiver, HasReceiver, r, k
    <3>2. QueueTokens(ch) = O(q) \cup W(r) \cup K(k)
      BY <1>1, <1>d
    <3>3. QueueTokens(ShiftReceiver(ch)) = O(q) \cup W(r) \cup K(Tail(k))
      BY <1>1, <3>1
    <3> HIDE DEF O, W, K
    <3>4. TokenAt("wantOk", Head(k), Zero) \in K(k)
      BY <1>4, <3>1 DEF K
    <3> QED BY <1>4, <1>p, <3>1, <3>2, <3>3, <3>4
  <2> QED BY <2>1, <2>2
<1>6. ASSUME q # <<>>
      PROVE  LET x == TokenAt("offer", Head(q).t, Head(q).v)
             IN  /\ x \in QueueTokens(ch)
                 /\ QueueTokens(ShiftSender(ch)) = QueueTokens(ch) \ {x}
                 /\ QueueTokens(ShiftBuffer(ch)) = QueueTokens(ch) \ {x}
  <2>1. /\ ShiftSender(ch).senders = Tail(q) /\ ShiftSender(ch).receivers = r
        /\ ShiftSender(ch).receiversWithOk = k
        /\ ShiftBuffer(ch).senders = Tail(q) /\ ShiftBuffer(ch).receivers = r
        /\ ShiftBuffer(ch).receiversWithOk = k
    BY <1>6, <1>d DEF ShiftSender, ShiftBuffer, q
  <2>2. QueueTokens(ch) = O(q) \cup W(r) \cup K(k)
    BY <1>1, <1>d
  <2>3. /\ QueueTokens(ShiftSender(ch)) = O(Tail(q)) \cup W(r) \cup K(k)
        /\ QueueTokens(ShiftBuffer(ch)) = O(Tail(q)) \cup W(r) \cup K(k)
    BY <1>1, <2>1
  <2> HIDE DEF O, W, K
  <2>4. TokenAt("offer", Head(q).t, Head(q).v) \in O(q)
    BY <1>2, <1>6 DEF O
  <2> QED BY <1>2, <1>6, <1>p, <2>2, <2>3, <2>4
<1>7. q = <<>> => QueueTokens(ShiftBuffer(ch)) = QueueTokens(ch)
  <2>1. q = <<>> => /\ ShiftBuffer(ch).senders = q /\ ShiftBuffer(ch).receivers = r
                    /\ ShiftBuffer(ch).receiversWithOk = k
    BY <1>d DEF ShiftBuffer, q
  <2>2. q = ch.senders /\ r = ch.receivers /\ k = ch.receiversWithOk
    BY DEF q, r, k
  <2> QED BY <1>1, <2>1, <2>2
<1>8. ASSUME NEW s \in SenderTask
      PROVE  QueueTokens([ch EXCEPT !.senders = Append(q, s)])
               = QueueTokens(ch) \cup {TokenAt("offer", s.t, s.v)}
  <2>1. \A y : QueueTokens([ch EXCEPT !.senders = y]) = O(y) \cup W(r) \cup K(k)
    BY <1>1, <1>d
  <2>2. QueueTokens(ch) = O(q) \cup W(r) \cup K(k)
    BY <1>1, <1>d
  <2>3. ToSet(Append(q, s)) = ToSet(q) \cup {s}
    BY <1>0, SetOfSeq
  <2>4. O(Append(q, s)) = O(q) \cup {TokenAt("offer", s.t, s.v)}
    BY <2>3
  <2> HIDE DEF O, W, K
  <2> QED BY <2>1, <2>2, <2>4
<1>9. ASSUME NEW t \in Task
      PROVE  /\ QueueTokens([ch EXCEPT !.receivers = Append(r, t)])
                  = QueueTokens(ch) \cup {TokenAt("want", t, Zero)}
             /\ QueueTokens([ch EXCEPT !.receiversWithOk = Append(k, t)])
                  = QueueTokens(ch) \cup {TokenAt("wantOk", t, Zero)}
  <2>1. \A y : /\ QueueTokens([ch EXCEPT !.receivers = y]) = O(q) \cup W(y) \cup K(k)
               /\ QueueTokens([ch EXCEPT !.receiversWithOk = y]) = O(q) \cup W(r) \cup K(y)
    BY <1>1, <1>d
  <2>2. QueueTokens(ch) = O(q) \cup W(r) \cup K(k)
    BY <1>1, <1>d
  <2>3. ToSet(Append(r, t)) = ToSet(r) \cup {t} /\ ToSet(Append(k, t)) = ToSet(k) \cup {t}
    BY <1>0, SetOfSeq
  <2>4. /\ W(Append(r, t)) = W(r) \cup {TokenAt("want", t, Zero)}
        /\ K(Append(k, t)) = K(k) \cup {TokenAt("wantOk", t, Zero)}
    BY <2>3
  <2>5. /\ QueueTokens([ch EXCEPT !.receivers = Append(r, t)])
             = O(q) \cup W(Append(r, t)) \cup K(k)
        /\ QueueTokens([ch EXCEPT !.receiversWithOk = Append(k, t)])
             = O(q) \cup W(r) \cup K(Append(k, t))
    BY <2>1
  <2> HIDE DEF O, W, K
  <2> QED BY <2>2, <2>4, <2>5
<1>10. \A y : QueueTokens([ch EXCEPT !.buffer = y]) = QueueTokens(ch)
  BY <1>d DEF QueueTokens
<1>11. QueueTokens(CloseChannel(ch)) = {}
  <2>1. /\ CloseChannel(ch).senders = <<>> /\ CloseChannel(ch).receivers = <<>>
        /\ CloseChannel(ch).receiversWithOk = <<>>
    BY <1>d DEF CloseChannel
  <2>2. ToSet(<<>>) = {}
    BY DEF ToSet
  <2> QED BY <1>1, <2>1, <2>2
<1> QED BY <1>5, <1>6, <1>7, <1>8, <1>9, <1>10, <1>11 DEF q, r, k

\* A set loses the members R and gains the members A.
Change(S, T, R, A) == R \subseteq S /\ T = (S \ R) \cup A

WantToken(ch) == TokenAt(WantPlace(ch), NextReceiver(ch), Zero)
OfferToken(s) == TokenAt("offer", s.t, s.v)

\* What the calls change in the waiting lists of a channel.
LEMMA QueueChanges ==
  ASSUME NEW c \in Chans, NEW ch \in ChannelState, QueueShape(c, ch)
  PROVE  /\ HasReceiver(ch) =>
              Change(QueueTokens(ch), QueueTokens(ShiftReceiver(ch)), {WantToken(ch)}, {})
         /\ ch.senders # <<>> =>
              /\ Change(QueueTokens(ch), QueueTokens(ShiftSender(ch)),
                        {OfferToken(Head(ch.senders))}, {})
              /\ Change(QueueTokens(ch), QueueTokens(ShiftBuffer(ch)),
                        {OfferToken(Head(ch.senders))}, {})
         /\ ch.senders = <<>> => Change(QueueTokens(ch), QueueTokens(ShiftBuffer(ch)), {}, {})
         /\ \A s \in SenderTask :
              Change(QueueTokens(ch), QueueTokens([ch EXCEPT !.senders = Append(ch.senders, s)]),
                     {}, {OfferToken(s)})
         /\ \A t \in Task :
              /\ Change(QueueTokens(ch),
                        QueueTokens([ch EXCEPT !.receivers = Append(ch.receivers, t)]),
                        {}, {TokenAt("want", t, Zero)})
              /\ Change(QueueTokens(ch),
                        QueueTokens([ch EXCEPT !.receiversWithOk = Append(ch.receiversWithOk, t)]),
                        {}, {TokenAt("wantOk", t, Zero)})
         /\ \A q : Change(QueueTokens(ch), QueueTokens([ch EXCEPT !.buffer = q]), {}, {})
         /\ Change(QueueTokens(ch), QueueTokens(CloseChannel(ch)), QueueTokens(ch), {})
<1> DEFINE Q == QueueTokens(ch)
<1>0. \A x : \A S, T : /\ x \in S /\ T = S \ {x} => Change(S, T, {x}, {})
                       /\ T = S \cup {x} => Change(S, T, {}, {x})
                       /\ T = S => Change(S, T, {}, {})
                       /\ T = {} => Change(S, T, S, {})
  BY DEF Change
<1>1. HasReceiver(ch) => WantToken(ch) \in Q /\ QueueTokens(ShiftReceiver(ch)) = Q \ {WantToken(ch)}
  BY QueueTokenSteps DEF WantToken
<1>2. ch.senders # <<>> =>
         /\ OfferToken(Head(ch.senders)) \in Q
         /\ QueueTokens(ShiftSender(ch)) = Q \ {OfferToken(Head(ch.senders))}
         /\ QueueTokens(ShiftBuffer(ch)) = Q \ {OfferToken(Head(ch.senders))}
  BY QueueTokenSteps DEF OfferToken
<1>3. /\ ch.senders = <<>> => QueueTokens(ShiftBuffer(ch)) = Q
      /\ \A q : QueueTokens([ch EXCEPT !.buffer = q]) = Q
      /\ QueueTokens(CloseChannel(ch)) = {}
  BY QueueTokenSteps
<1>4. \A s \in SenderTask :
         QueueTokens([ch EXCEPT !.senders = Append(ch.senders, s)]) = Q \cup {OfferToken(s)}
  BY QueueTokenSteps DEF OfferToken
<1>5. \A t \in Task :
         /\ QueueTokens([ch EXCEPT !.receivers = Append(ch.receivers, t)])
              = Q \cup {TokenAt("want", t, Zero)}
         /\ QueueTokens([ch EXCEPT !.receiversWithOk = Append(ch.receiversWithOk, t)])
              = Q \cup {TokenAt("wantOk", t, Zero)}
  BY QueueTokenSteps
<1> HIDE DEF Q
<1> QED BY <1>0, <1>1, <1>2, <1>3, <1>4, <1>5 DEF Q

\* One call changes the tokens of one channel.
LEMMA QueuedMoves ==
  ASSUME TypeOK, Shape, NEW c \in Chans, NEW x, chan' = [chan EXCEPT ![c] = x],
         NEW R, NEW A, Change(QueueTokens(chan[c]), QueueTokens(x), R, A)
  PROVE  Change(QueuedTokens, QueuedTokens', R, A)
<1>0. R \subseteq QueueTokens(chan[c]) /\ QueueTokens(x) = (QueueTokens(chan[c]) \ R) \cup A
  BY DEF Change
<1>1. \A d \in Chans : chan'[d] = IF d = c THEN x ELSE chan[d]
  BY DEF TypeOK
<1>2. \A d \in Chans : d # c => QueueTokens(chan[d]) \cap R = {}
  BY <1>0, TokenPlaces
<1>3. \A d \in Chans : QueueTokens(chan'[d])
                         = IF d = c THEN (QueueTokens(chan[c]) \ R) \cup A
                                    ELSE QueueTokens(chan[d])
  BY <1>0, <1>1
<1>4. QueuedTokens' = UNION {QueueTokens(chan'[d]) : d \in Chans}
  BY DEF QueuedTokens, QueueTokens
<1>5. \A y : y \in QueuedTokens' <=> \E d \in Chans : y \in QueueTokens(chan'[d])
  BY <1>4
<1>6. \A y : y \in QueuedTokens <=> \E d \in Chans : y \in QueueTokens(chan[d])
  BY DEF QueuedTokens
<1>7. R \subseteq QueuedTokens
  BY <1>0, <1>6
<1>8. QueuedTokens' = (QueuedTokens \ R) \cup A
  BY <1>0, <1>2, <1>3, <1>5, <1>6
<1> QED BY <1>7, <1>8 DEF Change

\* The tokens of a queue of jobs.
JobsTokens(s) == UNION {JobTokens(j) : j \in ToSet(s)}

LEMMA JobsSteps ==
  ASSUME NEW s \in Seq(Job)
  PROVE  /\ \A m \in Seq(Job) : JobsTokens(s \o m) = JobsTokens(s) \cup JobsTokens(m)
         /\ \A j \in Job : JobsTokens(Append(s, j)) = JobsTokens(s) \cup JobTokens(j)
         /\ s # <<>> => JobTokens(Head(s)) \subseteq JobsTokens(s)
         /\ s # <<>> /\ Keyed(s, ToKey) /\ Keyed(s, FromKey)
              => JobsTokens(Tail(s)) = JobsTokens(s) \ JobTokens(Head(s))
<1>1. \A m \in Seq(Job) : JobsTokens(s \o m) = JobsTokens(s) \cup JobsTokens(m)
  BY SetOfConcat DEF JobsTokens
<1>2. \A j \in Job : JobsTokens(Append(s, j)) = JobsTokens(s) \cup JobTokens(j)
  BY SetOfSeq DEF JobsTokens
<1>3. ASSUME s # <<>> PROVE JobTokens(Head(s)) \subseteq JobsTokens(s)
  <2>1. Head(s) \in ToSet(s)
    BY <1>3, SetOfSeq
  <2> QED BY <2>1 DEF JobsTokens
<1>4. ASSUME s # <<>>, Keyed(s, ToKey), Keyed(s, FromKey)
      PROVE  JobsTokens(Tail(s)) = JobsTokens(s) \ JobTokens(Head(s))
  <2>1. /\ Head(s) \in ToSet(s) /\ ToSet(Tail(s)) = ToSet(s) \ {Head(s)}
        /\ \A j \in ToSet(Tail(s)) : ToKey[j] # ToKey[Head(s)] /\ FromKey[j] # FromKey[Head(s)]
    BY <1>4, KeyedHead, KeyedTail
  <2>2. \A j \in ToSet(s) : j \in Job
    BY SetOfSeq
  <2>3. \A j \in ToSet(Tail(s)) : j.to.g # Head(s).to.g /\ j.from.g # Head(s).from.g
    BY <2>1, <2>2 DEF ToKey, FromKey
  <2>4. \A j \in ToSet(Tail(s)) : JobTokens(j) \cap JobTokens(Head(s)) = {}
    <3> TAKE j \in ToSet(Tail(s))
    <3> DEFINE h == Head(s)
    <3>1. j.to # h.to /\ j.from # h.from
      BY <2>3
    <3>2. j.kind \in {"handoff", "sent", "zero", "closed"}
          /\ h.kind \in {"handoff", "sent", "zero", "closed"}
      BY <2>1, <2>2 DEF Job
    <3> HIDE DEF h
    <3> QED BY <3>1, <3>2 DEF JobTokens, TokenAt, h
  <2> QED BY <2>1, <2>4 DEF JobsTokens
<1> QED BY <1>1, <1>2, <1>3, <1>4

\* What close() makes of the waiting lists.
CloseTokens(ch) ==
  {TokenAt("closed", s.t, s.v) : s \in ToSet(ch.senders)}
    \cup {TokenAt("zero", t, Zero) : t \in ToSet(ch.receivers) \cup ToSet(ch.receiversWithOk)}

ClosedJobs(q) == [k \in 1..Len(q) |-> ClosedJob(q[k])]
ZeroJobs(q)   == [k \in 1..Len(q) |-> ZeroJob(q[k])]

\* The jobs made of the members of a list.
LEMMA ClosedJobsOf ==
  ASSUME NEW q \in Seq(SenderTask), Keyed(q, SenderKey)
  PROVE  /\ ClosedJobs(q) \in Seq(Job) /\ Keyed(ClosedJobs(q), ToKey)
         /\ \A s \in ToSet(q) : ClosedJob(s) \in ToSet(ClosedJobs(q))
         /\ \A j \in ToSet(ClosedJobs(q)) :
              \E s \in ToSet(q) : j = ClosedJob(s) /\ ToKey[j] = s.t.g
<1> DEFINE s == ClosedJobs(q)
<1>0. \A x \in SenderTask : ClosedJob(x) \in Job
  BY DEF ClosedJob, Job, SenderTask, Value, Zero
<1>1. s \in [1..Len(q) -> Job] /\ Len(q) \in Nat /\ \A k \in 1..Len(q) : s[k] = ClosedJob(q[k])
  BY <1>0 DEF ClosedJobs
<1> HIDE DEF s
<1>2. s \in Seq(Job) /\ Len(s) = Len(q)
  BY <1>1, FunctionIsSeq
<1>3. \A y : y \in ToSet(s) <=> \E k \in 1..Len(q) : s[k] = y
  BY <1>2, SetOfSeq
<1>4. \A y : y \in ToSet(q) <=> \E k \in 1..Len(q) : q[k] = y
  BY SetOfSeq
<1>5. \A x \in SenderTask : ToKey[ClosedJob(x)] = x.t.g /\ SenderKey[x] = x.t.g
  BY <1>0 DEF ToKey, SenderKey, ClosedJob
<1>6. \A k \in 1..Len(q) : q[k] \in SenderTask
  OBVIOUS
<1>7. Keyed(s, ToKey)
  BY <1>1, <1>2, <1>5, <1>6 DEF Keyed
<1>8. \A x \in ToSet(q) : ClosedJob(x) \in ToSet(s)
  BY <1>1, <1>3, <1>4
<1>9. \A j \in ToSet(s) : \E x \in ToSet(q) : j = ClosedJob(x) /\ ToKey[j] = x.t.g
  BY <1>1, <1>3, <1>4, <1>5, <1>6
<1> QED BY <1>2, <1>7, <1>8, <1>9 DEF s

LEMMA ZeroJobsOf ==
  ASSUME NEW q \in Seq(Task), Keyed(q, TaskKey)
  PROVE  /\ ZeroJobs(q) \in Seq(Job) /\ Keyed(ZeroJobs(q), ToKey)
         /\ \A t \in ToSet(q) : ZeroJob(t) \in ToSet(ZeroJobs(q))
         /\ \A j \in ToSet(ZeroJobs(q)) :
              \E t \in ToSet(q) : j = ZeroJob(t) /\ ToKey[j] = t.g
<1> DEFINE s == ZeroJobs(q)
<1>0. \A x \in Task : ZeroJob(x) \in Job
  BY DEF ZeroJob, Job, Zero
<1>1. s \in [1..Len(q) -> Job] /\ Len(q) \in Nat /\ \A k \in 1..Len(q) : s[k] = ZeroJob(q[k])
  BY <1>0 DEF ZeroJobs
<1> HIDE DEF s
<1>2. s \in Seq(Job) /\ Len(s) = Len(q)
  BY <1>1, FunctionIsSeq
<1>3. \A y : y \in ToSet(s) <=> \E k \in 1..Len(q) : s[k] = y
  BY <1>2, SetOfSeq
<1>4. \A y : y \in ToSet(q) <=> \E k \in 1..Len(q) : q[k] = y
  BY SetOfSeq
<1>5. \A x \in Task : ToKey[ZeroJob(x)] = x.g /\ TaskKey[x] = x.g
  BY <1>0 DEF ToKey, TaskKey, ZeroJob
<1>6. \A k \in 1..Len(q) : q[k] \in Task
  OBVIOUS
<1>7. Keyed(s, ToKey)
  BY <1>1, <1>2, <1>5, <1>6 DEF Keyed
<1>8. \A x \in ToSet(q) : ZeroJob(x) \in ToSet(s)
  BY <1>1, <1>3, <1>4
<1>9. \A j \in ToSet(s) : \E x \in ToSet(q) : j = ZeroJob(x) /\ ToKey[j] = x.g
  BY <1>1, <1>3, <1>4, <1>5, <1>6
<1> QED BY <1>2, <1>7, <1>8, <1>9 DEF s

\* The timers that close() starts: who they wake, and that they wake nobody
\* twice if nobody waits twice.
LEMMA CloseSteps ==
  ASSUME NEW c \in Chans, NEW ch \in ChannelState, QueueShape(c, ch),
         \A x, y \in QueueTokens(ch) : x.t.g = y.t.g => x = y
  PROVE  /\ CloseWakes(ch) \in Seq(Job)
         /\ JobsTokens(CloseWakes(ch)) = CloseTokens(ch)
         /\ Keyed(CloseWakes(ch), ToKey)
         /\ \A j \in ToSet(CloseWakes(ch)) :
              \/ \E s \in ToSet(ch.senders) : j = ClosedJob(s)
              \/ \E t \in ToSet(ch.receivers) \cup ToSet(ch.receiversWithOk) : j = ZeroJob(t)
<1> DEFINE q == ch.senders
           r == ch.receivers
           w == ch.receiversWithOk
           a == ClosedJobs(q)
           b == ZeroJobs(r)
           d == ZeroJobs(w)
<1>0. q \in Seq(SenderTask) /\ r \in Seq(Task) /\ w \in Seq(Task)
  BY ChannelFields
<1>k. Keyed(q, SenderKey) /\ Keyed(r, TaskKey) /\ Keyed(w, TaskKey)
  BY DEF QueueShape
<1>e. CloseWakes(ch) = a \o b \o d
  BY DEF CloseWakes, ClosedJobs, ZeroJobs
<1>p. /\ \A s \in ToSet(q) : TokenAt("offer", s.t, s.v) \in QueueTokens(ch)
      /\ \A t \in ToSet(r) : TokenAt("want", t, Zero) \in QueueTokens(ch)
      /\ \A t \in ToSet(w) : TokenAt("wantOk", t, Zero) \in QueueTokens(ch)
  BY DEF QueueTokens
<1>n. /\ \A s \in ToSet(q), t \in ToSet(r) \cup ToSet(w) : s.t.g # t.g
      /\ \A t \in ToSet(r), u \in ToSet(w) : t.g # u.g
  BY <1>p, ZenonT(40) DEF TokenAt
<1>c. /\ CloseTokens(ch) = {TokenAt("closed", s.t, s.v) : s \in ToSet(q)}
                            \cup {TokenAt("zero", t, Zero) : t \in ToSet(r) \cup ToSet(w)}
      /\ ToSet(q) = ToSet(ch.senders) /\ ToSet(r) = ToSet(ch.receivers)
      /\ ToSet(w) = ToSet(ch.receiversWithOk)
  BY DEF CloseTokens
<1> HIDE DEF q, r, w
<1> HIDE DEF a, b, d
<1>1. a \in Seq(Job) /\ b \in Seq(Job) /\ d \in Seq(Job)
  BY <1>0, <1>k, ClosedJobsOf, ZeroJobsOf DEF a, b, d
<1>k1. Keyed(a, ToKey) /\ Keyed(b, ToKey) /\ Keyed(d, ToKey)
  BY <1>0, <1>k, ClosedJobsOf, ZeroJobsOf DEF a, b, d
<1>2. /\ \A j \in ToSet(a) : \E s \in ToSet(q) : j = ClosedJob(s) /\ ToKey[j] = s.t.g
      /\ \A j \in ToSet(b) : \E t \in ToSet(r) : j = ZeroJob(t) /\ ToKey[j] = t.g
      /\ \A j \in ToSet(d) : \E t \in ToSet(w) : j = ZeroJob(t) /\ ToKey[j] = t.g
      /\ \A s \in ToSet(q) : ClosedJob(s) \in ToSet(a)
      /\ \A t \in ToSet(r) : ZeroJob(t) \in ToSet(b)
      /\ \A t \in ToSet(w) : ZeroJob(t) \in ToSet(d)
  BY <1>0, <1>k, ClosedJobsOf, ZeroJobsOf DEF a, b, d
<1>3. /\ a \o b \in Seq(Job) /\ a \o b \o d \in Seq(Job)
      /\ ToSet(a \o b) = ToSet(a) \cup ToSet(b)
      /\ ToSet(a \o b \o d) = ToSet(a) \cup ToSet(b) \cup ToSet(d)
  <2> DEFINE e == a \o b
  <2>1. e \in Seq(Job) /\ ToSet(e) = ToSet(a) \cup ToSet(b)
    BY <1>1, SetOfConcat
  <2> HIDE DEF e
  <2>2. e \o d \in Seq(Job) /\ ToSet(e \o d) = ToSet(e) \cup ToSet(d)
    <3>1. d \in Seq(Job)
      BY <1>1
    <3> QED BY <2>1, <3>1, SetOfConcat
  <2> QED BY <2>1, <2>2 DEF e
<1>4. Keyed(a \o b \o d, ToKey)
  <2>1. \A j \in ToSet(a), m \in ToSet(b) : ToKey[j] # ToKey[m]
    BY <1>2, <1>n
  <2>2. Keyed(a \o b, ToKey)
    BY <1>1, <1>k1, <2>1, KeyedConcat
  <2>3. \A j \in ToSet(a \o b), m \in ToSet(d) : ToKey[j] # ToKey[m]
    BY <1>2, <1>3, <1>n
  <2> DEFINE e == a \o b
  <2> HIDE DEF e
  <2>4. e \in Seq(Job) /\ Keyed(e, ToKey) /\ \A j \in ToSet(e), m \in ToSet(d) : ToKey[j] # ToKey[m]
    BY <1>3, <2>2, <2>3 DEF e
  <2>5. Keyed(e \o d, ToKey)
    BY <1>1, <1>k1, <2>4, KeyedConcat
  <2> QED BY <2>5 DEF e
<1>5. JobsTokens(a \o b \o d) = CloseTokens(ch)
  <2>1. /\ \A s : JobTokens(ClosedJob(s)) = {TokenAt("closed", s.t, s.v)}
        /\ \A t : JobTokens(ZeroJob(t)) = {TokenAt("zero", t, Zero)}
    BY DEF JobTokens, ClosedJob, ZeroJob
  <2>3. \A y : y \in JobsTokens(a \o b \o d) <=>
          \E j \in ToSet(a) \cup ToSet(b) \cup ToSet(d) : y \in JobTokens(j)
    BY <1>3 DEF JobsTokens
  <2> QED BY <1>2, <1>c, <2>1, <2>3
<1>6. \A j \in ToSet(a \o b \o d) :
              \/ \E s \in ToSet(ch.senders) : j = ClosedJob(s)
              \/ \E t \in ToSet(ch.receivers) \cup ToSet(ch.receiversWithOk) : j = ZeroJob(t)
  BY <1>2, <1>3, <1>c
<1> QED BY <1>e, <1>3, <1>4, <1>5, <1>6

\* A promise that is settled becomes a token, and a goroutine that looks at
\* its settled promise leaves none.
LEMMA SettledMoves ==
  ASSUME TypeOK, Shape
  PROVE  /\ \A t \in Task : \A kind, v : Live(t) /\ Settle(t, kind, v) =>
              SettledTokens' = SettledTokens \cup {TokenAt(kind, t, v)}
         /\ \A g \in G : done' = [done EXCEPT ![g] = {}] =>
              SettledTokens' = {x \in SettledTokens : x.t.g # g}
         /\ done' = done => SettledTokens' = SettledTokens
<1>1. ASSUME NEW t \in Task, NEW kind, NEW v, Live(t), Settle(t, kind, v)
      PROVE  SettledTokens' = SettledTokens \cup {TokenAt(kind, t, v)}
  <2> DEFINE o == [kind |-> kind, t |-> t, v |-> v]
  <2>1. t.g \in G
    BY DEF Task
  <2>2. done' = [done EXCEPT ![t.g] = @ \cup {o}]
    BY <1>1 DEF Settle
  <2>3. \A h \in G : done'[h] = IF h = t.g THEN done[h] \cup {o} ELSE done[h]
    BY <2>2 DEF TypeOK
  <2>4. OutcomeToken(o) = TokenAt(kind, t, v)
    BY DEF OutcomeToken
  <2> HIDE DEF o
  <2>5. \A y : y \in SettledTokens' <=> \E h \in G : \E p \in done'[h] : y = OutcomeToken(p)
    BY DEF SettledTokens
  <2>6. \A y : y \in SettledTokens <=> \E h \in G : \E p \in done[h] : y = OutcomeToken(p)
    BY DEF SettledTokens
  <2>7. \A y : y \in SettledTokens' <=> y \in SettledTokens \/ y = OutcomeToken(o)
    BY <2>1, <2>3, <2>5, <2>6, ZenonT(40)
  <2> QED BY <2>4, <2>7
<1>2. ASSUME NEW g \in G, done' = [done EXCEPT ![g] = {}]
      PROVE  SettledTokens' = {x \in SettledTokens : x.t.g # g}
  <2>1. \A h \in G : done'[h] = IF h = g THEN {} ELSE done[h]
    BY <1>2 DEF TypeOK
  <2>2. \A h \in G : \A p \in done[h] : OutcomeToken(p).t.g = h
    BY DEF Shape, DoneShape, OutcomeToken, TokenAt
  <2>5. \A y : y \in SettledTokens' <=> \E h \in G : \E p \in done'[h] : y = OutcomeToken(p)
    BY DEF SettledTokens
  <2>6. \A y : y \in SettledTokens <=> \E h \in G : \E p \in done[h] : y = OutcomeToken(p)
    BY DEF SettledTokens
  <2>7. \A y : y \in SettledTokens' <=> y \in SettledTokens /\ y.t.g # g
    BY <2>1, <2>2, <2>5, <2>6
  <2> QED BY <2>7
<1>3. done' = done => SettledTokens' = SettledTokens
  BY DEF SettledTokens
<1> QED BY <1>1, <1>2, <1>3

\* The tokens R go and the tokens A come.
Moved(R, A) == Change(Tokens, Tokens', R, A)

LEMMA ComponentMoves ==
  ASSUME TypeOK, Shape, NEW Rq, NEW Aq, NEW Rm, NEW Am, NEW Rt, NEW At, NEW Rs, NEW As,
         Change(QueuedTokens, QueuedTokens', Rq, Aq),
         Change(MicroTokens, MicroTokens', Rm, Am),
         Change(TimerTokens, TimerTokens', Rt, At),
         Change(SettledTokens, SettledTokens', Rs, As)
  PROVE  Moved(Rq \cup Rm \cup Rt \cup Rs, Aq \cup Am \cup At \cup As)
<1>1. /\ QueuedTokens \cap MicroTokens = {} /\ QueuedTokens \cap TimerTokens = {}
      /\ QueuedTokens \cap SettledTokens = {} /\ MicroTokens \cap TimerTokens = {}
      /\ MicroTokens \cap SettledTokens = {} /\ TimerTokens \cap SettledTokens = {}
  BY TokenPlaces
<1> QED BY <1>1 DEF Moved, Tokens, Change

\* What is unchanged keeps its tokens.
LEMMA TokensStay ==
  /\ chan' = chan => Change(QueuedTokens, QueuedTokens', {}, {})
  /\ micro' = micro => Change(MicroTokens, MicroTokens', {}, {})
  /\ timers' = timers => Change(TimerTokens, TimerTokens', {}, {})
  /\ done' = done => Change(SettledTokens, SettledTokens', {}, {})
<1>0. \A S, T : T = S => Change(S, T, {}, {})
  BY DEF Change
<1>1. chan' = chan => QueuedTokens' = QueuedTokens
  BY DEF QueuedTokens, QueueTokens
<1>2. micro' = micro => MicroTokens' = MicroTokens
  BY DEF MicroTokens
<1>3. timers' = timers => TimerTokens' = TimerTokens
  BY DEF TimerTokens
<1>4. done' = done => SettledTokens' = SettledTokens
  BY DEF SettledTokens
<1> QED BY <1>0, <1>1, <1>2, <1>3, <1>4

\* A goroutine without a token of some component is in none of its queues.
LEMMA Elsewhere ==
  ASSUME TypeOK, Shape, NEW g
  PROVE  /\ (\A x \in QueuedTokens : x.t.g # g) =>
              \A c \in Chans :
                /\ \A s \in ToSet(chan[c].senders) : SenderKey[s] # g
                /\ \A t \in ToSet(chan[c].receivers) : TaskKey[t] # g
                /\ \A t \in ToSet(chan[c].receiversWithOk) : TaskKey[t] # g
         /\ (\A x \in MicroTokens : x.t.g # g) =>
              \A j \in ToSet(micro) : ToKey[j] # g /\ FromKey[j] # g
         /\ (\A x \in TimerTokens : x.t.g # g) => \A j \in ToSet(timers) : ToKey[j] # g
<1>1. ASSUME \A x \in QueuedTokens : x.t.g # g, NEW c \in Chans
      PROVE  /\ \A s \in ToSet(chan[c].senders) : SenderKey[s] # g
             /\ \A t \in ToSet(chan[c].receivers) : TaskKey[t] # g
             /\ \A t \in ToSet(chan[c].receiversWithOk) : TaskKey[t] # g
  <2>0. /\ ToSet(chan[c].senders) \subseteq SenderTask
        /\ ToSet(chan[c].receivers) \subseteq Task
        /\ ToSet(chan[c].receiversWithOk) \subseteq Task
    <3>1. chan[c] \in ChannelState
      BY DEF TypeOK
    <3>2. /\ chan[c].senders \in Seq(SenderTask) /\ chan[c].receivers \in Seq(Task)
          /\ chan[c].receiversWithOk \in Seq(Task)
      BY <3>1, ChannelFields
    <3> QED BY <3>2, SetOfSeq
  <2>1. \A x \in QueueTokens(chan[c]) : x \in QueuedTokens
    BY DEF QueuedTokens
  <2>2. /\ \A s \in ToSet(chan[c].senders) : TokenAt("offer", s.t, s.v) \in QueuedTokens
        /\ \A t \in ToSet(chan[c].receivers) : TokenAt("want", t, Zero) \in QueuedTokens
        /\ \A t \in ToSet(chan[c].receiversWithOk) : TokenAt("wantOk", t, Zero) \in QueuedTokens
    BY <2>1 DEF QueueTokens
  <2>3. /\ \A s \in ToSet(chan[c].senders) : s.t.g # g
        /\ \A t \in ToSet(chan[c].receivers) : t.g # g
        /\ \A t \in ToSet(chan[c].receiversWithOk) : t.g # g
    BY <1>1, <2>2 DEF TokenAt
  <2> QED BY <2>0, <2>3 DEF SenderKey, TaskKey
<1>2. ASSUME \A x \in MicroTokens : x.t.g # g, NEW j \in ToSet(micro)
      PROVE  ToKey[j] # g /\ FromKey[j] # g
  <2>0. j \in Job
    BY SetOfSeq DEF TypeOK
  <2>1. \A x \in JobTokens(j) : x \in MicroTokens
    BY DEF MicroTokens
  <2>2. j.kind \in {"handoff", "sent"} /\ (j.kind = "sent" => j.to = j.from)
    BY DEF Shape, MicroShape
  <2>3. j.to.g # g /\ j.from.g # g
    BY <1>2, <2>1, <2>2 DEF JobTokens, TokenAt
  <2> QED BY <2>0, <2>3 DEF ToKey, FromKey
<1>3. ASSUME \A x \in TimerTokens : x.t.g # g, NEW j \in ToSet(timers)
      PROVE  ToKey[j] # g
  <2>0. j \in Job
    BY SetOfSeq DEF TypeOK
  <2>1. \A x \in JobTokens(j) : x \in TimerTokens
    BY DEF TimerTokens
  <2>2. j.kind \in {"zero", "closed"}
    BY DEF Shape, TimerShape
  <2>3. j.to.g # g
    BY <1>3, <2>1, <2>2 DEF JobTokens, TokenAt
  <2> QED BY <2>0, <2>3 DEF ToKey
<1> QED BY <1>1, <1>2, <1>3

\* Nobody keeps a place for a goroutine that is not waiting.
LEMMA ReadyHasNone ==
  ASSUME Awaited, NEW g, pc[g] # "waiting"
  PROVE  \A x \in Tokens : x.t.g # g
BY DEF Awaited

\* A goroutine with a token in one component has none in the others.
LEMMA OneComponent ==
  ASSUME TypeOK, Shape, Awaited, NEW w \in Tokens
  PROVE  /\ w \notin QueuedTokens => \A x \in QueuedTokens : x.t.g # w.t.g
         /\ w \notin MicroTokens => \A x \in MicroTokens : x.t.g # w.t.g
         /\ w \notin TimerTokens => \A x \in TimerTokens : x.t.g # w.t.g
         /\ w \notin SettledTokens => \A x \in SettledTokens : x.t.g # w.t.g
BY DEF Awaited, Tokens

\* One call keeps the shape of the other channels.
LEMMA OneShape ==
  ASSUME TypeOK, \A d \in Chans : QueueShape(d, chan[d]),
         NEW c \in Chans, NEW x, chan' = [chan EXCEPT ![c] = x], QueueShape(c, x)
  PROVE  \A d \in Chans : QueueShape(d, chan[d])'
<1>1. \A d \in Chans : chan'[d] = IF d = c THEN x ELSE chan[d]
  BY DEF TypeOK
<1>2. \A d \in Chans : QueueShape(d, chan'[d])
  BY <1>1
<1> QED BY <1>2 DEF QueueShape

\* Losing a member keeps the shape of a channel's lists.
LEMMA ShapeSteps ==
  ASSUME NEW c \in Chans, NEW ch \in ChannelState, QueueShape(c, ch)
  PROVE  /\ HasReceiver(ch) => /\ QueueShape(c, ShiftReceiver(ch))
                               /\ NextReceiver(ch).c = c
         /\ ch.senders # <<>> => /\ QueueShape(c, ShiftSender(ch))
                                 /\ Head(ch.senders).t.c = c
         /\ QueueShape(c, ShiftBuffer(ch))
         /\ \A q : QueueShape(c, [ch EXCEPT !.buffer = q])
         /\ QueueShape(c, CloseChannel(ch))
         /\ \A s \in SenderTask :
              s.t.c = c /\ (\A x \in ToSet(ch.senders) : SenderKey[x] # s.t.g)
                => QueueShape(c, [ch EXCEPT !.senders = Append(ch.senders, s)])
         /\ \A t \in Task :
              t.c = c /\ (\A x \in ToSet(ch.receivers) : TaskKey[x] # t.g)
                => QueueShape(c, [ch EXCEPT !.receivers = Append(ch.receivers, t)])
         /\ \A t \in Task :
              t.c = c /\ (\A x \in ToSet(ch.receiversWithOk) : TaskKey[x] # t.g)
                => QueueShape(c, [ch EXCEPT !.receiversWithOk = Append(ch.receiversWithOk, t)])
<1> DEFINE b == ch.buffer
           q == ch.senders
           r == ch.receivers
           w == ch.receiversWithOk
           S(s) == (\A x \in ToSet(s) : x.t.c = c) /\ Keyed(s, SenderKey)
           W(s) == (\A x \in ToSet(s) : x.c = c) /\ Keyed(s, TaskKey)
<1>0. q \in Seq(SenderTask) /\ r \in Seq(Task) /\ w \in Seq(Task)
  BY ChannelFields
<1>d. ch = [buffer |-> b, closed |-> ch.closed, senders |-> q,
            receivers |-> r, receiversWithOk |-> w]
  BY DEF ChannelState
<1>1. \A x : QueueShape(c, x) <=> S(x.senders) /\ W(x.receivers) /\ W(x.receiversWithOk)
  BY DEF QueueShape
<1>k. S(q) /\ W(r) /\ W(w)
  BY <1>1
<1> HIDE DEF b, q, r, w
<1>2. ASSUME q # <<>> PROVE S(Tail(q)) /\ Head(q).t.c = c
  BY <1>0, <1>k, <1>2, KeyedTail, KeyedHead
<1>3. ASSUME r # <<>> PROVE W(Tail(r)) /\ Head(r).c = c
  BY <1>0, <1>k, <1>3, KeyedTail, KeyedHead
<1>4. ASSUME w # <<>> PROVE W(Tail(w)) /\ Head(w).c = c
  BY <1>0, <1>k, <1>4, KeyedTail, KeyedHead
<1>5. ASSUME NEW s \in SenderTask, s.t.c = c, \A x \in ToSet(q) : SenderKey[x] # s.t.g
      PROVE  S(Append(q, s))
  <2>1. SenderKey[s] = s.t.g
    BY DEF SenderKey
  <2>2. ToSet(Append(q, s)) = ToSet(q) \cup {s}
    BY <1>0, SetOfSeq
  <2>3. Keyed(Append(q, s), SenderKey)
    BY <1>0, <1>k, <1>5, <2>1, KeyedAppend
  <2> QED BY <1>k, <1>5, <2>2, <2>3
<1>6. ASSUME NEW t \in Task, t.c = c, NEW y \in Seq(Task), W(y),
             \A x \in ToSet(y) : TaskKey[x] # t.g
      PROVE  W(Append(y, t))
  <2>1. TaskKey[t] = t.g
    BY DEF TaskKey
  <2>2. ToSet(Append(y, t)) = ToSet(y) \cup {t}
    BY SetOfSeq
  <2>3. Keyed(Append(y, t), TaskKey)
    BY <1>6, <2>1, KeyedAppend
  <2> QED BY <1>6, <2>2, <2>3
<1>e. S(<<>>) /\ W(<<>>)
  <2>1. ToSet(<<>>) = {} /\ Len(<<>>) = 0
    BY DEF ToSet
  <2> QED BY <2>1 DEF Keyed
<1> HIDE DEF S, W
<1>7. HasReceiver(ch) => QueueShape(c, ShiftReceiver(ch)) /\ NextReceiver(ch).c = c
  <2>1. CASE r # <<>>
    <3>1. /\ NextReceiver(ch) = Head(r)
          /\ ShiftReceiver(ch).senders = q /\ ShiftReceiver(ch).receivers = Tail(r)
          /\ ShiftReceiver(ch).receiversWithOk = w
      BY <1>d, <2>1 DEF NextReceiver, ShiftReceiver, r
    <3> QED BY <1>1, <1>k, <1>3, <2>1, <3>1
  <2>2. CASE r = <<>> /\ w # <<>>
    <3>1. /\ NextReceiver(ch) = Head(w)
          /\ ShiftReceiver(ch).senders = q /\ ShiftReceiver(ch).receivers = r
          /\ ShiftReceiver(ch).receiversWithOk = Tail(w)
      BY <1>d, <2>2 DEF NextReceiver, ShiftReceiver, r, w
    <3> QED BY <1>1, <1>k, <1>4, <2>2, <3>1
  <2> QED BY <2>1, <2>2 DEF HasReceiver, r, w
<1>8. ASSUME q # <<>> PROVE QueueShape(c, ShiftSender(ch)) /\ QueueShape(c, ShiftBuffer(ch))
  <2>1. /\ ShiftSender(ch).senders = Tail(q) /\ ShiftSender(ch).receivers = r
        /\ ShiftSender(ch).receiversWithOk = w
        /\ ShiftBuffer(ch).senders = Tail(q) /\ ShiftBuffer(ch).receivers = r
        /\ ShiftBuffer(ch).receiversWithOk = w
    BY <1>d, <1>8 DEF ShiftSender, ShiftBuffer, q
  <2> QED BY <1>1, <1>k, <1>2, <1>8, <2>1
<1>9. QueueShape(c, ShiftBuffer(ch))
  <2>1. CASE q = <<>>
    <3>1. /\ ShiftBuffer(ch).senders = q /\ ShiftBuffer(ch).receivers = r
          /\ ShiftBuffer(ch).receiversWithOk = w
      BY <1>d, <2>1 DEF ShiftBuffer, q
    <3> QED BY <1>1, <1>k, <3>1
  <2> QED BY <1>8, <2>1
<1>10. \A y : QueueShape(c, [ch EXCEPT !.buffer = y])
  BY <1>d DEF QueueShape
<1>11. QueueShape(c, CloseChannel(ch))
  <2>1. /\ CloseChannel(ch).senders = <<>> /\ CloseChannel(ch).receivers = <<>>
        /\ CloseChannel(ch).receiversWithOk = <<>>
    BY <1>d DEF CloseChannel
  <2> QED BY <1>1, <1>e, <2>1
<1>12. \A y : /\ S(y) => QueueShape(c, [ch EXCEPT !.senders = y])
              /\ W(y) => QueueShape(c, [ch EXCEPT !.receivers = y])
              /\ W(y) => QueueShape(c, [ch EXCEPT !.receiversWithOk = y])
  <2> TAKE y
  <2>1. /\ [ch EXCEPT !.senders = y].senders = y
        /\ [ch EXCEPT !.senders = y].receivers = r
        /\ [ch EXCEPT !.senders = y].receiversWithOk = w
        /\ [ch EXCEPT !.receivers = y].senders = q
        /\ [ch EXCEPT !.receivers = y].receivers = y
        /\ [ch EXCEPT !.receivers = y].receiversWithOk = w
        /\ [ch EXCEPT !.receiversWithOk = y].senders = q
        /\ [ch EXCEPT !.receiversWithOk = y].receivers = r
        /\ [ch EXCEPT !.receiversWithOk = y].receiversWithOk = y
    BY <1>d
  <2> QED BY <1>1, <1>k, <2>1
<1> QED BY <1>0, <1>k, <1>2, <1>5, <1>6, <1>7, <1>8, <1>9, <1>10, <1>11, <1>12 DEF q, r, w

-----------------------------------------------------------------------------
(* What each action makes of the queues and the tokens.                    *)

LEMMA ShapeStays ==
  /\ Shape /\ micro' = micro => MicroShape'
  /\ Shape /\ timers' = timers => TimerShape'
  /\ Shape /\ done' = done => DoneShape'
  /\ Shape /\ chan' = chan => \A c \in Chans : QueueShape(c, chan[c])'
BY DEF Shape, MicroShape, TimerShape, DoneShape, QueueShape

\* A call on one channel that starts no job but perhaps microtasks.
LEMMA CallMoves ==
  ASSUME TypeOK, Shape, NEW c \in Chans, NEW x, chan' = [chan EXCEPT ![c] = x],
         QueueShape(c, x), NEW R, NEW A, Change(QueueTokens(chan[c]), QueueTokens(x), R, A),
         NEW M, Change(MicroTokens, MicroTokens', {}, M), MicroShape',
         timers' = timers, done' = done
  PROVE  Shape' /\ Moved(R, A \cup M)
<1>1. Shape'
  <2>1. \A d \in Chans : QueueShape(d, chan[d])'
    BY OneShape DEF Shape
  <2> QED BY <2>1, ShapeStays DEF Shape
<1>2. Change(QueuedTokens, QueuedTokens', R, A)
  BY QueuedMoves
<1>3. Moved(R \cup {} \cup {} \cup {}, A \cup M \cup {} \cup {})
  BY <1>2, TokensStay, ComponentMoves
<1>4. R \cup {} \cup {} \cup {} = R /\ A \cup M \cup {} \cup {} = A \cup M
  OBVIOUS
<1> QED BY <1>1, <1>3, <1>4

\* A job joins the microtasks.
LEMMA MicroJoins ==
  ASSUME TypeOK, Shape, NEW j \in Job, j.kind \in {"handoff", "sent"}, j.v # Zero,
         j.to.c = j.from.c, j.kind = "sent" => j.to = j.from,
         \A k \in ToSet(micro) : ToKey[k] # j.to.g /\ FromKey[k] # j.from.g,
         micro' = Append(micro, j)
  PROVE  MicroShape' /\ Change(MicroTokens, MicroTokens', {}, JobTokens(j))
<1>0. micro \in Seq(Job) /\ MicroShape
  BY DEF TypeOK, Shape
<1>1. ToKey[j] = j.to.g /\ FromKey[j] = j.from.g
  BY DEF ToKey, FromKey
<1>2. Keyed(micro', ToKey) /\ Keyed(micro', FromKey)
  BY <1>0, <1>1, KeyedAppend DEF MicroShape
<1>3. ToSet(micro') = ToSet(micro) \cup {j}
  BY <1>0, SetOfSeq
<1>4. MicroShape'
  BY <1>0, <1>2, <1>3 DEF MicroShape
<1>5. MicroTokens = JobsTokens(micro) /\ MicroTokens' = JobsTokens(micro')
  BY DEF MicroTokens, JobsTokens
<1>6. JobsTokens(micro') = JobsTokens(micro) \cup JobTokens(j)
  BY <1>0, JobsSteps
<1>7. MicroTokens' = (MicroTokens \ {}) \cup JobTokens(j)
  BY <1>5, <1>6
<1> QED BY <1>4, <1>7 DEF Change

LEMMA TaskOfKnown ==
  ASSUME TypeOK, NEW g \in G, NEW c \in Chans, CanStart(g)
  PROVE  /\ TaskOf(g, c, 0) \in Task /\ TaskOf(g, c, 0).g = g /\ TaskOf(g, c, 0).c = c
         /\ TaskOf(g, c, 0).n = op[g] + 1 /\ TaskOf(g, c, 0).i = 0
         /\ pc[g] = "ready" /\ NextValue \in Value /\ NextValue \in Nat /\ NextValue # Zero
<1>1. TaskOf(g, c, 0) \in Task
  BY StartType
<1>2. NextValue \in Value
  BY HistoryType
<1> QED BY <1>1, <1>2 DEF TaskOf, CanStart, Value, Zero

LEMMA HandsOffMoves ==
  ASSUME TypeOK, Shape, Awaited, NEW g \in G, NEW c \in Chans, SendHandsOff(g, c)
  PROVE  /\ Shape'
         /\ Moved({WantToken(chan[c])},
                  {TokenAt("handoff", NextReceiver(chan[c]), NextValue),
                   TokenAt("hand", TaskOf(g, c, 0), NextValue)})
         /\ NextReceiver(chan[c]) \in Task /\ NextReceiver(chan[c]).c = c
<1> DEFINE x == chan[c]
           r == NextReceiver(x)
           w == WantToken(x)
           me == TaskOf(g, c, 0)
           j == HandoffJob(r, NextValue, me)
<1>1. /\ CanStart(g) /\ HasReceiver(x) /\ chan' = [chan EXCEPT ![c] = ShiftReceiver(x)]
      /\ micro' = Append(micro, j) /\ timers' = timers /\ done' = done
  BY DEF SendHandsOff
<1>2. x \in ChannelState /\ QueueShape(c, x)
  BY DEF TypeOK, Shape
<1>3. /\ me \in Task /\ me.g = g /\ me.c = c /\ pc[g] = "ready"
      /\ NextValue \in Nat /\ NextValue # Zero
  BY <1>1, TaskOfKnown
<1>4. r \in Task /\ r.c = c
  BY <1>1, <1>2, ChannelSteps, ShapeSteps
<1>5. /\ Change(QueueTokens(x), QueueTokens(ShiftReceiver(x)), {w}, {})
      /\ QueueShape(c, ShiftReceiver(x))
  BY <1>1, <1>2, QueueChanges, ShapeSteps
<1>w. w.t = r
  BY DEF WantToken, TokenAt
<1>6. /\ j \in Job /\ j.kind = "handoff" /\ j.v = NextValue /\ j.to = r /\ j.from = me
      /\ JobTokens(j) = {TokenAt("handoff", r, NextValue), TokenAt("hand", me, NextValue)}
  BY <1>3, <1>4, JobTypes DEF HandoffJob, JobTokens
<1> HIDE DEF x, r, w, me, j
<1>8. \A k \in ToSet(micro) : ToKey[k] # r.g /\ FromKey[k] # g
  <2>0. w \in QueueTokens(x)
    BY <1>5 DEF Change
  <2>1. w \in Tokens /\ w \notin MicroTokens
    <3>1. w \in QueuedTokens
      BY <2>0 DEF QueuedTokens, x
    <3> QED BY <3>1, TokenPlaces DEF Tokens
  <2>2. \A y \in MicroTokens : y.t.g # r.g
    BY <1>w, <2>1, OneComponent
  <2>3. \A y \in MicroTokens : y.t.g # g
    BY <1>3, ReadyHasNone DEF Tokens
  <2>4. (\A y \in MicroTokens : y.t.g # g) => \A k \in ToSet(micro) : FromKey[k] # g
    BY Elsewhere
  <2>5. (\A y \in MicroTokens : y.t.g # r.g) => \A k \in ToSet(micro) : ToKey[k] # r.g
    BY Elsewhere
  <2> QED BY <2>2, <2>3, <2>4, <2>5
<1>9. MicroShape' /\ Change(MicroTokens, MicroTokens', {}, JobTokens(j))
  BY <1>1, <1>3, <1>4, <1>6, <1>8, MicroJoins
<1>10. Shape' /\ Moved({w}, {} \cup JobTokens(j))
  BY <1>1, <1>5, <1>9, CallMoves DEF x
<1>11. {} \cup JobTokens(j) = JobTokens(j)
  OBVIOUS
<1> QED BY <1>4, <1>6, <1>10, <1>11 DEF x, r, w, me

LEMMA MicroStays ==
  ASSUME Shape, micro' = micro
  PROVE  MicroShape' /\ Change(MicroTokens, MicroTokens', {}, {})
BY ShapeStays, TokensStay

\* A call on one channel that starts no job.
LEMMA QuietMoves ==
  ASSUME TypeOK, Shape, NEW c \in Chans, NEW x, chan' = [chan EXCEPT ![c] = x],
         QueueShape(c, x), NEW R, NEW A, Change(QueueTokens(chan[c]), QueueTokens(x), R, A),
         micro' = micro, timers' = timers, done' = done
  PROVE  Shape' /\ Moved(R, A)
<1>1. MicroShape' /\ Change(MicroTokens, MicroTokens', {}, {})
  BY MicroStays
<1>2. Shape' /\ Moved(R, A \cup {})
  BY <1>1, CallMoves
<1>3. A \cup {} = A
  OBVIOUS
<1> QED BY <1>2, <1>3

LEMMA SendBlocksMoves ==
  ASSUME TypeOK, Shape, Awaited, NEW g \in G, NEW c \in Chans, SendBlocks(g, c)
  PROVE  Shape' /\ Moved({}, {TokenAt("offer", TaskOf(g, c, 0), NextValue)})
<1> DEFINE x == chan[c]
           me == TaskOf(g, c, 0)
           s == [t |-> me, v |-> NextValue]
           y == [x EXCEPT !.senders = Append(x.senders, s)]
<1>1. /\ CanStart(g) /\ chan' = [chan EXCEPT ![c] = y]
      /\ micro' = micro /\ timers' = timers /\ done' = done
  BY DEF SendBlocks
<1>2. x \in ChannelState /\ QueueShape(c, x)
  BY DEF TypeOK, Shape
<1>3. /\ me \in Task /\ me.g = g /\ me.c = c /\ pc[g] = "ready" /\ NextValue \in Value
  BY <1>1, TaskOfKnown
<1>4. s \in SenderTask /\ s.t = me /\ s.v = NextValue
  BY <1>3 DEF SenderTask
<1> HIDE DEF s, me
<1>5. Change(QueueTokens(x), QueueTokens(y), {}, {OfferToken(s)})
  BY <1>2, <1>4, QueueChanges
<1>6. QueueShape(c, y)
  <2>1. \A z \in QueuedTokens : z.t.g # g
    BY <1>3, ReadyHasNone DEF Tokens
  <2>2. \A z \in ToSet(x.senders) : SenderKey[z] # s.t.g
    BY <1>3, <1>4, <2>1, Elsewhere
  <2> QED BY <1>2, <1>3, <1>4, <2>2, ShapeSteps
<1>7. OfferToken(s) = TokenAt("offer", me, NextValue)
  BY <1>4 DEF OfferToken
<1> HIDE DEF y
<1>8. Shape' /\ Moved({}, {OfferToken(s)})
  BY <1>1, <1>5, <1>6, QuietMoves
<1> QED BY <1>7, <1>8 DEF me

LEMMA ReceiveBlocksMoves ==
  ASSUME TypeOK, Shape, Awaited, NEW g \in G, NEW c \in Chans, NEW withOk \in BOOLEAN,
         ReceiveBlocks(g, c, withOk)
  PROVE  /\ Shape'
         /\ \E p \in {"want", "wantOk"} : Moved({}, {TokenAt(p, TaskOf(g, c, 0), Zero)})
<1> DEFINE x == chan[c]
           me == TaskOf(g, c, 0)
<1>1. CanStart(g) /\ micro' = micro /\ timers' = timers /\ done' = done
  BY DEF ReceiveBlocks
<1>2. x \in ChannelState /\ QueueShape(c, x)
  BY DEF TypeOK, Shape
<1>3. me \in Task /\ me.g = g /\ me.c = c /\ pc[g] = "ready"
  BY <1>1, TaskOfKnown
<1>n. \A z \in QueuedTokens : z.t.g # g
  BY <1>3, ReadyHasNone DEF Tokens
<1>w. /\ \A z \in ToSet(x.receivers) : TaskKey[z] # me.g
      /\ \A z \in ToSet(x.receiversWithOk) : TaskKey[z] # me.g
  BY <1>3, <1>n, Elsewhere
<1> DEFINE y == [x EXCEPT !.receivers = Append(x.receivers, me)]
           z == [x EXCEPT !.receiversWithOk = Append(x.receiversWithOk, me)]
<1>4. /\ Change(QueueTokens(x), QueueTokens(y), {}, {TokenAt("want", me, Zero)})
      /\ Change(QueueTokens(x), QueueTokens(z), {}, {TokenAt("wantOk", me, Zero)})
  <2> HIDE DEF me
  <2> QED BY <1>2, <1>3, QueueChanges
<1>5. QueueShape(c, y) /\ QueueShape(c, z)
  <2> HIDE DEF me
  <2> QED BY <1>2, <1>3, <1>w, ShapeSteps
<1>6. chan' = [chan EXCEPT ![c] = y] \/ chan' = [chan EXCEPT ![c] = z]
  BY DEF ReceiveBlocks
<1> HIDE DEF y, z, me
<1>7. CASE chan' = [chan EXCEPT ![c] = y]
  <2>1. Shape' /\ Moved({}, {TokenAt("want", me, Zero)})
    BY <1>1, <1>4, <1>5, <1>7, QuietMoves
  <2> QED BY <2>1 DEF me
<1>8. CASE chan' = [chan EXCEPT ![c] = z]
  <2>1. Shape' /\ Moved({}, {TokenAt("wantOk", me, Zero)})
    BY <1>1, <1>4, <1>5, <1>8, QuietMoves
  <2> QED BY <2>1 DEF me
<1> QED BY <1>6, <1>7, <1>8

\* A receive that serves a blocked sender, directly or by way of the buffer.
LEMMA ServesMoves ==
  ASSUME TypeOK, Shape, Awaited, NEW c \in Chans, chan[c].senders # <<>>,
         NEW x \in {ShiftBuffer(chan[c]), ShiftSender(chan[c])},
         chan' = [chan EXCEPT ![c] = x], micro' = micro \o UnblockSender(chan[c]),
         timers' = timers, done' = done
  PROVE  /\ Shape'
         /\ Moved({OfferToken(Head(chan[c].senders))},
                  {TokenAt("ack", Head(chan[c].senders).t, Head(chan[c].senders).v)})
         /\ Head(chan[c].senders) \in SenderTask /\ Head(chan[c].senders).t.c = c
<1> DEFINE y == chan[c]
           s == Head(y.senders)
           j == SentJob(s.t, s.v)
<1>1. y \in ChannelState /\ QueueShape(c, y) /\ y.senders # <<>>
  BY DEF TypeOK, Shape
<1>2. s \in SenderTask /\ s.t.c = c
  BY <1>1, ChannelSteps, ShapeSteps
<1>3. s.t \in Task /\ s.v \in Nat /\ s.v # Zero
  BY <1>2 DEF SenderTask, Value, Zero
<1>4. Change(QueueTokens(y), QueueTokens(x), {OfferToken(s)}, {}) /\ QueueShape(c, x)
  BY <1>1, QueueChanges, ShapeSteps
<1>5. /\ j \in Job /\ j.kind = "sent" /\ j.v = s.v /\ j.to = s.t /\ j.from = s.t
      /\ JobTokens(j) = {TokenAt("ack", s.t, s.v)}
  BY <1>3, JobTypes DEF SentJob, JobTokens
<1>6. micro' = Append(micro, j)
  <2>1. micro \in Seq(Job) /\ UnblockSender(y) = <<j>>
    BY <1>1 DEF TypeOK, UnblockSender
  <2> HIDE DEF j
  <2> QED BY <1>5, <2>1
<1>7. OfferToken(s).t = s.t
  BY DEF OfferToken, TokenAt
<1> HIDE DEF y, s, j
<1>8. \A k \in ToSet(micro) : ToKey[k] # j.to.g /\ FromKey[k] # j.from.g
  <2>1. OfferToken(s) \in QueuedTokens
    BY <1>4 DEF Change, QueuedTokens, y
  <2>2. OfferToken(s) \in Tokens /\ OfferToken(s) \notin MicroTokens
    BY <2>1, TokenPlaces DEF Tokens
  <2>3. \A z \in MicroTokens : z.t.g # s.t.g
    BY <1>7, <2>2, OneComponent
  <2>4. \A k \in ToSet(micro) : ToKey[k] # s.t.g /\ FromKey[k] # s.t.g
    BY <2>3, Elsewhere
  <2> QED BY <1>5, <2>4
<1>9. MicroShape' /\ Change(MicroTokens, MicroTokens', {}, JobTokens(j))
  BY <1>3, <1>5, <1>6, <1>8, MicroJoins
<1>10. Shape' /\ Moved({OfferToken(s)}, {} \cup JobTokens(j))
  BY <1>4, <1>9, CallMoves DEF y
<1>11. {} \cup JobTokens(j) = JobTokens(j)
  OBVIOUS
<1> QED BY <1>2, <1>5, <1>10, <1>11 DEF y, s

\* A receive from the buffer with no sender blocked.
LEMMA UnbuffersMoves ==
  ASSUME TypeOK, Shape, NEW c \in Chans, chan[c].senders = <<>>,
         chan' = [chan EXCEPT ![c] = ShiftBuffer(chan[c])],
         micro' = micro \o UnblockSender(chan[c]), timers' = timers, done' = done
  PROVE  Shape' /\ Moved({}, {})
<1>1. chan[c] \in ChannelState /\ QueueShape(c, chan[c])
  BY DEF TypeOK, Shape
<1>2. QueueShape(c, ShiftBuffer(chan[c]))
      /\ Change(QueueTokens(chan[c]), QueueTokens(ShiftBuffer(chan[c])), {}, {})
  BY <1>1, QueueChanges, ShapeSteps
<1>3. micro' = micro
  BY DEF UnblockSender, TypeOK
<1> QED BY <1>2, <1>3, QuietMoves

\* A send into the buffer.
LEMMA BuffersMoves ==
  ASSUME TypeOK, Shape, NEW g \in G, NEW c \in Chans, SendBuffers(g, c)
  PROVE  Shape' /\ Moved({}, {})
<1> DEFINE x == [chan[c] EXCEPT !.buffer = Append(chan[c].buffer, NextValue)]
<1>1. chan[c] \in ChannelState /\ QueueShape(c, chan[c])
  BY DEF TypeOK, Shape
<1>2. QueueShape(c, x) /\ Change(QueueTokens(chan[c]), QueueTokens(x), {}, {})
  BY <1>1, QueueChanges, ShapeSteps
<1>3. chan' = [chan EXCEPT ![c] = x] /\ micro' = micro /\ timers' = timers /\ done' = done
  BY DEF SendBuffers
<1> HIDE DEF x
<1> QED BY <1>2, <1>3, QuietMoves

\* A call that leaves the queues alone.
LEMMA NothingMoves ==
  ASSUME TypeOK, Shape, chan' = chan, micro' = micro, timers' = timers, done' = done
  PROVE  Shape' /\ Moved({}, {})
<1>1. Shape'
  BY ShapeStays DEF Shape
<1>2. Moved({} \cup {} \cup {} \cup {}, {} \cup {} \cup {} \cup {})
  BY TokensStay, ComponentMoves
<1>3. {} \cup {} \cup {} \cup {} = {}
  OBVIOUS
<1> QED BY <1>1, <1>2, <1>3

\* close(): a timer for each waiter takes its place.
LEMMA CloseMoves ==
  ASSUME TypeOK, Shape, Awaited, NEW g \in G, NEW c \in Chans, Close(g, c)
  PROVE  Shape' /\ Moved(QueueTokens(chan[c]), CloseTokens(chan[c]))
<1> DEFINE x == chan[c]
           m == CloseWakes(x)
<1>1. /\ chan' = [chan EXCEPT ![c] = CloseChannel(x)] /\ timers' = timers \o m
      /\ micro' = micro /\ done' = done
  BY DEF Close
<1>2. x \in ChannelState /\ QueueShape(c, x)
  BY DEF TypeOK, Shape
<1>3. /\ QueueShape(c, CloseChannel(x))
      /\ Change(QueueTokens(x), QueueTokens(CloseChannel(x)), QueueTokens(x), {})
  BY <1>2, QueueChanges, ShapeSteps
<1>4. \A y \in QueueTokens(x) : y \in QueuedTokens
  BY DEF QueuedTokens
<1>5. \A y, z \in QueueTokens(x) : y.t.g = z.t.g => y = z
  BY <1>4 DEF Awaited, Tokens
<1>6. /\ m \in Seq(Job) /\ JobsTokens(m) = CloseTokens(x) /\ Keyed(m, ToKey)
      /\ \A j \in ToSet(m) :
           \/ \E s \in ToSet(x.senders) : j = ClosedJob(s)
           \/ \E t \in ToSet(x.receivers) \cup ToSet(x.receiversWithOk) : j = ZeroJob(t)
  BY <1>2, <1>5, CloseSteps
<1>7. /\ timers \in Seq(Job) /\ TimerShape
  BY DEF TypeOK, Shape
<1>s. x.senders \in Seq(SenderTask) /\ ToSet(x.senders) \subseteq SenderTask
      /\ x.receivers \in Seq(Task) /\ x.receiversWithOk \in Seq(Task)
      /\ ToSet(x.receivers) \subseteq Task /\ ToSet(x.receiversWithOk) \subseteq Task
  <2>1. /\ x.senders \in Seq(SenderTask) /\ x.receivers \in Seq(Task)
        /\ x.receiversWithOk \in Seq(Task)
    BY <1>2, ChannelFields
  <2> HIDE DEF x
  <2> QED BY <2>1, SetOfSeq
<1>8. \A j \in ToSet(m) : /\ j.kind \in {"zero", "closed"} /\ j.to = j.from
                          /\ j.kind = "zero" <=> j.v = Zero
                          /\ \E y \in QueueTokens(x) : y.t.g = j.to.g
                          /\ ToKey[j] = j.to.g
  <2> TAKE j \in ToSet(m)
  <2>0. j \in Job
    BY <1>6, SetOfSeq
  <2>1. ToKey[j] = j.to.g
    BY <2>0 DEF ToKey
  <2>2. CASE \E s \in ToSet(x.senders) : j = ClosedJob(s)
    <3> PICK s \in ToSet(x.senders) : j = ClosedJob(s)
      BY <2>2
    <3>1. s.v # Zero
      BY <1>s DEF SenderTask, Value
    <3>2. TokenAt("offer", s.t, s.v) \in QueueTokens(x)
      BY DEF QueueTokens
    <3> QED BY <2>1, <3>1, <3>2 DEF ClosedJob, TokenAt
  <2>3. CASE \E t \in ToSet(x.receivers) \cup ToSet(x.receiversWithOk) : j = ZeroJob(t)
    <3> PICK t \in ToSet(x.receivers) \cup ToSet(x.receiversWithOk) : j = ZeroJob(t)
      BY <2>3
    <3>2. TokenAt("want", t, Zero) \in QueueTokens(x) \/ TokenAt("wantOk", t, Zero) \in QueueTokens(x)
      BY DEF QueueTokens
    <3> QED BY <2>1, <3>2 DEF ZeroJob, TokenAt
  <2> QED BY <1>6, <2>2, <2>3
<1> HIDE DEF x, m
<1>9. \A j \in ToSet(timers), k \in ToSet(m) : ToKey[j] # ToKey[k]
  <2> TAKE j \in ToSet(timers), k \in ToSet(m)
  <2>1. PICK y \in QueueTokens(x) : y.t.g = k.to.g /\ ToKey[k] = k.to.g
    BY <1>8
  <2>2. y \in QueuedTokens
    BY <1>4
  <2>3. y \in Tokens /\ y \notin TimerTokens
    BY <2>2, TokenPlaces DEF Tokens
  <2>4. \A z \in TimerTokens : z.t.g # y.t.g
    BY <2>3, OneComponent
  <2>5. ToKey[j] # y.t.g
    BY <2>4, Elsewhere
  <2> QED BY <2>1, <2>5
<1>10. TimerShape'
  <2>1. Keyed(timers \o m, ToKey)
    BY <1>6, <1>7, <1>9, KeyedConcat DEF TimerShape
  <2>2. ToSet(timers \o m) = ToSet(timers) \cup ToSet(m)
    BY <1>6, <1>7, SetOfConcat
  <2> DEFINE q == timers \o m
  <2>3. timers' = q /\ ToSet(q) = ToSet(timers) \cup ToSet(m) /\ Keyed(q, ToKey)
    BY <1>1, <2>1, <2>2
  <2> HIDE DEF q
  <2> QED BY <1>7, <1>8, <2>3 DEF TimerShape
<1>11. Change(TimerTokens, TimerTokens', {}, CloseTokens(x))
  <2>1. TimerTokens = JobsTokens(timers) /\ TimerTokens' = JobsTokens(timers')
    BY DEF TimerTokens, JobsTokens
  <2>2. JobsTokens(timers \o m) = JobsTokens(timers) \cup JobsTokens(m)
    BY <1>6, <1>7, JobsSteps
  <2>3. TimerTokens' = TimerTokens \cup CloseTokens(x)
    BY <1>1, <1>6, <2>1, <2>2
  <2> QED BY <2>3 DEF Change
<1>12. Change(QueuedTokens, QueuedTokens', QueueTokens(x), {})
  BY <1>1, <1>3, QueuedMoves DEF x
<1>13. Moved(QueueTokens(x) \cup {} \cup {} \cup {}, {} \cup {} \cup CloseTokens(x) \cup {})
  BY <1>1, <1>11, <1>12, TokensStay, ComponentMoves
<1>14. /\ QueueTokens(x) \cup {} \cup {} \cup {} = QueueTokens(x)
       /\ {} \cup {} \cup CloseTokens(x) \cup {} = CloseTokens(x)
  OBVIOUS
<1>15. Moved(QueueTokens(x), CloseTokens(x))
  BY <1>13, <1>14
<1>16. Shape'
  <2>1. \A d \in Chans : QueueShape(d, chan[d])'
    BY <1>1, <1>3, OneShape DEF Shape, x
  <2> QED BY <1>1, <1>10, <2>1, ShapeStays DEF Shape
<1> QED BY <1>15, <1>16 DEF x

\* The goroutine that a token names still awaits that promise.
LEMMA TokenLive ==
  ASSUME Awaited, NEW x \in Tokens
  PROVE  Live(x.t) /\ pc[x.t.g] = "waiting" /\ op[x.t.g] = x.t.n
BY DEF Awaited, Live

\* The job at the head of the microtasks, and the queue without it.
LEMMA MicroHead ==
  ASSUME TypeOK, Shape, micro # <<>>
  PROVE  /\ Head(micro) \in Job /\ Head(micro).kind \in {"handoff", "sent"}
         /\ Head(micro).v # Zero /\ Head(micro).to.c = Head(micro).from.c
         /\ Head(micro).kind = "sent" => Head(micro).to = Head(micro).from
         /\ JobTokens(Head(micro)) \subseteq MicroTokens
         /\ Tail(micro) \in Seq(Job)
         /\ JobsTokens(Tail(micro)) = MicroTokens \ JobTokens(Head(micro))
         /\ Keyed(Tail(micro), ToKey) /\ Keyed(Tail(micro), FromKey)
         /\ ToSet(Tail(micro)) \subseteq ToSet(micro)
         /\ \A j \in ToSet(Tail(micro)) : /\ ToKey[j] # Head(micro).to.g
                                          /\ FromKey[j] # Head(micro).from.g
<1>0. micro \in Seq(Job) /\ MicroShape /\ Keyed(micro, ToKey) /\ Keyed(micro, FromKey)
  BY DEF TypeOK, Shape, MicroShape
<1>1. /\ Head(micro) \in ToSet(micro) /\ ToSet(Tail(micro)) \subseteq ToSet(micro)
      /\ Tail(micro) \in Seq(Job)
  BY <1>0, SetOfSeq, SeqSteps
<1>2. Head(micro) \in Job
  BY <1>0, <1>1, SetOfSeq
<1>3. /\ Keyed(Tail(micro), ToKey) /\ Keyed(Tail(micro), FromKey)
      /\ \A j \in ToSet(Tail(micro)) : /\ ToKey[j] # ToKey[Head(micro)]
                                       /\ FromKey[j] # FromKey[Head(micro)]
  BY <1>0, KeyedTail
<1>4. ToKey[Head(micro)] = Head(micro).to.g /\ FromKey[Head(micro)] = Head(micro).from.g
  BY <1>2 DEF ToKey, FromKey
<1>5. JobTokens(Head(micro)) \subseteq JobsTokens(micro)
      /\ JobsTokens(Tail(micro)) = JobsTokens(micro) \ JobTokens(Head(micro))
  BY <1>0, JobsSteps
<1>6. MicroTokens = JobsTokens(micro)
  BY DEF MicroTokens, JobsTokens
<1>7. /\ Head(micro).kind \in {"handoff", "sent"} /\ Head(micro).v # Zero
      /\ Head(micro).to.c = Head(micro).from.c
      /\ Head(micro).kind = "sent" => Head(micro).to = Head(micro).from
  BY <1>0, <1>1 DEF MicroShape
<1> QED BY <1>1, <1>2, <1>3, <1>4, <1>5, <1>6, <1>7

\* A settled promise keeps the shape of the results.
LEMMA SettleShape ==
  ASSUME TypeOK, Shape, NEW t \in Task, NEW kind \in {"sent", "received"}, NEW v \in Nat,
         v # Zero, Live(t), Settle(t, kind, v)
  PROVE  DoneShape' /\ Change(SettledTokens, SettledTokens', {}, {TokenAt(kind, t, v)})
<1> DEFINE o == [kind |-> kind, t |-> t, v |-> v]
<1>1. o.t = t /\ o.kind = kind /\ o.v = v
  OBVIOUS
<1>2. done' = [done EXCEPT ![t.g] = @ \cup {o}]
  BY DEF Settle
<1> HIDE DEF o
<1>3. \A h \in G : done'[h] = IF h = t.g THEN done[h] \cup {o} ELSE done[h]
  BY <1>2 DEF TypeOK
<1>4. \A h \in G : \A p \in done'[h] : p \in done[h] \/ (p = o /\ h = t.g)
  BY <1>3
<1>5. DoneShape'
  BY <1>1, <1>4 DEF Shape, DoneShape
<1>6. SettledTokens' = SettledTokens \cup {TokenAt(kind, t, v)}
  BY SettledMoves
<1> QED BY <1>5, <1>6 DEF Change

\* A microtask or a continuation: the channels and timers stay.
LEMMA RunMoves ==
  ASSUME TypeOK, Shape, chan' = chan, timers' = timers, MicroShape', DoneShape',
         NEW Rm, NEW Am, Change(MicroTokens, MicroTokens', Rm, Am),
         NEW Rs, NEW As, Change(SettledTokens, SettledTokens', Rs, As)
  PROVE  Shape' /\ Moved(Rm \cup Rs, Am \cup As)
<1>1. Shape'
  BY ShapeStays DEF Shape
<1>2. Moved({} \cup Rm \cup {} \cup Rs, {} \cup Am \cup {} \cup As)
  BY TokensStay, ComponentMoves
<1>3. {} \cup Rm \cup {} \cup Rs = Rm \cup Rs /\ {} \cup Am \cup {} \cup As = Am \cup As
  OBVIOUS
<1> QED BY <1>1, <1>2, <1>3

LEMMA HandoffMoves ==
  ASSUME TypeOK, Shape, Awaited, RunHandoff
  PROVE  /\ Shape'
         /\ Head(micro).to \in Task /\ Head(micro).from \in Task
         /\ Head(micro).to.c = Head(micro).from.c /\ Head(micro).v \in Nat
         /\ Moved({TokenAt("handoff", Head(micro).to, Head(micro).v),
                   TokenAt("hand", Head(micro).from, Head(micro).v)},
                  {TokenAt("ack", Head(micro).from, Head(micro).v),
                   TokenAt("received", Head(micro).to, Head(micro).v)})
<1> DEFINE h == Head(micro)
           m == Tail(micro)
           a == TokenAt("handoff", h.to, h.v)
           b == TokenAt("hand", h.from, h.v)
           e == TokenAt("ack", h.from, h.v)
           f == TokenAt("received", h.to, h.v)
           j == SentJob(h.from, h.v)
<1>1. /\ micro # <<>> /\ h.kind = "handoff" /\ Settle(h.to, "received", h.v)
      /\ micro' = Append(m, j) /\ chan' = chan /\ timers' = timers
  BY DEF RunHandoff
<1>2. /\ h \in Job /\ h.v # Zero /\ h.to.c = h.from.c
      /\ JobTokens(h) \subseteq MicroTokens
      /\ m \in Seq(Job) /\ JobsTokens(m) = MicroTokens \ JobTokens(h)
      /\ Keyed(m, ToKey) /\ Keyed(m, FromKey) /\ ToSet(m) \subseteq ToSet(micro)
      /\ \A k \in ToSet(m) : ToKey[k] # h.to.g /\ FromKey[k] # h.from.g
  BY <1>1, MicroHead
<1>3. /\ h.to \in Task /\ h.from \in Task /\ h.v \in Nat
  BY <1>2 DEF Job
<1>4. /\ j \in Job /\ j.kind = "sent" /\ j.v = h.v /\ j.to = h.from /\ j.from = h.from
      /\ JobTokens(j) = {e} /\ JobTokens(h) = {a, b}
      /\ ToKey[j] = h.from.g /\ FromKey[j] = h.from.g
  BY <1>1, <1>3, JobTypes DEF SentJob, JobTokens, ToKey, FromKey
<1>5. a.t = h.to /\ b.t = h.from /\ a # b /\ a.p = "handoff" /\ b.p = "hand"
  BY DEF TokenAt
<1> HIDE DEF h, m, a, b, e, f, j
<1>6. a \in Tokens /\ b \in Tokens /\ a \in MicroTokens /\ b \in MicroTokens
  BY <1>2, <1>4 DEF Tokens
<1>7. Live(h.to)
  BY <1>5, <1>6, TokenLive
<1>8. \A k \in ToSet(m) : ToKey[k] # h.from.g
  <2> TAKE k \in ToSet(m)
  <2>1. k \in ToSet(micro) /\ k \in Job
    BY <1>2, SetOfSeq
  <2>2. \A y \in JobTokens(k) : y \in JobsTokens(m)
    BY DEF JobsTokens
  <2>3. \E y \in JobTokens(k) : y.t = k.to
    BY DEF JobTokens, TokenAt
  <2>4. PICK y \in JobTokens(k) : y.t = k.to
    BY <2>3
  <2>5. y \in MicroTokens /\ y \notin JobTokens(h)
    BY <1>2, <2>2
  <2>6. y # b /\ y \in Tokens
    BY <1>4, <2>5 DEF Tokens
  <2>7. y.t.g # b.t.g
    BY <1>6, <2>6 DEF Awaited
  <2> QED BY <1>5, <2>1, <2>4, <2>7 DEF ToKey
<1>9. MicroShape'
  <2>1. Keyed(Append(m, j), ToKey) /\ Keyed(Append(m, j), FromKey)
    BY <1>2, <1>4, <1>8, KeyedAppend
  <2>2. ToSet(Append(m, j)) = ToSet(m) \cup {j}
    BY <1>2, <1>4, SetOfSeq
  <2> DEFINE q == Append(m, j)
  <2>3. micro' = q /\ ToSet(q) = ToSet(m) \cup {j} /\ Keyed(q, ToKey) /\ Keyed(q, FromKey)
    BY <1>1, <2>1, <2>2
  <2> HIDE DEF q
  <2>4. \A k \in ToSet(q) : k \in ToSet(micro) \/ k = j
    BY <1>2, <2>3
  <2> QED BY <1>2, <1>4, <2>3, <2>4 DEF Shape, MicroShape
<1>10. Change(MicroTokens, MicroTokens', {a, b}, {e})
  <2>1. MicroTokens' = JobsTokens(micro')
    BY DEF MicroTokens, JobsTokens
  <2>2. JobsTokens(Append(m, j)) = JobsTokens(m) \cup JobTokens(j)
    BY <1>2, <1>4, JobsSteps
  <2> QED BY <1>1, <1>2, <1>4, <2>1, <2>2 DEF Change
<1>11. DoneShape' /\ Change(SettledTokens, SettledTokens', {}, {f})
  BY <1>1, <1>2, <1>3, <1>7, SettleShape DEF f
<1>12. Shape' /\ Moved({a, b} \cup {}, {e} \cup {f})
  BY <1>1, <1>9, <1>10, <1>11, RunMoves
<1>13. {a, b} \cup {} = {a, b} /\ {e} \cup {f} = {e, f}
  OBVIOUS
<1> QED BY <1>2, <1>3, <1>12, <1>13 DEF h, a, b, e, f

LEMMA SentMoves ==
  ASSUME TypeOK, Shape, Awaited, RunSent
  PROVE  /\ Shape'
         /\ Head(micro).to \in Task /\ Head(micro).v \in Nat
         /\ Moved({TokenAt("ack", Head(micro).to, Head(micro).v)},
                  {TokenAt("sent", Head(micro).to, Head(micro).v)})
<1> DEFINE h == Head(micro)
           m == Tail(micro)
           a == TokenAt("ack", h.to, h.v)
           f == TokenAt("sent", h.to, h.v)
<1>1. /\ micro # <<>> /\ h.kind = "sent" /\ Settle(h.to, "sent", h.v)
      /\ micro' = m /\ chan' = chan /\ timers' = timers
  BY DEF RunSent
<1>2. /\ h \in Job /\ h.v # Zero
      /\ JobTokens(h) \subseteq MicroTokens
      /\ m \in Seq(Job) /\ JobsTokens(m) = MicroTokens \ JobTokens(h)
      /\ Keyed(m, ToKey) /\ Keyed(m, FromKey) /\ ToSet(m) \subseteq ToSet(micro)
  BY <1>1, MicroHead
<1>3. /\ h.to \in Task /\ h.v \in Nat
  BY <1>2 DEF Job
<1>4. JobTokens(h) = {a} /\ a.t = h.to
  BY <1>1 DEF JobTokens, TokenAt
<1> HIDE DEF h, m, a, f
<1>6. a \in Tokens
  BY <1>2, <1>4 DEF Tokens
<1>7. Live(h.to)
  BY <1>4, <1>6, TokenLive
<1>9. MicroShape'
  BY <1>1, <1>2 DEF Shape, MicroShape
<1>10. Change(MicroTokens, MicroTokens', {a}, {})
  <2>1. MicroTokens' = JobsTokens(micro')
    BY DEF MicroTokens, JobsTokens
  <2> QED BY <1>1, <1>2, <1>4, <2>1 DEF Change
<1>11. DoneShape' /\ Change(SettledTokens, SettledTokens', {}, {f})
  BY <1>1, <1>2, <1>3, <1>7, SettleShape DEF f
<1>12. Shape' /\ Moved({a} \cup {}, {} \cup {f})
  BY <1>1, <1>9, <1>10, <1>11, RunMoves
<1>13. {a} \cup {} = {a} /\ {} \cup {f} = {f}
  OBVIOUS
<1> QED BY <1>3, <1>12, <1>13 DEF h, a, f

LEMMA ResumeMoves ==
  ASSUME TypeOK, Shape, Awaited, NEW g \in G, NEW o \in done[g],
         chan' = chan, micro' = micro, timers' = timers, done' = [done EXCEPT ![g] = {}]
  PROVE  /\ Shape' /\ Moved({OutcomeToken(o)}, {})
         /\ o \in Outcome /\ o.kind \in {"sent", "received"} /\ o.t.g = g /\ o.v # Zero
         /\ OutcomeToken(o) \in Tokens
<1>1. o \in Outcome /\ o.kind \in {"sent", "received"} /\ o.t.g = g /\ o.v # Zero
  BY DEF TypeOK, Shape, DoneShape
<1>2. OutcomeToken(o) \in SettledTokens /\ OutcomeToken(o).t.g = g
  BY <1>1 DEF SettledTokens, OutcomeToken, TokenAt
<1>3. SettledTokens' = {x \in SettledTokens : x.t.g # g}
  BY SettledMoves
<1>4. \A x \in SettledTokens : x.t.g = g => x = OutcomeToken(o)
  BY <1>2 DEF Awaited, Tokens
<1>5. SettledTokens' = SettledTokens \ {OutcomeToken(o)}
  BY <1>2, <1>3, <1>4
<1>6. Change(SettledTokens, SettledTokens', {OutcomeToken(o)}, {})
  BY <1>2, <1>5 DEF Change
<1>7. DoneShape'
  <2>1. \A h \in G : done'[h] = IF h = g THEN {} ELSE done[h]
    BY DEF TypeOK
  <2> QED BY <2>1 DEF Shape, DoneShape
<1>8. MicroShape' /\ Change(MicroTokens, MicroTokens', {}, {})
  BY MicroStays
<1>9. Shape' /\ Moved({} \cup {OutcomeToken(o)}, {} \cup {})
  BY <1>6, <1>7, <1>8, RunMoves
<1>10. {} \cup {OutcomeToken(o)} = {OutcomeToken(o)} /\ {} \cup {} = {}
  OBVIOUS
<1> QED BY <1>1, <1>2, <1>9, <1>10 DEF Tokens

\* The token of a timer.
TimerToken(j) == TokenAt(j.kind, j.to, j.v)

LEMMA TimerMoves ==
  ASSUME TypeOK, Shape, Awaited, RunTimer
  PROVE  /\ Shape'
         /\ Head(timers) \in Job /\ Head(timers).kind \in {"zero", "closed"}
         /\ Head(timers).kind = "zero" <=> Head(timers).v = Zero
         /\ Moved({TimerToken(Head(timers))}, {})
         /\ TimerToken(Head(timers)) \in Tokens
<1> DEFINE h == Head(timers)
           m == Tail(timers)
           a == TimerToken(h)
<1>1. timers # <<>> /\ timers' = m /\ chan' = chan /\ micro' = micro /\ done' = done
  BY DEF RunTimer, TimerTurn
<1>0. timers \in Seq(Job) /\ TimerShape /\ Keyed(timers, ToKey)
  BY DEF TypeOK, Shape, TimerShape
<1>2. /\ h \in ToSet(timers) /\ m \in Seq(Job)
      /\ ToSet(m) = ToSet(timers) \ {h} /\ Keyed(m, ToKey)
      /\ \A j \in ToSet(m) : ToKey[j] # ToKey[h]
  <2>1. Tail(timers) \in Seq(Job)
    BY <1>0, <1>1, SeqSteps
  <2>2. Head(timers) \in ToSet(timers) /\ ToSet(Tail(timers)) = ToSet(timers) \ {Head(timers)}
    BY <1>0, <1>1, KeyedHead
  <2>3. /\ Keyed(Tail(timers), ToKey)
        /\ \A j \in ToSet(Tail(timers)) : ToKey[j] # ToKey[Head(timers)]
    BY <1>0, <1>1, KeyedTail
  <2> QED BY <2>1, <2>2, <2>3
<1>3. h \in Job
  BY <1>0, <1>2, SetOfSeq
<1>4. \A j \in ToSet(timers) : /\ j.kind \in {"zero", "closed"} /\ j.to = j.from
                               /\ j.kind = "zero" <=> j.v = Zero
  BY <1>0 DEF TimerShape
<1>5. \A j : j.kind \in {"zero", "closed"} => JobTokens(j) = {TimerToken(j)}
  BY DEF JobTokens, TimerToken
<1>6. \A j : j \in Job => ToKey[j] = TimerToken(j).t.g
  BY DEF TimerToken, TokenAt, ToKey
<1> HIDE DEF h, m
<1>7. \A j \in ToSet(m) : j \in Job
  BY <1>2, SetOfSeq
<1>8. \A x : x \in TimerTokens <=> \E j \in ToSet(timers) : x = TimerToken(j)
  BY <1>4, <1>5 DEF TimerTokens
<1>9. \A x : x \in TimerTokens' <=> \E j \in ToSet(m) : x = TimerToken(j)
  <2>1. TimerTokens' = UNION {JobTokens(j) : j \in ToSet(m)}
    BY <1>1 DEF TimerTokens
  <2> QED BY <1>2, <1>4, <1>5, <2>1
<1>10. Change(TimerTokens, TimerTokens', {TimerToken(h)}, {})
  <2>1. \A j \in ToSet(m) : TimerToken(j) # TimerToken(h)
    BY <1>2, <1>3, <1>6, <1>7
  <2>2. \A x : x \in TimerTokens' <=> x \in TimerTokens /\ x # TimerToken(h)
    BY <1>2, <1>8, <1>9, <2>1
  <2>3. TimerToken(h) \in TimerTokens
    BY <1>2, <1>8
  <2>4. TimerTokens' = TimerTokens \ {TimerToken(h)}
    BY <2>2
  <2> QED BY <2>3, <2>4 DEF Change
<1>11. TimerShape'
  BY <1>1, <1>2, <1>4 DEF TimerShape
<1>12. Shape'
  BY <1>1, <1>11, ShapeStays DEF Shape
<1>13. Moved({} \cup {} \cup {TimerToken(h)} \cup {}, {} \cup {} \cup {} \cup {})
  BY <1>1, <1>10, TokensStay, ComponentMoves
<1>14. {} \cup {} \cup {TimerToken(h)} \cup {} = {TimerToken(h)} /\ {} \cup {} \cup {} \cup {} = {}
  OBVIOUS
<1>15. Moved({TimerToken(h)}, {})
  BY <1>13, <1>14
<1>16. TimerToken(h) \in Tokens
  BY <1>2, <1>8 DEF Tokens
<1> QED BY <1>2, <1>3, <1>4, <1>12, <1>15, <1>16 DEF h

-----------------------------------------------------------------------------
(* Awaited: who waits has one token.                                       *)

\* The tokens that stay keep their goroutine waiting, those that come belong
\* to goroutines that had none or lost theirs.
LEMMA AwaitedMoves ==
  ASSUME Awaited, NEW R, NEW A, Moved(R, A),
         \A x \in A : x.t.i = 0 /\ pc'[x.t.g] = "waiting" /\ op'[x.t.g] = x.t.n,
         \A x, y \in A : x.t.g = y.t.g => x = y,
         \A x \in A : pc[x.t.g] = "ready" \/ \E w \in R : w.t.g = x.t.g,
         \A y \in Tokens : y \in R \/ (pc'[y.t.g] = pc[y.t.g] /\ op'[y.t.g] = op[y.t.g]),
         \A h \in G : pc'[h] = "waiting" =>
           (pc[h] = "waiting" /\ \A w \in R : w.t.g # h) \/ \E x \in A : x.t.g = h
  PROVE  Awaited'
<1>1. /\ \A x \in Tokens : /\ x.t.i = 0 /\ pc[x.t.g] = "waiting" /\ op[x.t.g] = x.t.n
      /\ \A x, y \in Tokens : x.t.g = y.t.g => x = y
      /\ \A g \in G : pc[g] = "waiting" => \E x \in Tokens : x.t.g = g
  BY DEF Awaited
<1>2. R \subseteq Tokens /\ \A x : x \in Tokens' <=> (x \in Tokens /\ x \notin R) \/ x \in A
  BY DEF Moved, Change
<1>3. \A x \in Tokens' : /\ x.t.i = 0 /\ pc'[x.t.g] = "waiting" /\ op'[x.t.g] = x.t.n
  BY <1>1, <1>2
<1>4. \A x \in A, y \in Tokens : y \in R \/ x.t.g # y.t.g
  BY <1>1, <1>2
<1>5. \A x, y \in Tokens' : x.t.g = y.t.g => x = y
  BY <1>1, <1>2, <1>4
<1>6. \A g \in G : pc'[g] = "waiting" => \E x \in Tokens' : x.t.g = g
  BY <1>1, <1>2
<1> QED BY <1>3, <1>5, <1>6 DEF Awaited

\* The goroutine that starts an operation.
LEMMA Starts ==
  ASSUME TypeOK, Awaited, NEW g \in G, NEW st, CanStart(g), Start(g, st)
  PROVE  /\ \A h \in G : pc'[h] = IF h = g THEN st ELSE pc[h]
         /\ \A h \in G : op'[h] = IF h = g THEN op[g] + 1 ELSE op[h]
         /\ pc[g] = "ready" /\ \A y \in Tokens : y.t.g # g
<1>1. pc[g] = "ready"
  BY DEF CanStart
<1>2. \A y \in Tokens : y.t.g # g
  BY <1>1, ReadyHasNone
<1> QED BY <1>1, <1>2 DEF Start, TypeOK

\* An operation that ends at once or never, and that trades no tokens.
LEMMA AwaitedAtOnce ==
  ASSUME TypeOK, Shape, Awaited, NEW g \in G, NEW st, CanStart(g), Start(g, st),
         st # "waiting", Moved({}, {})
  PROVE  Awaited'
<1>1. /\ \A h \in G : pc'[h] = IF h = g THEN st ELSE pc[h]
      /\ \A h \in G : op'[h] = IF h = g THEN op[g] + 1 ELSE op[h]
      /\ \A y \in Tokens : y.t.g # g
  BY Starts
<1>2. \A y \in Tokens : y.t.g \in G
  BY TokenPlaces DEF Token, Task
<1>3. \A y \in Tokens : pc'[y.t.g] = pc[y.t.g] /\ op'[y.t.g] = op[y.t.g]
  BY <1>1, <1>2
<1>4. \A h \in G : pc'[h] = "waiting" => pc[h] = "waiting"
  BY <1>1
<1> QED BY <1>3, <1>4, AwaitedMoves

\* An operation that ends at once, and hands one goroutine's token on.
LEMMA AwaitedServing ==
  ASSUME TypeOK, Shape, Awaited, NEW g \in G, CanStart(g), Start(g, "ready"),
         NEW R, NEW A, Moved(R, A),
         \A x \in A : \E w \in R : x.t = w.t, \A w \in R : \E x \in A : x.t = w.t,
         \A x, y \in A : x.t = y.t => x = y
  PROVE  Awaited'
<1>1. /\ \A h \in G : pc'[h] = IF h = g THEN "ready" ELSE pc[h]
      /\ \A h \in G : op'[h] = IF h = g THEN op[g] + 1 ELSE op[h]
      /\ \A y \in Tokens : y.t.g # g
  BY Starts
<1>2. \A y \in Tokens : y.t.g \in G
  BY TokenPlaces DEF Token, Task
<1>3. \A y \in Tokens : pc'[y.t.g] = pc[y.t.g] /\ op'[y.t.g] = op[y.t.g]
  BY <1>1, <1>2
<1>4. R \subseteq Tokens
  BY DEF Moved, Change
<1>5. \A x \in A : x.t.i = 0 /\ pc'[x.t.g] = "waiting" /\ op'[x.t.g] = x.t.n
  BY <1>3, <1>4 DEF Awaited
<1>6. \A x, y \in A : x.t.g = y.t.g => x = y
  BY <1>4 DEF Awaited
<1>7. \A h \in G : pc'[h] = "waiting" =>
           (pc[h] = "waiting" /\ \A w \in R : w.t.g # h) \/ \E x \in A : x.t.g = h
  BY <1>1
<1> QED BY <1>3, <1>5, <1>6, <1>7, AwaitedMoves

\* A job that hands tokens on.
LEMMA AwaitedJob ==
  ASSUME TypeOK, Shape, Awaited, pc' = pc, op' = op,
         NEW R, NEW A, Moved(R, A),
         \A x \in A : \E w \in R : x.t = w.t, \A w \in R : \E x \in A : x.t = w.t,
         \A x, y \in A : x.t = y.t => x = y
  PROVE  Awaited'
<1>4. R \subseteq Tokens
  BY DEF Moved, Change
<1>5. \A x \in A : x.t.i = 0 /\ pc'[x.t.g] = "waiting" /\ op'[x.t.g] = x.t.n
  BY <1>4 DEF Awaited
<1>6. \A x, y \in A : x.t.g = y.t.g => x = y
  BY <1>4 DEF Awaited
<1> QED BY <1>5, <1>6, AwaitedMoves

\* An operation that blocks, and takes a place; a receiver it serves keeps
\* waiting for the value.
LEMMA AwaitedBlocks ==
  ASSUME TypeOK, Shape, Awaited, NEW g \in G, NEW c \in Chans, CanStart(g), Start(g, "waiting"),
         NEW R, NEW B, NEW me, me.t = TaskOf(g, c, 0), Moved(R, B \cup {me}),
         \A x \in B : \E w \in R : x.t = w.t, \A w \in R : \E x \in B : x.t = w.t,
         \A x, y \in B : x.t = y.t => x = y
  PROVE  Awaited'
<1>1. /\ \A h \in G : pc'[h] = IF h = g THEN "waiting" ELSE pc[h]
      /\ \A h \in G : op'[h] = IF h = g THEN op[g] + 1 ELSE op[h]
      /\ \A y \in Tokens : y.t.g # g
      /\ pc[g] = "ready"
  BY Starts
<1>2. \A y \in Tokens : y.t.g \in G
  BY TokenPlaces DEF Token, Task
<1>3. \A y \in Tokens : pc'[y.t.g] = pc[y.t.g] /\ op'[y.t.g] = op[y.t.g]
  BY <1>1, <1>2
<1>4. R \subseteq Tokens
  BY DEF Moved, Change
<1>m. me.t.g = g /\ me.t.n = op[g] + 1 /\ me.t.i = 0
  BY DEF TaskOf
<1>5. \A x \in B : x.t.i = 0 /\ pc'[x.t.g] = "waiting" /\ op'[x.t.g] = x.t.n /\ x.t.g # g
  BY <1>1, <1>3, <1>4 DEF Awaited
<1>6. \A x, y \in B : x.t.g = y.t.g => x = y
  BY <1>4 DEF Awaited
<1> DEFINE A == B \cup {me}
<1>7. \A x \in A : x.t.i = 0 /\ pc'[x.t.g] = "waiting" /\ op'[x.t.g] = x.t.n
  BY <1>1, <1>m, <1>5
<1>8. \A x, y \in A : x.t.g = y.t.g => x = y
  BY <1>m, <1>5, <1>6
<1>9. \A x \in A : pc[x.t.g] = "ready" \/ \E w \in R : w.t.g = x.t.g
  BY <1>1, <1>m
<1>10. \A h \in G : pc'[h] = "waiting" =>
           (pc[h] = "waiting" /\ \A w \in R : w.t.g # h) \/ \E x \in A : x.t.g = h
  BY <1>1, <1>m
<1> HIDE DEF A
<1>11. Moved(R, A)
  BY DEF A
<1> QED BY <1>3, <1>7, <1>8, <1>9, <1>10, <1>11, AwaitedMoves

\* A goroutine that goes on gives up its token.
LEMMA AwaitedContinues ==
  ASSUME TypeOK, Shape, Awaited, NEW g \in G, NEW x \in Tokens, x.t.g = g, Moved({x}, {}),
         pc' = [pc EXCEPT ![g] = "ready"], op' = op
  PROVE  Awaited'
<1>1. \A h \in G : pc'[h] = IF h = g THEN "ready" ELSE pc[h]
  BY DEF TypeOK
<1>2. \A y \in Tokens : y.t.g \in G /\ (y.t.g = g => y = x)
  BY TokenPlaces DEF Token, Task, Awaited
<1>3. \A y \in Tokens : y \in {x} \/ (pc'[y.t.g] = pc[y.t.g] /\ op'[y.t.g] = op[y.t.g])
  BY <1>1, <1>2
<1>4. \A h \in G : pc'[h] = "waiting" => pc[h] = "waiting" /\ \A w \in {x} : w.t.g # h
  BY <1>1
<1> QED BY <1>3, <1>4, AwaitedMoves

-----------------------------------------------------------------------------
(* Ordered: the values of a channel leave it in the order of their sends.  *)

LEMMA IncreasingSteps ==
  ASSUME NEW s \in Seq(Value), Increasing(s)
  PROVE  /\ \A v \in Value : (\A d \in ToSet(s) : d < v) => Increasing(Append(s, v))
         /\ s # <<>> => Increasing(Tail(s)) /\ \A v \in ToSet(Tail(s)) : Head(s) < v
<1>1. ASSUME NEW v \in Value, \A d \in ToSet(s) : d < v
      PROVE  Increasing(Append(s, v))
  <2>1. \A k \in 1..Len(s) : s[k] < v
    BY <1>1, SetOfSeq
  <2>2. \A k \in 1..Len(Append(s, v)) :
           \/ k \in 1..Len(s) /\ Append(s, v)[k] = s[k]
           \/ k = Len(s) + 1 /\ Append(s, v)[k] = v
    BY SeqSteps
  <2>3. Len(s) \in Nat
    OBVIOUS
  <2> QED BY <2>1, <2>2, <2>3 DEF Increasing
<1>2. ASSUME s # <<>>
      PROVE  Increasing(Tail(s)) /\ \A v \in ToSet(Tail(s)) : Head(s) < v
  <2>1. /\ Head(s) = s[1] /\ Len(s) >= 1 /\ Len(s) \in Nat
        /\ Tail(s) \in Seq(Value) /\ Len(Tail(s)) = Len(s) - 1
        /\ \A k \in 1..Len(Tail(s)) : k + 1 \in 2..Len(s) /\ Tail(s)[k] = s[k + 1]
    BY <1>2, SeqSteps
  <2>2. Increasing(Tail(s))
    BY <2>1 DEF Increasing
  <2>3. \A k \in 1..Len(Tail(s)) : Head(s) < Tail(s)[k]
    BY <2>1 DEF Increasing
  <2>4. \A v \in ToSet(Tail(s)) : \E k \in 1..Len(Tail(s)) : Tail(s)[k] = v
    BY <2>1, SetOfSeq
  <2> QED BY <2>2, <2>3, <2>4
<1> QED BY <1>1, <1>2

\* A step takes no value back, places only the value of a send of its own, and
\* wakes no channel that had its end.
Onward ==
  /\ \A d \in Chans : /\ Kept(d) \subseteq Kept(d)'
                      /\ TakenSet(d) \subseteq TakenSet(d)'
                      /\ Placed(d)' \subseteq Placed(d) \cup {NextValue}
                      /\ Exhausted(d) => Exhausted(d)'
  /\ \A v \in 1..Len(sent) : v \in 1..Len(sent') /\ sent'[v].c = sent[v].c

LEMMA ValuesStay ==
  ASSUME Ordered,
         \A d \in Chans : /\ LineOf(chan'[d]) = LineOf(chan[d])
                          /\ chan'[d].buffer = chan[d].buffer
                          /\ chan'[d].closed = chan[d].closed,
         taken' = taken,
         \A v \in 1..Len(sent) : v \in 1..Len(sent') /\ sent'[v].c = sent[v].c
  PROVE  Onward /\ Ordered'
<1>1. \A d \in Chans : /\ Kept(d)' = Kept(d) /\ TakenSet(d)' = TakenSet(d)
                       /\ LineSet(d)' = LineSet(d) /\ Placed(d)' = Placed(d)
                       /\ Exhausted(d)' = Exhausted(d)
                       /\ Increasing(LineOf(chan[d]))' = Increasing(LineOf(chan[d]))
  BY DEF Kept, TakenSet, LineSet, Placed, Exhausted, LineOf, Increasing
<1>2. Onward
  BY <1>1 DEF Onward
<1>3. Ordered'
  BY <1>1 DEF Ordered
<1> QED BY <1>2, <1>3

\* What the values of one channel become, by sets.
LEMMA OneChannelValues ==
  ASSUME TypeOK, Ordered, NEW c \in Chans, NEW x, chan' = [chan EXCEPT ![c] = x],
         NEW T, \A d \in Chans : ToSet(taken'[d]) = IF d = c THEN T ELSE TakenSet(d),
         \A v \in 1..Len(sent) : v \in 1..Len(sent') /\ sent'[v].c = sent[v].c,
         TakenSet(c) \subseteq T,
         Kept(c) \subseteq ToSet(x.buffer) \cup T,
         ToSet(LineOf(x)) \cup T \subseteq Placed(c) \cup {NextValue},
         Exhausted(c) => x.closed /\ LineOf(x) = <<>>,
         Increasing(LineOf(x)),
         \A v \in ToSet(LineOf(x)) \cup T : v \in 1..Len(sent') /\ sent'[v].c = c,
         \A d \in T, v \in ToSet(LineOf(x)) : d < v
  PROVE  Onward /\ Ordered'
<1>1. \A d \in Chans : /\ LineOf(chan'[d]) = IF d = c THEN LineOf(x) ELSE LineOf(chan[d])
                       /\ chan'[d].buffer = IF d = c THEN x.buffer ELSE chan[d].buffer
                       /\ chan'[d].closed = IF d = c THEN x.closed ELSE chan[d].closed
  <2>1. \A d \in Chans : chan'[d] = IF d = c THEN x ELSE chan[d]
    BY DEF TypeOK
  <2> QED BY <2>1
<1>2. \A d \in Chans : d # c =>
        /\ Kept(d)' = Kept(d) /\ TakenSet(d)' = TakenSet(d)
        /\ LineSet(d)' = LineSet(d) /\ Placed(d)' = Placed(d)
        /\ Exhausted(d)' = Exhausted(d)
        /\ Increasing(LineOf(chan[d]))' = Increasing(LineOf(chan[d]))
  <2> TAKE d \in Chans
  <2> HAVE d # c
  <2>1. /\ LineOf(chan'[d]) = LineOf(chan[d]) /\ chan'[d].buffer = chan[d].buffer
        /\ chan'[d].closed = chan[d].closed /\ ToSet(taken'[d]) = ToSet(taken[d])
    BY <1>1 DEF TakenSet
  <2> QED BY <2>1 DEF Kept, TakenSet, LineSet, Placed, Exhausted, Increasing, LineOf
<1>3. /\ LineOf(chan'[c]) = LineOf(x) /\ chan'[c].buffer = x.buffer /\ chan'[c].closed = x.closed
      /\ ToSet(taken'[c]) = T
  BY <1>1
<1>4. /\ Kept(c)' = ToSet(x.buffer) \cup T /\ TakenSet(c)' = T
      /\ LineSet(c)' = ToSet(LineOf(x)) /\ Placed(c)' = ToSet(LineOf(x)) \cup T
      /\ Exhausted(c)' = (x.closed /\ LineOf(x) = <<>>)
      /\ Increasing(LineOf(chan[c]))' = Increasing(LineOf(x))
  BY <1>3 DEF Kept, TakenSet, LineSet, Placed, Exhausted, Increasing, LineOf
<1>5. Onward
  <2> SUFFICES ASSUME NEW d \in Chans
               PROVE  /\ Kept(d) \subseteq Kept(d)'
                      /\ TakenSet(d) \subseteq TakenSet(d)'
                      /\ Placed(d)' \subseteq Placed(d) \cup {NextValue}
                      /\ Exhausted(d) => Exhausted(d)'
    BY DEF Onward
  <2>1. CASE d = c
    BY <1>4, <2>1
  <2>2. CASE d # c
    BY <1>2, <2>2
  <2> QED BY <2>1, <2>2
<1>6. Ordered'
  <2>1. \A d \in Chans : d # c =>
          /\ Increasing(LineOf(chan[d]))'
          /\ \A v \in Placed(d)' : v \in 1..Len(sent') /\ sent'[v].c = d
          /\ \A e \in TakenSet(d)', v \in LineSet(d)' : e < v
    BY <1>2 DEF Ordered
  <2>2. /\ Increasing(LineOf(chan[c]))'
        /\ \A v \in Placed(c)' : v \in 1..Len(sent') /\ sent'[v].c = c
        /\ \A e \in TakenSet(c)', v \in LineSet(c)' : e < v
    <3>1. \A v \in Placed(c)' : v \in 1..Len(sent') /\ sent'[v].c = c
      BY <1>4
    <3>2. \A e \in TakenSet(c)', v \in LineSet(c)' : e < v
      BY <1>4
    <3>3. Increasing(LineOf(chan[c]))'
      BY <1>4
    <3> QED BY <3>1, <3>2, <3>3
  <2> QED BY <2>1, <2>2 DEF Ordered
<1> QED BY <1>5, <1>6

\* The history of a send.
LEMMA Records ==
  ASSUME TypeOK, NEW c \in Chans, NEW st \in {"pending", "returned", "panicked", "withdrawn"},
         RecordSend(c, st)
  PROVE  /\ Len(sent) \in Nat /\ Len(sent') = NextValue /\ NextValue = Len(sent) + 1
         /\ NextValue \in Value
         /\ \A v \in 1..Len(sent) : v \in 1..Len(sent') /\ sent'[v] = sent[v]
         /\ NextValue \in 1..Len(sent') /\ NextValue \notin 1..Len(sent)
         /\ sent'[NextValue] = [c |-> c, st |-> st]
         /\ sent'[NextValue].c = c /\ sent'[NextValue].st = st
<1> DEFINE r == [c |-> c, st |-> st]
<1>1. sent \in Seq(SendRecord) /\ r \in SendRecord /\ sent' = Append(sent, r)
  BY DEF TypeOK, SendRecord, RecordSend
<1> HIDE DEF r
<1>2. /\ Len(sent) \in Nat /\ Len(sent') = Len(sent) + 1
      /\ \A v \in 1..Len(sent) : sent'[v] = sent[v]
      /\ sent'[Len(sent) + 1] = r
  BY <1>1, SeqSteps
<1> QED BY <1>2 DEF NextValue, Value, Zero, r

LEMMA Takes ==
  ASSUME TypeOK, NEW c \in Chans, NEW v \in Value, Take(c, v)
  PROVE  \A d \in Chans : ToSet(taken'[d]) = IF d = c THEN TakenSet(c) \cup {v} ELSE TakenSet(d)
<1>1. taken \in [Chans -> Seq(Value)]
  BY DEF TypeOK
<1>2. \A d \in Chans : taken'[d] = IF d = c THEN Append(taken[c], v) ELSE taken[d]
  BY <1>1 DEF Take
<1>3. ToSet(Append(taken[c], v)) = ToSet(taken[c]) \cup {v}
  BY <1>1, SetOfSeq
<1> QED BY <1>2, <1>3 DEF TakenSet

\* What the line of a channel holds.
LEMMA LineFacts ==
  ASSUME TypeOK, QueueDiscipline, Ordered, NEW c \in Chans
  PROVE  /\ chan[c] \in ChannelState /\ Disciplined(c, chan[c])
         /\ LineOf(chan[c]) \in Seq(Value) /\ Increasing(LineOf(chan[c]))
         /\ \A v \in Placed(c) : v \in 1..Len(sent) /\ sent[v].c = c
         /\ \A d \in TakenSet(c), v \in LineSet(c) : d < v
         /\ NextValue \notin Placed(c) /\ \A v \in Placed(c) : v < NextValue
         /\ NextValue \in Value
<1>1. chan[c] \in ChannelState /\ Disciplined(c, chan[c])
  BY DEF TypeOK, QueueDiscipline
<1>2. LineOf(chan[c]) \in Seq(Value)
  BY <1>1, LineSteps
<1>3. Len(sent) \in Nat /\ NextValue = Len(sent) + 1 /\ NextValue \in Value
  BY DEF TypeOK, NextValue, Value, Zero
<1>4. /\ Increasing(LineOf(chan[c]))
      /\ \A v \in Placed(c) : v \in 1..Len(sent) /\ sent[v].c = c
      /\ \A d \in TakenSet(c), v \in LineSet(c) : d < v
  BY DEF Ordered
<1>5. NextValue \notin Placed(c) /\ \A v \in Placed(c) : v < NextValue
  BY <1>3, <1>4
<1> QED BY <1>1, <1>2, <1>3, <1>4, <1>5

\* A value that joins the line, buffered or offered.
LEMMA ValueJoins ==
  ASSUME TypeOK, QueueDiscipline, Ordered, NEW c \in Chans, NEW x,
         chan' = [chan EXCEPT ![c] = x], ~chan[c].closed,
         LineOf(x) = Append(LineOf(chan[c]), NextValue),
         ToSet(chan[c].buffer) \subseteq ToSet(x.buffer), taken' = taken,
         NEW st \in {"pending", "returned", "panicked", "withdrawn"}, RecordSend(c, st)
  PROVE  Onward /\ Ordered'
<1> DEFINE l == LineOf(chan[c])
           n == NextValue
<1>1. /\ l \in Seq(Value) /\ Increasing(l) /\ n \in Value
      /\ \A v \in Placed(c) : v \in 1..Len(sent) /\ sent[v].c = c /\ v < n
      /\ \A d \in TakenSet(c), v \in LineSet(c) : d < v
  BY LineFacts
<1>2. /\ \A v \in 1..Len(sent) : v \in 1..Len(sent') /\ sent'[v] = sent[v]
      /\ n \in 1..Len(sent') /\ sent'[n].c = c
  BY Records
<1>3. ToSet(l) = LineSet(c) /\ Placed(c) = LineSet(c) \cup TakenSet(c)
      /\ Kept(c) = ToSet(chan[c].buffer) \cup TakenSet(c)
  BY DEF LineSet, Placed, Kept
<1> HIDE DEF l, n
<1>4. ToSet(LineOf(x)) = LineSet(c) \cup {n}
  BY <1>1, <1>3, SetOfSeq DEF l, n
<1>5. Increasing(LineOf(x))
  <2>1. \A v \in ToSet(l) : v < n
    BY <1>1, <1>3
  <2> QED BY <1>1, <2>1, IncreasingSteps DEF l, n
<1>6. \A d \in Chans : ToSet(taken'[d]) = IF d = c THEN TakenSet(c) ELSE TakenSet(d)
  BY DEF TakenSet
<1>7. \A v \in ToSet(LineOf(x)) \cup TakenSet(c) : v \in 1..Len(sent') /\ sent'[v].c = c
  BY <1>1, <1>2, <1>3, <1>4
<1>8. \A d \in TakenSet(c), v \in ToSet(LineOf(x)) : d < v
  BY <1>1, <1>3, <1>4
<1>9. Kept(c) \subseteq ToSet(x.buffer) \cup TakenSet(c)
  BY <1>3
<1>10. ToSet(LineOf(x)) \cup TakenSet(c) \subseteq Placed(c) \cup {NextValue}
  BY <1>3, <1>4 DEF n
<1>11. Exhausted(c) => x.closed /\ LineOf(x) = <<>>
  BY DEF Exhausted
<1>12. \A v \in 1..Len(sent) : v \in 1..Len(sent') /\ sent'[v].c = sent[v].c
  BY <1>2
<1> DEFINE T == TakenSet(c)
<1>13. T = TakenSet(c)
  OBVIOUS
<1> HIDE DEF T
<1> QED BY <1>5, <1>6, <1>7, <1>8, <1>9, <1>10, <1>11, <1>12, <1>13, OneChannelValues

\* A value handed to a waiting receiver.
LEMMA ValueHandedOff ==
  ASSUME TypeOK, QueueDiscipline, Ordered, NEW g \in G, NEW c \in Chans, SendHandsOff(g, c)
  PROVE  /\ Onward /\ Ordered' /\ \A v \in TakenSet(c) : v < NextValue
         /\ \A d \in Chans : TakenSet(d)' = IF d = c THEN TakenSet(c) \cup {NextValue}
                                                     ELSE TakenSet(d)
<1> DEFINE x == ShiftReceiver(chan[c])
           T == TakenSet(c) \cup {NextValue}
<1>0. "pending" \in {"pending", "returned", "panicked", "withdrawn"}
  OBVIOUS
<1>1. /\ chan' = [chan EXCEPT ![c] = x] /\ HasReceiver(chan[c]) /\ ~chan[c].closed
      /\ RecordSend(c, "pending") /\ Take(c, NextValue)
  BY DEF SendHandsOff
<1>2. /\ chan[c] \in ChannelState /\ Disciplined(c, chan[c]) /\ NextValue \in Value
      /\ \A v \in Placed(c) : v \in 1..Len(sent) /\ sent[v].c = c /\ v < NextValue
  BY LineFacts
<1>3. LineOf(chan[c]) = <<>> /\ LineOf(x) = <<>>
  BY <1>1, <1>2, LineSteps
<1>4. x.buffer = chan[c].buffer
  <2>1. chan[c] = [buffer |-> chan[c].buffer, closed |-> chan[c].closed,
                   senders |-> chan[c].senders, receivers |-> chan[c].receivers,
                   receiversWithOk |-> chan[c].receiversWithOk]
    BY <1>2 DEF ChannelState
  <2> QED BY <2>1 DEF ShiftReceiver
<1>5. /\ \A v \in 1..Len(sent) : v \in 1..Len(sent') /\ sent'[v] = sent[v]
      /\ NextValue \in 1..Len(sent') /\ sent'[NextValue].c = c
  BY <1>0, <1>1, Records
<1>6. \A d \in Chans : ToSet(taken'[d]) = IF d = c THEN T ELSE TakenSet(d)
  BY <1>1, <1>2, Takes
<1>7. ToSet(LineOf(x)) = {} /\ Increasing(LineOf(x))
  BY <1>3 DEF ToSet, Increasing
<1>8. Placed(c) = LineSet(c) \cup TakenSet(c) /\ Kept(c) = ToSet(chan[c].buffer) \cup TakenSet(c)
  BY DEF Placed, Kept
<1> HIDE DEF x
<1>9. /\ \A v \in T : v \in 1..Len(sent') /\ sent'[v].c = c
      /\ TakenSet(c) \subseteq T /\ Kept(c) \subseteq ToSet(x.buffer) \cup T
      /\ T \subseteq Placed(c) \cup {NextValue}
  BY <1>2, <1>4, <1>5, <1>8
<1> HIDE DEF T
<1>10. ~Exhausted(c)
  BY <1>1 DEF Exhausted
<1>11. Onward /\ Ordered'
  BY <1>1, <1>5, <1>6, <1>7, <1>9, <1>10, OneChannelValues
<1> QED BY <1>2, <1>6, <1>8, <1>11 DEF T, TakenSet

\* A receive takes the oldest value of the line.
LEMMA ValueTaken ==
  ASSUME TypeOK, QueueDiscipline, Ordered, NEW c \in Chans, NEW x, NEW v,
         chan' = [chan EXCEPT ![c] = x], x.closed = chan[c].closed,
         LineOf(chan[c]) # <<>>, v = Head(LineOf(chan[c])), LineOf(x) = Tail(LineOf(chan[c])),
         ToSet(chan[c].buffer) \subseteq ToSet(x.buffer) \cup {v}, Take(c, v), sent' = sent
  PROVE  /\ Onward /\ Ordered' /\ v \in Value /\ v \notin TakenSet(c)
         /\ \A d \in TakenSet(c) : d < v
         /\ \A d \in Chans : TakenSet(d)' = IF d = c THEN TakenSet(c) \cup {v} ELSE TakenSet(d)
<1> DEFINE l == LineOf(chan[c])
           m == LineOf(x)
           T == TakenSet(c) \cup {v}
<1>1. /\ l \in Seq(Value) /\ Increasing(l)
      /\ \A w \in Placed(c) : w \in 1..Len(sent) /\ sent[w].c = c
      /\ \A d \in TakenSet(c), w \in LineSet(c) : d < w
  BY LineFacts
<1>2. ToSet(l) = LineSet(c) /\ Placed(c) = LineSet(c) \cup TakenSet(c)
      /\ Kept(c) = ToSet(chan[c].buffer) \cup TakenSet(c)
  BY DEF LineSet, Placed, Kept
<1>3. l # <<>> /\ v = Head(l) /\ m = Tail(l)
  OBVIOUS
<1>e. ~Exhausted(c)
  BY DEF Exhausted
<1> HIDE DEF l, m
<1>4. Increasing(m) /\ \A w \in ToSet(m) : v < w
  BY <1>1, <1>3, IncreasingSteps
<1>5. ToSet(l) = ToSet(m) \cup {v} /\ v \in ToSet(l) /\ ToSet(l) \subseteq Value
  BY <1>1, <1>3, SetOfSeq
<1>6. \A d \in Chans : ToSet(taken'[d]) = IF d = c THEN T ELSE TakenSet(d)
  BY <1>5, Takes
<1>7. \A d \in TakenSet(c) : d < v
  BY <1>1, <1>2, <1>5
<1>n. \A w \in Placed(c) : w \in Nat
  BY <1>1
<1>8. v \notin TakenSet(c)
  BY <1>2, <1>7, <1>n
<1>9. /\ \A w \in ToSet(m) \cup T : w \in 1..Len(sent') /\ sent'[w].c = c
      /\ TakenSet(c) \subseteq T
      /\ ToSet(m) \cup T \subseteq Placed(c) \cup {NextValue}
      /\ Kept(c) \subseteq ToSet(x.buffer) \cup T
  BY <1>1, <1>2, <1>5
<1>10. \A d \in T, w \in ToSet(m) : d < w
  BY <1>1, <1>2, <1>4, <1>5
<1>11. \A w \in 1..Len(sent) : w \in 1..Len(sent') /\ sent'[w].c = sent[w].c
  OBVIOUS
<1> HIDE DEF T
<1>12. Onward /\ Ordered'
  BY <1>4, <1>6, <1>9, <1>10, <1>11, <1>e, OneChannelValues DEF m
<1> QED BY <1>5, <1>6, <1>7, <1>8, <1>12 DEF T, TakenSet

\* close(): the offered values leave the line, the buffered ones stay.
LEMMA ValueClosed ==
  ASSUME TypeOK, QueueDiscipline, Ordered, NEW g \in G, NEW c \in Chans, Close(g, c)
  PROVE  /\ Onward /\ Ordered'
         /\ \A s \in ToSet(chan[c].senders) : s.v \notin Placed(c)'
         /\ HasReceiver(chan[c]) => Exhausted(c)'
<1> DEFINE x == CloseChannel(chan[c])
           b == chan[c].buffer
           w == Offered(chan[c].senders)
           T == TakenSet(c)
<1>1. /\ chan' = [chan EXCEPT ![c] = x] /\ ~chan[c].closed /\ taken' = taken /\ sent' = sent
  BY DEF Close
<1>2. /\ chan[c] \in ChannelState /\ Disciplined(c, chan[c])
      /\ LineOf(chan[c]) \in Seq(Value) /\ Increasing(LineOf(chan[c]))
      /\ \A v \in Placed(c) : v \in 1..Len(sent) /\ sent[v].c = c
      /\ \A d \in TakenSet(c), v \in LineSet(c) : d < v
  BY LineFacts
<1>3. x.buffer = b /\ x.closed = TRUE /\ LineOf(x) = b
  <2>1. chan[c] = [buffer |-> chan[c].buffer, closed |-> chan[c].closed,
                   senders |-> chan[c].senders, receivers |-> chan[c].receivers,
                   receiversWithOk |-> chan[c].receiversWithOk]
    BY <1>2 DEF ChannelState
  <2> QED BY <1>2, <2>1, LineSteps DEF CloseChannel
<1>4. b \in Seq(Value) /\ chan[c].senders \in Seq(SenderTask) /\ w \in Seq(Value)
      /\ Len(w) = Len(chan[c].senders) /\ LineOf(chan[c]) = b \o w
  <2>1. b \in Seq(Value) /\ chan[c].senders \in Seq(SenderTask)
    BY <1>2, ChannelFields
  <2> QED BY <2>1, OfferedSteps DEF LineOf, Offered
<1>w. \A s \in ToSet(chan[c].senders) : s.v \in ToSet(w)
  <2> TAKE s \in ToSet(chan[c].senders)
  <2>1. PICK k \in 1..Len(chan[c].senders) : chan[c].senders[k] = s
    BY <1>4, SetOfSeq
  <2>2. w[k] = s.v
    BY <2>1 DEF Offered
  <2> HIDE DEF w
  <2> QED BY <1>4, <2>2, SetOfSeq
<1>5. Placed(c) = LineSet(c) \cup TakenSet(c) /\ Kept(c) = ToSet(b) \cup TakenSet(c)
      /\ LineSet(c) = ToSet(LineOf(chan[c])) /\ T = TakenSet(c)
  BY DEF Placed, Kept, LineSet
<1> HIDE DEF x, b, w
<1>6. /\ b \o w \in Seq(Value) /\ Len(b \o w) = Len(b) + Len(w)
      /\ Len(b) \in Nat /\ Len(w) \in Nat
      /\ \A k \in 1..Len(b) : (b \o w)[k] = b[k]
      /\ \A k \in (Len(b) + 1)..(Len(b) + Len(w)) : (b \o w)[k] = w[k - Len(b)]
  BY <1>4, ConcatParts, ZenonT(40)
<1> DEFINE l == b \o w
<1>7. /\ l = LineOf(chan[c]) /\ l \in Seq(Value) /\ Len(l) = Len(b) + Len(w)
      /\ \A k \in 1..Len(b) : l[k] = b[k]
      /\ \A k \in 1..Len(w) : l[Len(b) + k] = w[k]
  BY <1>4, <1>6
<1> HIDE DEF l
<1>8. Increasing(b) /\ \A v \in ToSet(b), u \in ToSet(w) : v < u
  <2>1. Increasing(l)
    BY <1>2, <1>7
  <2>2. Increasing(b)
    BY <1>6, <1>7, <2>1 DEF Increasing
  <2>3. \A k \in 1..Len(b), m \in 1..Len(w) : b[k] < w[m]
    BY <1>6, <1>7, <2>1, SMTT(30) DEF Increasing
  <2>4. /\ \A v \in ToSet(b) : \E k \in 1..Len(b) : b[k] = v
        /\ \A v \in ToSet(w) : \E k \in 1..Len(w) : w[k] = v
    BY <1>4, SetOfSeq
  <2> QED BY <2>2, <2>3, <2>4
<1>9. ToSet(l) = ToSet(b) \cup ToSet(w)
  BY <1>4, SetOfConcat DEF l
<1>10. \A d \in Chans : ToSet(taken'[d]) = IF d = c THEN T ELSE TakenSet(d)
  BY <1>1 DEF TakenSet
<1>11. /\ \A v \in ToSet(b) \cup T : v \in 1..Len(sent') /\ sent'[v].c = c
       /\ TakenSet(c) \subseteq T
       /\ ToSet(b) \cup T \subseteq Placed(c) \cup {NextValue}
       /\ Kept(c) \subseteq ToSet(b) \cup T
       /\ \A d \in T, v \in ToSet(b) : d < v
  BY <1>1, <1>2, <1>5, <1>7, <1>9
<1>e. ~Exhausted(c)
  BY <1>1 DEF Exhausted
<1>12. Onward /\ Ordered'
  <2>1. \A v \in 1..Len(sent) : v \in 1..Len(sent') /\ sent'[v].c = sent[v].c
    BY <1>1
  <2> HIDE DEF T
  <2> QED BY <1>1, <1>3, <1>8, <1>10, <1>11, <1>e, <2>1, OneChannelValues
<1>13. chan'[c] = x
  BY <1>1 DEF TypeOK
<1>14. Placed(c)' = ToSet(b) \cup T /\ Exhausted(c)' = (b = <<>>)
  BY <1>1, <1>3, <1>13 DEF Placed, LineSet, TakenSet, Exhausted
<1>15. \A s \in ToSet(chan[c].senders) : s.v \notin Placed(c)'
  <2> TAKE s \in ToSet(chan[c].senders)
  <2>1. s.v \in ToSet(w) /\ s.v \in LineSet(c)
    BY <1>5, <1>7, <1>9, <1>w
  <2>2. s.v \in Nat
    BY <1>2, <1>5, <2>1
  <2> QED BY <1>2, <1>5, <1>8, <1>14, <2>1, <2>2
<1>16. HasReceiver(chan[c]) => b = <<>>
  BY <1>2 DEF Disciplined, b
<1> QED BY <1>12, <1>14, <1>15, <1>16

-----------------------------------------------------------------------------
(* What is known of the tokens and of the history, after any step.         *)

LEMMA TokensMove ==
  ASSUME TypeOK, Shape, TokensKnown, TokensApart, Onward, NEW R, NEW A, Moved(R, A),
         \A y \in Tokens : y \in R \/
           /\ y.p \in Sending => sent'[y.v] = sent[y.v]
           /\ y.p \in Flying => got'[y.t.g] = got[y.t.g] /\ ~InGot(y.v)',
         \A x \in A : SendFact(x)' /\ FlightFact(x)' /\ WakeFact(x)',
         \A x, y \in A : Alike(x, y) => x = y,
         \A x \in A, y \in Tokens : y \in R \/ ~Alike(x, y)
  PROVE  TokensKnown' /\ TokensApart'
<1>1. R \subseteq Tokens /\ \A x : x \in Tokens' <=> (x \in Tokens /\ x \notin R) \/ x \in A
  BY DEF Moved, Change
<1>2. ASSUME NEW y \in Tokens, y \notin R
      PROVE  SendFact(y)' /\ FlightFact(y)' /\ WakeFact(y)'
  <2>1. y.t.c \in Chans /\ SendFact(y) /\ FlightFact(y) /\ WakeFact(y)
    BY TokenPlaces DEF Token, Task, TokensKnown
  <2>2. SendFact(y)'
    <3>1. NextValue \notin 1..Len(sent)
      BY DEF TypeOK, NextValue
    <3>2. y.p \in Sending => sent'[y.v] = sent[y.v]
      BY <1>2
    <3> QED BY <2>1, <3>1, <3>2 DEF SendFact, Onward
  <2>3. FlightFact(y)'
    <3>1. y.p \in Flying => got'[y.t.g] = got[y.t.g] /\ ~InGot(y.v)'
      BY <1>2
    <3> QED BY <2>1, <3>1 DEF FlightFact, Onward
  <2>4. WakeFact(y)'
    BY <2>1 DEF WakeFact, Onward
  <2> QED BY <2>2, <2>3, <2>4
<1>3. TokensKnown'
  BY <1>1, <1>2 DEF TokensKnown
<1>4. \A x, y : Alike(x, y) <=> Alike(y, x)
  BY DEF Alike
<1>5. \A x, y \in Tokens' : Alike(x, y) => x = y
  <2>1. \A x, y \in Tokens : Alike(x, y) => x = y
    BY DEF TokensApart
  <2> QED BY <1>1, <1>4, <2>1
<1>6. TokensApart'
  BY <1>5 DEF TokensApart, Alike
<1> QED BY <1>3, <1>6

\* What a sender learned stays true, and what one learns now is.
LEMMA SendsMove ==
  ASSUME TypeOK, SendsKnown, Onward, sent' \in Seq(SendRecord),
         \A v \in 1..Len(sent') :
           \/ v \in 1..Len(sent) /\ sent'[v] = sent[v]
           \/ sent'[v].st = "pending"
           \/ sent'[v].st = "returned" /\ \A d \in Chans : sent'[v].c = d => v \in Kept(d)'
           \/ sent'[v].st = "panicked" /\ \A d \in Chans : sent'[v].c = d => v \notin Placed(d)'
  PROVE  SendsKnown'
<1>1. ASSUME NEW v \in 1..Len(sent'), NEW d \in Chans, sent'[v].c = d
      PROVE  /\ sent'[v].st = "returned" => v \in Kept(d)'
             /\ sent'[v].st = "panicked" => v \notin Placed(d)'
  <2>1. CASE v \in 1..Len(sent) /\ sent'[v] = sent[v]
    <3>1. v # NextValue
      BY <2>1 DEF TypeOK, NextValue
    <3>2. Kept(d) \subseteq Kept(d)' /\ Placed(d)' \subseteq Placed(d) \cup {NextValue}
      BY DEF Onward
    <3>3. /\ sent[v].st = "returned" => v \in Kept(d)
          /\ sent[v].st = "panicked" => v \notin Placed(d)
      BY <1>1, <2>1 DEF SendsKnown
    <3> QED BY <2>1, <3>1, <3>2, <3>3
  <2> QED BY <1>1, <2>1
<1>2. \A v \in 1..Len(sent') : sent'[v].c \in Chans
  <2>1. \A v \in 1..Len(sent') : sent'[v] \in SendRecord
    OBVIOUS
  <2> QED BY <2>1 DEF SendRecord
<1>3. \A v \in 1..Len(sent') : \A d \in Chans : sent'[v].c = d =>
        /\ sent'[v].st = "returned" => v \in ToSet(chan'[d].buffer) \cup ToSet(taken'[d])
        /\ sent'[v].st = "panicked" => v \notin ToSet(LineOf(chan'[d])) \cup ToSet(taken'[d])
  BY <1>1 DEF Kept, Placed, TakenSet, LineSet
<1> QED BY <1>2, <1>3 DEF SendsKnown, Kept, Placed, TakenSet, LineSet

\* A value that is taken is found.
LEMMA TakenMove ==
  ASSUME TakenFound, NEW R, NEW A, Moved(R, A),
         \A d \in Chans : \A v \in TakenSet(d)' :
           v \in TakenSet(d) \/ InGot(v)' \/ \E x \in A : x.p \in Flying /\ x.v = v,
         \A v : InGot(v) => InGot(v)',
         \A w \in R : w.p \in Flying => InGot(w.v)' \/ \E x \in A : x.p \in Flying /\ x.v = w.v
  PROVE  TakenFound'
<1>1. \A x : x \in Tokens' <=> (x \in Tokens /\ x \notin R) \/ x \in A
  BY DEF Moved, Change
<1> SUFFICES ASSUME NEW d \in Chans, NEW v \in TakenSet(d)'
             PROVE  InGot(v)' \/ \E x \in Tokens' : x.p \in Flying /\ x.v = v
  BY DEF TakenFound
<1>2. CASE v \in TakenSet(d)
  <2>1. InGot(v) \/ \E x \in Tokens : x.p \in Flying /\ x.v = v
    BY <1>2 DEF TakenFound
  <2> QED BY <1>1, <2>1
<1> QED BY <1>1, <1>2

LEMMA GotStays ==
  ASSUME TypeOK, GotKnown, ReceivedInOrder, Onward, got' = got
  PROVE  /\ \A v : InGot(v)' <=> InGot(v)
         /\ GotKnown' /\ ReceivedInOrder'
<1>1. \A v : InGot(v)' <=> InGot(v)
  BY DEF InGot
<1>2. ReceivedInOrder'
  BY DEF ReceivedInOrder
<1>3. \A g \in G : \A k \in 1..Len(got[g]) : got[g][k].c \in Chans
  <2>1. \A g \in G : got[g] \in Seq(Receipt)
    BY DEF TypeOK
  <2>2. \A g \in G : \A k \in 1..Len(got[g]) : got[g][k] \in Receipt
    BY <2>1
  <2> QED BY <2>2 DEF Receipt
<1>4. \A g \in G : \A k \in 1..Len(got[g]) :
        LET e == got[g][k]
        IN  IF e.v = Zero THEN Exhausted(e.c) ELSE e.v \in TakenSet(e.c)
  BY DEF GotKnown, ReceiptFact
<1>5. \A d \in Chans : (Exhausted(d) => Exhausted(d)') /\ TakenSet(d) \subseteq TakenSet(d)'
  BY DEF Onward
<1>6. \A g \in G : \A k \in 1..Len(got[g]) : \A d \in Chans : got[g][k].c = d =>
        IF got[g][k].v = Zero THEN Exhausted(d)' ELSE got[g][k].v \in TakenSet(d)'
  BY <1>4, <1>5
<1>7. GotKnown'
  BY <1>3, <1>6 DEF GotKnown, ReceiptFact, Exhausted, TakenSet
<1> QED BY <1>1, <1>2, <1>7

\* What is known of a value that has not left the line, and of the receipts of
\* a channel that may still deliver one.
LEMMA GotFacts ==
  ASSUME TypeOK, Ordered, GotKnown, NEW c \in Chans
  PROVE  /\ \A v \in Placed(c) \cup {NextValue} : v \notin TakenSet(c) => ~InGot(v)
         /\ \A g \in G : \A k \in 1..Len(got[g]) : got[g][k].c = c /\ ~Exhausted(c) =>
              got[g][k].v # Zero /\ got[g][k].v \in TakenSet(c)
<1>1. \A g \in G : \A k \in 1..Len(got[g]) : got[g][k].c \in Chans
  <2>1. \A g \in G : got[g] \in Seq(Receipt)
    BY DEF TypeOK
  <2>2. \A g \in G : \A k \in 1..Len(got[g]) : got[g][k] \in Receipt
    BY <2>1
  <2> QED BY <2>2 DEF Receipt
<1>2. \A g \in G : \A k \in 1..Len(got[g]) :
        IF got[g][k].v = Zero THEN Exhausted(got[g][k].c)
                              ELSE got[g][k].v \in TakenSet(got[g][k].c)
  BY DEF GotKnown, ReceiptFact
<1>3. \A d \in Chans : \A v \in TakenSet(d) : v \in 1..Len(sent) /\ sent[v].c = d
  BY DEF Ordered, Placed
<1>4. \A v \in Placed(c) : v \in 1..Len(sent) /\ sent[v].c = c
  BY DEF Ordered
<1>5. NextValue \notin 1..Len(sent) /\ NextValue # Zero /\ Zero \notin 1..Len(sent)
  BY DEF TypeOK, NextValue, Zero
<1>6. ASSUME NEW v \in Placed(c) \cup {NextValue}, v \notin TakenSet(c)
      PROVE  ~InGot(v)
  <2> SUFFICES ASSUME NEW g \in G, NEW k \in 1..Len(got[g]), got[g][k].v = v
               PROVE  FALSE
    BY DEF InGot
  <2>1. v # Zero
    BY <1>4, <1>5
  <2>2. v \in TakenSet(got[g][k].c) /\ got[g][k].c \in Chans
    BY <1>1, <1>2, <2>1
  <2>3. v \in 1..Len(sent) /\ sent[v].c = got[g][k].c
    BY <1>3, <2>2
  <2> QED BY <1>4, <1>5, <1>6, <2>2, <2>3
<1>7. \A g \in G : \A k \in 1..Len(got[g]) : got[g][k].c = c /\ ~Exhausted(c) =>
              got[g][k].v # Zero /\ got[g][k].v \in TakenSet(c)
  BY <1>2
<1> QED BY <1>6, <1>7

\* A receive returns the value v.
LEMMA GotGrows ==
  ASSUME TypeOK, GotKnown, ReceivedInOrder, Onward,
         NEW g \in G, NEW c \in Chans, NEW v \in Nat, Return(g, c, v),
         IF v = Zero THEN Exhausted(c)' ELSE v \in TakenSet(c)',
         v # Zero => /\ ~InGot(v)
                     /\ \A k \in 1..Len(got[g]) :
                          got[g][k].c = c => got[g][k].v # Zero /\ got[g][k].v < v
  PROVE  /\ \A w : InGot(w)' <=> InGot(w) \/ w = v
         /\ \A h \in G : h # g => got'[h] = got[h]
         /\ GotKnown' /\ ReceivedInOrder'
<1> DEFINE r == [c |-> c, v |-> v]
           s == got[g]
<1>r. r.c = c /\ r.v = v /\ r \in Receipt
  BY DEF Receipt
<1>1. \A h \in G : got'[h] = IF h = g THEN Append(s, r) ELSE got[h]
  BY DEF TypeOK, Return
<1>s. s \in Seq(Receipt) /\ Len(s) \in Nat
  BY DEF TypeOK
<1> HIDE DEF r
<1>2. /\ Len(Append(s, r)) = Len(s) + 1
      /\ \A k \in 1..Len(s) : Append(s, r)[k] = s[k]
      /\ Append(s, r)[Len(s) + 1] = r
      /\ \A k \in 1..Len(Append(s, r)) :
           \/ k \in 1..Len(s) /\ Append(s, r)[k] = s[k]
           \/ k = Len(s) + 1 /\ Append(s, r)[k] = r
  BY <1>r, <1>s, SeqSteps
<1> DEFINE q == Append(s, r)
<1>3. /\ \A k \in 1..Len(q) : \/ k \in 1..Len(s) /\ q[k] = s[k]
                              \/ k = Len(s) + 1 /\ q[k] = r
      /\ \A k \in 1..Len(s) : k \in 1..Len(q) /\ q[k] = s[k]
      /\ Len(s) + 1 \in 1..Len(q) /\ q[Len(s) + 1] = r
      /\ \A h \in G : got'[h] = IF h = g THEN q ELSE got[h]
      /\ \A k \in 1..Len(s) : k < Len(s) + 1
  BY <1>1, <1>2, <1>s
<1> HIDE DEF q
<1>4. \A w : InGot(w)' <=> InGot(w) \/ w = v
  <2>1. \A w : InGot(w)' <=> \E h \in G : \E k \in 1..Len(got'[h]) : got'[h][k].v = w
    BY DEF InGot
  <2>2. \A w : InGot(w) <=> \E h \in G : \E k \in 1..Len(got[h]) : got[h][k].v = w
    BY DEF InGot
  <2>3. \A w : (\E k \in 1..Len(q) : q[k].v = w) <=> (\E k \in 1..Len(s) : s[k].v = w) \/ w = v
    BY <1>3, <1>r
  <2>5. \A h \in G : \A w : (\E k \in 1..Len(got'[h]) : got'[h][k].v = w)
                           <=> (\E k \in 1..Len(got[h]) : got[h][k].v = w) \/ (h = g /\ w = v)
    <3> TAKE h \in G
    <3>1. CASE h = g
      <4>1. got'[h] = q /\ got[h] = s
        BY <1>3, <3>1
      <4> HIDE DEF s
      <4> QED BY <2>3, <3>1, <4>1
    <3>2. CASE h # g
      <4>1. got'[h] = got[h]
        BY <1>3, <3>2
      <4> QED BY <3>2, <4>1
    <3> QED BY <3>1, <3>2
  <2> QED BY <2>1, <2>2, <2>5, ZenonT(40)
<1>5. \A h \in G : h # g => got'[h] = got[h]
  BY <1>3
<1>6. GotKnown'
  <2>1. \A h \in G : \A k \in 1..Len(got[h]) : got[h][k].c \in Chans
    <3>1. \A h \in G : got[h] \in Seq(Receipt)
      BY DEF TypeOK
    <3>2. \A h \in G : \A k \in 1..Len(got[h]) : got[h][k] \in Receipt
      BY <3>1
    <3> QED BY <3>2 DEF Receipt
  <2>2. \A h \in G : \A k \in 1..Len(got[h]) :
          IF got[h][k].v = Zero THEN Exhausted(got[h][k].c)
                                ELSE got[h][k].v \in TakenSet(got[h][k].c)
    BY DEF GotKnown, ReceiptFact
  <2>3. \A d \in Chans : (Exhausted(d) => Exhausted(d)') /\ TakenSet(d) \subseteq TakenSet(d)'
    BY DEF Onward
  <2>4. \A h \in G : \A k \in 1..Len(got'[h]) :
          got'[h][k] = r \/ \E l \in 1..Len(got[h]) : got'[h][k] = got[h][l]
    BY <1>3
  <2>5. \A h \in G : \A l \in 1..Len(got[h]) : \A d \in Chans : got[h][l].c = d =>
          IF got[h][l].v = Zero THEN Exhausted(d)' ELSE got[h][l].v \in TakenSet(d)'
    BY <2>2, <2>3
  <2>6. \A h \in G : \A k \in 1..Len(got'[h]) : \A d \in Chans : got'[h][k].c = d =>
          IF got'[h][k].v = Zero THEN Exhausted(d)' ELSE got'[h][k].v \in TakenSet(d)'
    <3> TAKE h \in G
    <3> TAKE k \in 1..Len(got'[h])
    <3> TAKE d \in Chans
    <3> HAVE got'[h][k].c = d
    <3>1. CASE got'[h][k] = r
      BY <1>r, <3>1
    <3>2. CASE \E l \in 1..Len(got[h]) : got'[h][k] = got[h][l]
      BY <2>5, <3>2
    <3> QED BY <2>4, <3>1, <3>2
  <2>7. \A h \in G : \A k \in 1..Len(got'[h]) : got'[h][k].c \in Chans
    BY <1>r, <2>1, <2>4
  <2> QED BY <2>6, <2>7 DEF GotKnown, ReceiptFact, Exhausted, TakenSet
<1>7. ReceivedInOrder'
  <2>1. \A h \in G : \A j, k \in 1..Len(got[h]) :
          j < k /\ got[h][j].c = got[h][k].c =>
            \/ got[h][j].v # Zero /\ got[h][j].v < got[h][k].v
            \/ got[h][k].v = Zero
    BY DEF ReceivedInOrder
  <2>2. \A h, i \in G : \A j \in 1..Len(got[h]), k \in 1..Len(got[i]) :
          got[h][j].v = got[i][k].v /\ got[h][j].v # Zero => h = i /\ j = k
    BY DEF ReceivedInOrder
  <2>3. \A j, k \in 1..Len(q) : j < k /\ q[j].c = q[k].c =>
            \/ q[j].v # Zero /\ q[j].v < q[k].v
            \/ q[k].v = Zero
    <3> TAKE j, k \in 1..Len(q)
    <3>1. CASE k \in 1..Len(s) /\ q[k] = s[k]
      <4>1. j < k => j \in 1..Len(s) /\ q[j] = s[j]
        BY <1>3, <1>s, <3>1
      <4>2. s = got[g]
        OBVIOUS
      <4> HIDE DEF s
      <4> QED BY <2>1, <3>1, <4>1, <4>2
    <3>2. CASE k = Len(s) + 1 /\ q[k] = r
      <4>1. j < k => j \in 1..Len(s) /\ q[j] = s[j]
        BY <1>3, <1>s, <3>2
      <4> QED BY <1>r, <3>2, <4>1
    <3> QED BY <1>3, <3>1, <3>2
  <2>4. \A h \in G : \A j, k \in 1..Len(got'[h]) :
          j < k /\ got'[h][j].c = got'[h][k].c =>
            \/ got'[h][j].v # Zero /\ got'[h][j].v < got'[h][k].v
            \/ got'[h][k].v = Zero
    <3> TAKE h \in G
    <3>1. CASE h = g
      <4>1. got'[h] = q
        BY <1>3, <3>1
      <4> HIDE DEF q
      <4> QED BY <2>3, <4>1
    <3>2. CASE h # g
      <4>1. got'[h] = got[h]
        BY <1>3, <3>2
      <4> QED BY <2>1, <4>1
    <3> QED BY <3>1, <3>2
  <2>n. v # Zero => \A h \in G : \A k \in 1..Len(got[h]) : got[h][k].v # v
    BY DEF InGot
  <2>5. \A h \in G : \A k \in 1..Len(got'[h]) :
          \/ h = g /\ k = Len(s) + 1 /\ got'[h][k].v = v
          \/ k \in 1..Len(got[h]) /\ got'[h][k] = got[h][k]
    BY <1>3, <1>r
  <2>6. \A h, i \in G : \A j \in 1..Len(got'[h]), k \in 1..Len(got'[i]) :
          got'[h][j].v = got'[i][k].v /\ got'[h][j].v # Zero => h = i /\ j = k
    <3> TAKE h, i \in G
    <3> TAKE j \in 1..Len(got'[h]), k \in 1..Len(got'[i])
    <3> HAVE got'[h][j].v = got'[i][k].v /\ got'[h][j].v # Zero
    <3>1. CASE h = g /\ j = Len(s) + 1 /\ got'[h][j].v = v
      <4>1. ~(k \in 1..Len(got[i]) /\ got'[i][k] = got[i][k])
        BY <2>n, <3>1
      <4> QED BY <2>5, <3>1, <4>1
    <3>2. CASE j \in 1..Len(got[h]) /\ got'[h][j] = got[h][j]
      <4>1. got'[i][k].v # v
        BY <2>n, <3>2
      <4>2. k \in 1..Len(got[i]) /\ got'[i][k] = got[i][k]
        BY <2>5, <4>1
      <4> QED BY <2>2, <3>2, <4>2
    <3> QED BY <2>5, <3>1, <3>2
  <2> QED BY <2>4, <2>6 DEF ReceivedInOrder
<1> QED BY <1>4, <1>5, <1>6, <1>7

\* The values of tokens are those of sends.
LEMMA OldValues ==
  ASSUME TypeOK, Shape, Values, NEW y \in Tokens, y.p \in Sending \cup Flying
  PROVE  y.v \in 1..Len(sent) /\ y.v # NextValue /\ y.v # Zero
<1>1. y.t.c \in Chans
  BY TokenPlaces DEF Token, Task
<1>2. SendFact(y) /\ FlightFact(y)
  BY DEF Values, TokensKnown
<1>3. y.p \in Flying => y.v \in Placed(y.t.c)
  BY <1>2 DEF FlightFact, Placed
<1>4. y.v \in 1..Len(sent)
  BY <1>1, <1>2, <1>3 DEF SendFact, Values, Ordered
<1> QED BY <1>4 DEF TypeOK, NextValue, Zero

\* A step after which no goroutine received anything or learned about a send.
LEMMA UngotValues ==
  ASSUME TypeOK, Shape, Values, Onward, got' = got,
         \A v \in 1..Len(sent) : sent'[v] = sent[v],
         NEW R, NEW A, Moved(R, A),
         \A x \in A : SendFact(x)' /\ FlightFact(x)' /\ WakeFact(x)',
         \A x, y \in A : Alike(x, y) => x = y,
         \A x \in A : x.v = NextValue \/ x.p \notin Sending \cup Flying \/ \E w \in R : Alike(x, w),
         \A d \in Chans : \A v \in TakenSet(d)' :
           v \in TakenSet(d) \/ \E x \in A : x.p \in Flying /\ x.v = v,
         \A w \in R : w.p \in Flying => \E x \in A : x.p \in Flying /\ x.v = w.v
  PROVE  TokensKnown' /\ TokensApart' /\ TakenFound' /\ GotKnown' /\ ReceivedInOrder'
<1>1. /\ \A v : InGot(v)' <=> InGot(v)
      /\ GotKnown' /\ ReceivedInOrder'
  BY GotStays DEF Values
<1>2. TakenFound'
  BY <1>1, TakenMove DEF Values
<1>3. \A y \in Tokens : /\ y.p \in Sending => sent'[y.v] = sent[y.v]
                        /\ y.p \in Flying => got'[y.t.g] = got[y.t.g] /\ ~InGot(y.v)'
  <2> TAKE y \in Tokens
  <2>1. y.p \in Sending => sent'[y.v] = sent[y.v]
    BY OldValues
  <2>2. y.p \in Flying => ~InGot(y.v)
    BY DEF Values, TokensKnown, FlightFact
  <2> QED BY <1>1, <2>1, <2>2
<1>4. \A x \in A, y \in Tokens : y \in R \/ ~Alike(x, y)
  <2> SUFFICES ASSUME NEW x \in A, NEW y \in Tokens, Alike(x, y)
               PROVE  y \in R
    OBVIOUS
  <2>1. y.p \in Sending \cup Flying /\ x.p \in Sending \cup Flying /\ x.v = y.v
    BY DEF Alike
  <2>2. y.v # NextValue
    BY <2>1, OldValues
  <2>3. PICK w \in R : Alike(x, w)
    BY <2>1, <2>2
  <2>4. w \in Tokens
    BY DEF Moved, Change
  <2>5. Alike(y, w)
    BY <2>1, <2>3 DEF Alike, Sending, Flying
  <2> QED BY <2>4, <2>5 DEF Values, TokensApart
<1>5. TokensKnown /\ TokensApart
  BY DEF Values
<1>6. TokensKnown' /\ TokensApart'
  BY <1>3, <1>4, <1>5, TokensMove
<1> QED BY <1>1, <1>2, <1>6

\* A step in which a goroutine receives the value v, or the zero value.
LEMMA GotValues ==
  ASSUME TypeOK, Shape, Values, Onward, sent' = sent,
         NEW g \in G, NEW c \in Chans, NEW v \in Nat, Return(g, c, v),
         IF v = Zero THEN Exhausted(c)' ELSE v \in TakenSet(c)',
         v # Zero => /\ ~InGot(v)
                     /\ \A k \in 1..Len(got[g]) :
                          got[g][k].c = c => got[g][k].v # Zero /\ got[g][k].v < v,
         NEW R, NEW A, Moved(R, A),
         \A y \in Tokens : y \in R \/ (y.t.g # g /\ (y.p \in Flying => y.v # v)),
         \A x \in A : SendFact(x)' /\ x.p = "ack" /\ \E w \in R : Alike(x, w),
         \A x, y \in A : Alike(x, y) => x = y,
         \A d \in Chans : \A u \in TakenSet(d)' : u \in TakenSet(d) \/ u = v,
         \A w \in R : w.p \in Flying => w.v = v
  PROVE  TokensKnown' /\ TokensApart' /\ TakenFound' /\ GotKnown' /\ ReceivedInOrder'
<1>1. /\ \A w : InGot(w)' <=> InGot(w) \/ w = v
      /\ \A h \in G : h # g => got'[h] = got[h]
      /\ GotKnown' /\ ReceivedInOrder'
  BY GotGrows DEF Values
<1>2. TakenFound'
  <2>1. \A d \in Chans : \A u \in TakenSet(d)' :
           u \in TakenSet(d) \/ InGot(u)' \/ \E x \in A : x.p \in Flying /\ x.v = u
    BY <1>1
  <2>2. \A w \in R : w.p \in Flying => InGot(w.v)' \/ \E x \in A : x.p \in Flying /\ x.v = w.v
    BY <1>1
  <2>3. \A u : InGot(u) => InGot(u)'
    BY <1>1
  <2> QED BY <2>1, <2>2, <2>3, TakenMove DEF Values
<1>3. \A y \in Tokens : y \in R \/
        /\ y.p \in Sending => sent'[y.v] = sent[y.v]
        /\ y.p \in Flying => got'[y.t.g] = got[y.t.g] /\ ~InGot(y.v)'
  <2> TAKE y \in Tokens
  <2>1. y.t.g \in G
    BY TokenPlaces DEF Token, Task
  <2>2. y.p \in Flying => ~InGot(y.v)
    BY DEF Values, TokensKnown, FlightFact
  <2> QED BY <1>1, <2>1, <2>2
<1>4. \A x \in A, y \in Tokens : y \in R \/ ~Alike(x, y)
  <2> SUFFICES ASSUME NEW x \in A, NEW y \in Tokens, Alike(x, y)
               PROVE  y \in R
    OBVIOUS
  <2>3. PICK w \in R : Alike(x, w)
    OBVIOUS
  <2>4. w \in Tokens
    BY DEF Moved, Change
  <2>5. Alike(y, w)
    BY <2>3 DEF Alike, Sending, Flying
  <2> QED BY <2>4, <2>5 DEF Values, TokensApart
<1>5. TokensKnown /\ TokensApart
  BY DEF Values
<1>6. \A x \in A : SendFact(x)' /\ FlightFact(x)' /\ WakeFact(x)'
  BY DEF FlightFact, WakeFact, Flying
<1>7. TokensKnown' /\ TokensApart'
  BY <1>3, <1>4, <1>5, <1>6, TokensMove
<1> QED BY <1>1, <1>2, <1>7

\* A step in which a goroutine learns what became of its send v.
LEMMA ToldValues ==
  ASSUME TypeOK, Shape, Values, Onward, got' = got, taken' = taken,
         NEW x \in Tokens, x.p \in Sending, Moved({x}, {}),
         \A v \in 1..Len(sent) : v # x.v => sent'[v] = sent[v]
  PROVE  TokensKnown' /\ TokensApart' /\ TakenFound' /\ GotKnown' /\ ReceivedInOrder'
<1>1. /\ \A v : InGot(v)' <=> InGot(v)
      /\ GotKnown' /\ ReceivedInOrder'
  BY GotStays DEF Values
<1>2. TakenFound'
  <2>1. \A d \in Chans : TakenSet(d)' = TakenSet(d)
    BY DEF TakenSet
  <2>2. x.p \notin Flying
    BY DEF Sending, Flying
  <2> QED BY <1>1, <2>1, <2>2, TakenMove DEF Values
<1>3. \A y \in Tokens : y \in {x} \/
        /\ y.p \in Sending => sent'[y.v] = sent[y.v]
        /\ y.p \in Flying => got'[y.t.g] = got[y.t.g] /\ ~InGot(y.v)'
  <2> TAKE y \in Tokens
  <2>1. y.p \in Sending => y.v \in 1..Len(sent)
    BY OldValues
  <2>2. y.p \in Sending /\ y # x => y.v # x.v
    BY DEF Values, TokensApart, Alike
  <2>3. y.p \in Flying => ~InGot(y.v)
    BY DEF Values, TokensKnown, FlightFact
  <2> QED BY <1>1, <2>1, <2>2, <2>3
<1>5. TokensKnown /\ TokensApart
  BY DEF Values
<1>7. TokensKnown' /\ TokensApart'
  BY <1>3, <1>5, TokensMove
<1> QED BY <1>1, <1>2, <1>7

-----------------------------------------------------------------------------
(* Each action keeps all of it.                                            *)

LEMMA StillValues ==
  ASSUME Ordered, chan' = chan, taken' = taken,
         \A v \in 1..Len(sent) : v \in 1..Len(sent') /\ sent'[v].c = sent[v].c
  PROVE  /\ Onward /\ Ordered'
         /\ \A d \in Chans : /\ Kept(d)' = Kept(d) /\ Placed(d)' = Placed(d)
                             /\ TakenSet(d)' = TakenSet(d) /\ Exhausted(d)' = Exhausted(d)
<1>1. Onward /\ Ordered'
  BY ValuesStay
<1> QED BY <1>1 DEF Kept, Placed, TakenSet, Exhausted, LineSet, LineOf

LEMMA Parts ==
  ASSUME ChannelInv
  PROVE  TypeOK /\ QueueDiscipline /\ Shape /\ Awaited /\ Values /\ Ordered
           /\ SendsKnown /\ TakenFound /\ GotKnown /\ TokensKnown /\ TokensApart
BY DEF ChannelInv, Values

LEMMA Whole ==
  ASSUME Ordered', TokensKnown', TokensApart', SendsKnown', TakenFound', GotKnown',
         ReceivedInOrder'
  PROVE  Values'
BY DEF Values

\* An operation on a nil channel, or a close() that panics.
LEMMA IdleStep ==
  ASSUME ChannelInv, NEW g \in G, NEW st, CanStart(g), Start(g, st), st # "waiting",
         UNCHANGED <<chan, micro, timers, done, sent, taken, got>>
  PROVE  Shape' /\ Awaited' /\ Values'
<1>0. TypeOK /\ Shape /\ Awaited /\ Values /\ Ordered /\ SendsKnown
  BY Parts
<1>1. Shape' /\ Moved({}, {})
  BY <1>0, NothingMoves
<1>2. Awaited'
  BY <1>0, <1>1, AwaitedAtOnce
<1>3. Onward /\ Ordered' /\ \A d \in Chans : TakenSet(d)' = TakenSet(d)
  BY <1>0, StillValues
<1>4. TokensKnown' /\ TokensApart' /\ TakenFound' /\ GotKnown' /\ ReceivedInOrder'
  BY <1>0, <1>1, <1>3, UngotValues
<1>5. SendsKnown'
  BY <1>0, <1>3, SendsMove DEF TypeOK
<1> QED BY <1>1, <1>2, <1>3, <1>4, <1>5, Whole

LEMMA SendPanicsStep ==
  ASSUME ChannelInv, TypeOK', NEW g \in G, NEW c \in Chans, SendPanics(g, c)
  PROVE  Shape' /\ Awaited' /\ Values'
<1>0. TypeOK /\ QueueDiscipline /\ Shape /\ Awaited /\ Values /\ Ordered /\ SendsKnown
  BY Parts
<1>a. /\ CanStart(g) /\ Start(g, "ready") /\ RecordSend(c, "panicked")
      /\ UNCHANGED <<chan, micro, timers, done, taken, got>>
  BY DEF SendPanics
<1>1. Shape' /\ Moved({}, {})
  BY <1>0, <1>a, NothingMoves
<1>2. Awaited'
  BY <1>0, <1>1, <1>a, AwaitedAtOnce
<1>r. /\ Len(sent) \in Nat /\ Len(sent') = NextValue /\ NextValue = Len(sent) + 1
      /\ \A v \in 1..Len(sent) : v \in 1..Len(sent') /\ sent'[v] = sent[v]
      /\ sent'[NextValue].c = c /\ sent'[NextValue].st = "panicked"
  <2>1. "panicked" \in {"pending", "returned", "panicked", "withdrawn"}
    OBVIOUS
  <2> QED BY <1>0, <1>a, <2>1, Records
<1>3. Onward /\ Ordered'
      /\ \A d \in Chans : TakenSet(d)' = TakenSet(d) /\ Placed(d)' = Placed(d)
  BY <1>0, <1>a, <1>r, StillValues
<1>4. TokensKnown' /\ TokensApart' /\ TakenFound' /\ GotKnown' /\ ReceivedInOrder'
  BY <1>0, <1>1, <1>3, <1>a, <1>r, UngotValues
<1>5. SendsKnown'
  <2>1. \A d \in Chans : NextValue \notin Placed(d)'
    BY <1>0, <1>3, LineFacts
  <2>2. \A v \in 1..Len(sent') : v \in 1..Len(sent) \/ v = NextValue
    BY <1>r
  <2> DEFINE n == NextValue
  <2>3. /\ \A d \in Chans : n \notin Placed(d)'
        /\ \A v \in 1..Len(sent') : v \in 1..Len(sent) \/ v = n
        /\ sent'[n].st = "panicked"
    BY <1>r, <2>1, <2>2
  <2> HIDE DEF n
  <2>4. \A v \in 1..Len(sent') :
           \/ v \in 1..Len(sent) /\ sent'[v] = sent[v]
           \/ sent'[v].st = "panicked" /\ \A d \in Chans : sent'[v].c = d => v \notin Placed(d)'
    BY <1>r, <2>3
  <2> QED BY <1>0, <1>3, <2>4, SendsMove DEF TypeOK
<1> QED BY <1>1, <1>2, <1>3, <1>4, <1>5, Whole

LEMMA SendHandsOffStep ==
  ASSUME ChannelInv, TypeOK', NEW g \in G, NEW c \in Chans, SendHandsOff(g, c)
  PROVE  Shape' /\ Awaited' /\ Values'
<1> DEFINE n == NextValue
           r == NextReceiver(chan[c])
           me == TaskOf(g, c, 0)
           w == WantToken(chan[c])
           a == TokenAt("handoff", r, n)
           b == TokenAt("hand", me, n)
<1>0. TypeOK /\ QueueDiscipline /\ Shape /\ Awaited /\ Values /\ Ordered /\ SendsKnown /\ GotKnown
  BY Parts
<1>a. /\ CanStart(g) /\ Start(g, "waiting") /\ RecordSend(c, "pending") /\ ~chan[c].closed
      /\ got' = got
  BY DEF SendHandsOff
<1>1. Shape' /\ Moved({w}, {a, b}) /\ r \in Task /\ r.c = c
  BY <1>0, HandsOffMoves
<1>m. me.c = c /\ me.g = g
  BY DEF TaskOf
<1>t. /\ a.p = "handoff" /\ a.t = r /\ a.v = n /\ b.p = "hand" /\ b.t = me /\ b.v = n
      /\ w.t = r /\ w.p \in {"want", "wantOk"}
  BY DEF TokenAt, WantToken, WantPlace
<1>r. /\ n \in 1..Len(sent') /\ n \notin 1..Len(sent)
      /\ Len(sent) \in Nat /\ Len(sent') = n /\ n = Len(sent) + 1
      /\ \A v \in 1..Len(sent) : v \in 1..Len(sent') /\ sent'[v] = sent[v]
      /\ sent'[n] = [c |-> c, st |-> "pending"]
      /\ sent'[n].c = c /\ sent'[n].st = "pending"
  <2>1. "pending" \in {"pending", "returned", "panicked", "withdrawn"}
    OBVIOUS
  <2> QED BY <1>0, <1>a, <2>1, Records
<1>3. /\ Onward /\ Ordered' /\ \A v \in TakenSet(c) : v < n
      /\ \A d \in Chans : TakenSet(d)' = IF d = c THEN TakenSet(c) \cup {n} ELSE TakenSet(d)
  BY <1>0, ValueHandedOff
<1>g. /\ ~InGot(n)
      /\ \A h \in G : \A k \in 1..Len(got[h]) : got[h][k].c = c =>
           got[h][k].v # Zero /\ got[h][k].v \in TakenSet(c)
  <2>1. n \notin TakenSet(c)
    <3>1. n \notin Placed(c)
      BY <1>0, LineFacts
    <3> QED BY <3>1 DEF Placed
  <2>2. ~Exhausted(c)
    BY <1>a DEF Exhausted
  <2> QED BY <1>0, <2>1, <2>2, GotFacts
<1> HIDE DEF n, r, me, w, a, b
<1>2. Awaited'
  <2> DEFINE B == {a}
  <2>1. Moved({w}, B \cup {b})
    <3>1. B \cup {b} = {a, b}
      OBVIOUS
    <3> QED BY <1>1, <3>1
  <2>2. /\ \A x \in B : \E y \in {w} : x.t = y.t
        /\ \A y \in {w} : \E x \in B : x.t = y.t
        /\ \A x, y \in B : x.t = y.t => x = y
    BY <1>t
  <2>3. b.t = TaskOf(g, c, 0)
    BY <1>t DEF me
  <2> HIDE DEF B
  <2> QED BY <1>0, <1>a, <2>1, <2>2, <2>3, AwaitedBlocks, SMTT(30)
<1>4. TokensKnown' /\ TokensApart' /\ TakenFound' /\ GotKnown' /\ ReceivedInOrder'
  <2> DEFINE A == {a, b}
             R == {w}
  <2>1. \A x \in A : SendFact(x)' /\ FlightFact(x)' /\ WakeFact(x)'
    <3> SUFFICES ASSUME NEW x \in A
                 PROVE  SendFact(x)' /\ FlightFact(x)' /\ WakeFact(x)'
      OBVIOUS
    <3>1. x.v = n /\ x.t.c = c /\ (x = a \/ x = b)
      BY <1>1, <1>m, <1>t
    <3>2. n \in TakenSet(c)'
      BY <1>3
    <3>3. CASE x = a
      <4>1. x.p = "handoff" /\ x.t = r /\ r.g \in G
        BY <1>1, <1>t, <3>3 DEF Task
      <4>2. ~InGot(x.v)'
        <5>1. \A v : InGot(v)' <=> InGot(v)
          BY <1>a DEF InGot
        <5> QED BY <1>g, <3>1, <5>1
      <4>3. \A k \in 1..Len(got'[r.g]) : got'[r.g][k].c = c =>
               got'[r.g][k].v # Zero /\ got'[r.g][k].v < n
        BY <1>3, <1>a, <1>g, <4>1
      <4>4. x.v = n /\ x.v \in TakenSet(c)'
        BY <3>1, <3>2
      <4>5. FlightFact(x)'
        BY <3>1, <4>1, <4>2, <4>3, <4>4 DEF FlightFact
      <4>6. SendFact(x)' /\ WakeFact(x)'
        BY <4>1 DEF SendFact, WakeFact, Sending
      <4> QED BY <4>5, <4>6
    <3>4. CASE x = b
      <4>1. x.p = "hand"
        BY <1>t, <3>4
      <4>2. x.v \in Kept(c)'
        BY <3>1, <3>2 DEF Kept
      <4>3. x.v \in 1..Len(sent') /\ sent'[x.v] = [c |-> x.t.c, st |-> "pending"]
        BY <1>r, <3>1
      <4>4. SendFact(x)'
        BY <3>1, <4>1, <4>2, <4>3 DEF SendFact
      <4>5. FlightFact(x)' /\ WakeFact(x)'
        BY <4>1 DEF FlightFact, WakeFact, Flying
      <4> QED BY <4>4, <4>5
    <3> QED BY <3>1, <3>3, <3>4
  <2>2. \A x, y \in A : Alike(x, y) => x = y
    BY <1>t DEF Alike, Sending, Flying
  <2>3. /\ \A x \in A : x.v = NextValue
        /\ \A d \in Chans : \A v \in TakenSet(d)' :
             v \in TakenSet(d) \/ \E x \in A : x.p \in Flying /\ x.v = v
        /\ \A y \in R : y.p \notin Flying
    <3>1. n = NextValue
      BY DEF n
    <3> QED BY <1>3, <1>t, <3>1 DEF Flying
  <2>4. Moved(R, A)
    BY <1>1
  <2> HIDE DEF A, R
  <2> QED BY <1>0, <1>3, <1>a, <1>r, <2>1, <2>2, <2>3, <2>4, UngotValues
<1>5. SendsKnown'
  <2>1. \A v \in 1..Len(sent') : v \in 1..Len(sent) \/ v = n
    BY <1>r
  <2>2. \A v \in 1..Len(sent') : \/ v \in 1..Len(sent) /\ sent'[v] = sent[v]
                                 \/ sent'[v].st = "pending"
    BY <1>r, <2>1
  <2> QED BY <1>0, <1>3, <2>2, SendsMove DEF TypeOK
<1> QED BY <1>1, <1>2, <1>3, <1>4, <1>5, Whole

LEMMA SendBuffersStep ==
  ASSUME ChannelInv, TypeOK', NEW g \in G, NEW c \in Chans, SendBuffers(g, c)
  PROVE  Shape' /\ Awaited' /\ Values'
<1> DEFINE n == NextValue
           x == [chan[c] EXCEPT !.buffer = Append(chan[c].buffer, n)]
<1>0. TypeOK /\ QueueDiscipline /\ Shape /\ Awaited /\ Values /\ Ordered /\ SendsKnown
  BY Parts
<1>a. /\ CanStart(g) /\ Start(g, "ready") /\ RecordSend(c, "returned") /\ ~chan[c].closed
      /\ HasRoom(c, chan[c]) /\ chan' = [chan EXCEPT ![c] = x] /\ taken' = taken /\ got' = got
  BY DEF SendBuffers
<1>1. Shape' /\ Moved({}, {})
  BY <1>0, BuffersMoves
<1>2. Awaited'
  BY <1>0, <1>1, <1>a, AwaitedAtOnce
<1>s. "returned" \in {"pending", "returned", "panicked", "withdrawn"}
  OBVIOUS
<1>r. /\ Len(sent) \in Nat /\ Len(sent') = n /\ n = Len(sent) + 1
      /\ \A v \in 1..Len(sent) : v \in 1..Len(sent') /\ sent'[v] = sent[v]
      /\ sent'[n].c = c /\ sent'[n].st = "returned"
  BY <1>0, <1>a, <1>s, Records
<1>l. chan[c] \in ChannelState /\ Disciplined(c, chan[c]) /\ n \in Value
      /\ chan[c].buffer \in Seq(Value)
  BY <1>0, LineFacts, ChannelFields
<1>b. x.buffer = Append(chan[c].buffer, n) /\ LineOf(x) = Append(LineOf(chan[c]), n)
  BY <1>a, <1>l, LineSteps DEF ChannelState
<1>v. ToSet(x.buffer) = ToSet(chan[c].buffer) \cup {n}
  BY <1>b, <1>l, SetOfSeq
<1> HIDE DEF x
<1>3. Onward /\ Ordered'
  BY <1>0, <1>a, <1>b, <1>s, <1>v, ValueJoins DEF n
<1> HIDE DEF n
<1>4. TokensKnown' /\ TokensApart' /\ TakenFound' /\ GotKnown' /\ ReceivedInOrder'
  <2>1. \A d \in Chans : TakenSet(d)' = TakenSet(d)
    BY <1>a DEF TakenSet
  <2> QED BY <1>0, <1>1, <1>3, <1>a, <1>r, <2>1, UngotValues
<1>5. SendsKnown'
  <2>1. \A v \in 1..Len(sent') : v \in 1..Len(sent) \/ v = n
    BY <1>r
  <2>2. n \in Kept(c)'
    <3>1. chan'[c] = x
      BY <1>0, <1>a DEF TypeOK
    <3> QED BY <1>v, <3>1 DEF Kept
  <2>4. \A v \in 1..Len(sent') :
           \/ v \in 1..Len(sent) /\ sent'[v] = sent[v]
           \/ sent'[v].st = "returned" /\ \A d \in Chans : sent'[v].c = d => v \in Kept(d)'
    BY <1>r, <2>1, <2>2
  <2> QED BY <1>0, <1>3, <2>4, SendsMove DEF TypeOK
<1> QED BY <1>1, <1>2, <1>3, <1>4, <1>5, Whole

LEMMA SendBlocksStep ==
  ASSUME ChannelInv, TypeOK', NEW g \in G, NEW c \in Chans, SendBlocks(g, c)
  PROVE  Shape' /\ Awaited' /\ Values'
<1> DEFINE n == NextValue
           me == TaskOf(g, c, 0)
           s == [t |-> me, v |-> n]
           x == [chan[c] EXCEPT !.senders = Append(chan[c].senders, s)]
           a == TokenAt("offer", me, n)
<1>0. TypeOK /\ QueueDiscipline /\ Shape /\ Awaited /\ Values /\ Ordered /\ SendsKnown
  BY Parts
<1>a. /\ CanStart(g) /\ Start(g, "waiting") /\ RecordSend(c, "pending") /\ ~chan[c].closed
      /\ chan' = [chan EXCEPT ![c] = x] /\ taken' = taken /\ got' = got
  BY DEF SendBlocks
<1>1. Shape' /\ Moved({}, {a})
  BY <1>0, SendBlocksMoves
<1>m. me.c = c /\ me \in Task /\ n \in Value
  BY <1>0, <1>a, TaskOfKnown
<1>t. a.p = "offer" /\ a.t = me /\ a.v = n
  BY DEF TokenAt
<1>s. "pending" \in {"pending", "returned", "panicked", "withdrawn"}
  OBVIOUS
<1>r. /\ n \in 1..Len(sent') /\ n \notin 1..Len(sent)
      /\ Len(sent) \in Nat /\ Len(sent') = n /\ n = Len(sent) + 1
      /\ \A v \in 1..Len(sent) : v \in 1..Len(sent') /\ sent'[v] = sent[v]
      /\ sent'[n] = [c |-> c, st |-> "pending"]
      /\ sent'[n].c = c /\ sent'[n].st = "pending"
  BY <1>0, <1>a, <1>s, Records
<1>l. chan[c] \in ChannelState /\ Disciplined(c, chan[c])
  BY <1>0, LineFacts
<1>k. s \in SenderTask /\ s.v = n
  BY <1>m DEF SenderTask
<1>b. x.buffer = chan[c].buffer /\ LineOf(x) = Append(LineOf(chan[c]), n)
  <2> HIDE DEF s
  <2> QED BY <1>k, <1>l, LineSteps DEF ChannelState
<1> HIDE DEF x
<1>3. Onward /\ Ordered'
  BY <1>0, <1>a, <1>b, <1>s, ValueJoins DEF n
<1>n. n = NextValue /\ me = TaskOf(g, c, 0)
  OBVIOUS
<1> HIDE DEF n, me, a
<1>2. Awaited'
  <2>1. Moved({}, {} \cup {a})
    <3>1. {} \cup {a} = {a}
      OBVIOUS
    <3> QED BY <1>1, <3>1
  <2>2. a.t = TaskOf(g, c, 0)
    BY <1>n, <1>t
  <2> QED BY <1>0, <1>a, <2>1, <2>2, AwaitedBlocks
<1>4. TokensKnown' /\ TokensApart' /\ TakenFound' /\ GotKnown' /\ ReceivedInOrder'
  <2>1. \A d \in Chans : TakenSet(d)' = TakenSet(d)
    BY <1>a DEF TakenSet
  <2>2. \A y \in {a} : SendFact(y)' /\ FlightFact(y)' /\ WakeFact(y)'
    <3> SUFFICES ASSUME NEW y \in {a}
                 PROVE  SendFact(y)' /\ FlightFact(y)' /\ WakeFact(y)'
      OBVIOUS
    <3>1. y.p = "offer" /\ y.v = n /\ y.t.c = c
      BY <1>m, <1>t
    <3>2. y.v \in 1..Len(sent') /\ sent'[y.v] = [c |-> y.t.c, st |-> "pending"]
      BY <1>r, <3>1
    <3> QED BY <3>1, <3>2 DEF SendFact, FlightFact, WakeFact, Flying
  <2>3. \A y \in {a} : y.v = NextValue
    BY <1>n, <1>t
  <2> QED BY <1>0, <1>1, <1>3, <1>a, <1>r, <2>1, <2>2, <2>3, UngotValues
<1>5. SendsKnown'
  <2>1. \A v \in 1..Len(sent') : v \in 1..Len(sent) \/ v = n
    BY <1>r
  <2>2. \A v \in 1..Len(sent') : \/ v \in 1..Len(sent) /\ sent'[v] = sent[v]
                                 \/ sent'[v].st = "pending"
    BY <1>r, <2>1
  <2> QED BY <1>0, <1>3, <2>2, SendsMove DEF TypeOK
<1> QED BY <1>1, <1>2, <1>3, <1>4, <1>5, Whole

\* A receive takes v, the first value in line, and acknowledges the sender it
\* serves, if any.
Taking(g, c, x, v, R, A) ==
  /\ CanStart(g) /\ Start(g, "ready") /\ sent' = sent
  /\ chan' = [chan EXCEPT ![c] = x] /\ x.closed = chan[c].closed
  /\ LineOf(chan[c]) # <<>> /\ v = Head(LineOf(chan[c])) /\ LineOf(x) = Tail(LineOf(chan[c]))
  /\ ToSet(chan[c].buffer) \subseteq ToSet(x.buffer) \cup {v}
  /\ Take(c, v) /\ Return(g, c, v)
  /\ Moved(R, A)
  /\ \A y \in A : /\ y.p = "ack" /\ y.t.c = c /\ y.v \in ToSet(x.buffer) \cup {v}
                 /\ \E w \in R : w.t = y.t /\ w.v = y.v
  /\ \A w \in R : w.p = "offer" /\ \E y \in A : w.t = y.t
  /\ \A y, z \in A : y = z

LEMMA TakesStep ==
  ASSUME ChannelInv, TypeOK', NEW g \in G, NEW c \in Chans, NEW x, NEW v, NEW R, NEW A,
         Taking(g, c, x, v, R, A), Shape'
  PROVE  Shape' /\ Awaited' /\ Values'
<1>a. /\ CanStart(g) /\ Start(g, "ready") /\ sent' = sent
      /\ chan' = [chan EXCEPT ![c] = x] /\ x.closed = chan[c].closed
      /\ LineOf(chan[c]) # <<>> /\ v = Head(LineOf(chan[c]))
      /\ LineOf(x) = Tail(LineOf(chan[c]))
      /\ ToSet(chan[c].buffer) \subseteq ToSet(x.buffer) \cup {v}
      /\ Take(c, v) /\ Return(g, c, v) /\ Moved(R, A)
  BY DEF Taking
<1>b. /\ \A y \in A : /\ y.p = "ack" /\ y.t.c = c /\ y.v \in ToSet(x.buffer) \cup {v}
                     /\ \E w \in R : w.t = y.t /\ w.v = y.v
      /\ \A w \in R : w.p = "offer" /\ \E y \in A : w.t = y.t
      /\ \A y, z \in A : y = z
  BY DEF Taking
<1>0. /\ TypeOK /\ QueueDiscipline /\ Shape /\ Awaited /\ Values /\ Ordered /\ SendsKnown
      /\ GotKnown /\ TokensKnown
  BY Parts
<1>2. Awaited'
  BY <1>0, <1>a, <1>b, AwaitedServing
<1>3. /\ Onward /\ Ordered' /\ v \in Value /\ v \notin TakenSet(c)
      /\ \A d \in TakenSet(c) : d < v
      /\ \A d \in Chans : TakenSet(d)' = IF d = c THEN TakenSet(c) \cup {v} ELSE TakenSet(d)
  BY <1>0, <1>a, ValueTaken
<1>l. v \in Placed(c) /\ ~Exhausted(c)
  <2>1. LineOf(chan[c]) \in Seq(Value)
    BY <1>0, LineFacts
  <2>2. v \in LineSet(c)
    BY <1>a, <2>1, SetOfSeq, SeqSteps DEF LineSet
  <2> QED BY <1>a, <2>2 DEF Placed, Exhausted
<1>g. /\ ~InGot(v)
      /\ \A k \in 1..Len(got[g]) :
           got[g][k].c = c => got[g][k].v # Zero /\ got[g][k].v < v
  <2>1. \A k \in 1..Len(got[g]) :
           got[g][k].c = c => got[g][k].v # Zero /\ got[g][k].v \in TakenSet(c)
    BY <1>0, <1>l, GotFacts
  <2> QED BY <1>0, <1>3, <1>l, <2>1, GotFacts
<1>4. TokensKnown' /\ TokensApart' /\ TakenFound' /\ GotKnown' /\ ReceivedInOrder'
  <2>1. \A y \in Tokens : y \in R \/ (y.t.g # g /\ (y.p \in Flying => y.v # v))
    <3> SUFFICES ASSUME NEW y \in Tokens
                 PROVE  y.t.g # g /\ (y.p \in Flying => y.v # v)
      OBVIOUS
    <3>1. y.t.g # g
      BY <1>0, <1>a, Starts
    <3>2. ASSUME y.p \in Flying
          PROVE  y.v # v
      <4>1. y.v \in TakenSet(y.t.c)
        BY <1>0, <3>2 DEF TokensKnown, FlightFact
      <4>2. y.t.c \in Chans
        BY <1>0, TokenPlaces DEF Token, Task
      <4>3. y.v \in Placed(y.t.c)
        BY <4>1 DEF Placed
      <4>4. y.v = v => y.t.c = c
        BY <1>0, <1>l, <4>2, <4>3 DEF Ordered
      <4> QED BY <1>3, <4>1, <4>4
    <3> QED BY <3>1, <3>2
  <2>2. \A y \in A : SendFact(y)' /\ y.p = "ack" /\ \E w \in R : Alike(y, w)
    <3> SUFFICES ASSUME NEW y \in A
                 PROVE  SendFact(y)' /\ y.p = "ack" /\ \E w \in R : Alike(y, w)
      OBVIOUS
    <3>1. PICK w \in R : w.t = y.t /\ w.v = y.v
      BY <1>b
    <3>2. w.p = "offer" /\ y.p = "ack" /\ w \in Tokens /\ y.t.c = c
      BY <1>0, <1>a, <1>b, <3>1 DEF Moved, Change
    <3>3. w.v \in 1..Len(sent) /\ sent[w.v] = [c |-> w.t.c, st |-> "pending"]
      BY <1>0, <3>2 DEF TokensKnown, SendFact, Sending
    <3>4. y.v \in Kept(c)'
      <4>1. chan'[c] = x
        BY <1>0, <1>a DEF TypeOK
      <4> QED BY <1>3, <1>b, <4>1 DEF Kept
    <3>5. SendFact(y)'
      <4>1. y.v \in 1..Len(sent') /\ sent'[y.v] = [c |-> y.t.c, st |-> "pending"]
        BY <1>a, <3>1, <3>3
      <4> QED BY <3>2, <3>4, <4>1 DEF SendFact
    <3>6. Alike(y, w)
      BY <3>1, <3>2 DEF Alike, Sending
    <3> QED BY <3>1, <3>2, <3>5, <3>6
  <2>3. v \in Nat /\ v # Zero /\ v \in TakenSet(c)'
    BY <1>3 DEF Value, Zero
  <2>4. /\ \A y, z \in A : Alike(y, z) => y = z
        /\ \A d \in Chans : \A u \in TakenSet(d)' : u \in TakenSet(d) \/ u = v
        /\ \A w \in R : w.p \in Flying => w.v = v
    BY <1>3, <1>b DEF Flying
  <2> QED BY <1>0, <1>3, <1>a, <1>g, <2>1, <2>2, <2>3, <2>4, GotValues
<1>5. SendsKnown'
  BY <1>0, <1>3, <1>a, SendsMove DEF TypeOK
<1> QED BY <1>2, <1>3, <1>4, <1>5, Whole

\* The call that serves the first sender in line.
Serving(g, c, x, v) ==
  /\ CanStart(g) /\ Start(g, "ready") /\ sent' = sent /\ timers' = timers /\ done' = done
  /\ chan[c].senders # <<>> /\ x \in {ShiftBuffer(chan[c]), ShiftSender(chan[c])}
  /\ chan' = [chan EXCEPT ![c] = x] /\ x.closed = chan[c].closed
  /\ micro' = micro \o UnblockSender(chan[c])
  /\ LineOf(chan[c]) # <<>> /\ v = Head(LineOf(chan[c])) /\ LineOf(x) = Tail(LineOf(chan[c]))
  /\ ToSet(chan[c].buffer) \subseteq ToSet(x.buffer) \cup {v}
  /\ Head(chan[c].senders).v \in ToSet(x.buffer) \cup {v}
  /\ Take(c, v) /\ Return(g, c, v)

LEMMA ServedStep ==
  ASSUME ChannelInv, TypeOK', NEW g \in G, NEW c \in Chans, NEW x, NEW v, Serving(g, c, x, v)
  PROVE  Shape' /\ Awaited' /\ Values'
<1> DEFINE s == Head(chan[c].senders)
           R == {OfferToken(s)}
           A == {TokenAt("ack", s.t, s.v)}
<1>0. TypeOK /\ Shape /\ Awaited
  BY Parts
<1>1. Shape' /\ Moved(R, A) /\ s.t.c = c
  BY <1>0, ServesMoves DEF Serving
<1>2. /\ \A y \in A : /\ y.p = "ack" /\ y.t.c = c /\ y.v \in ToSet(x.buffer) \cup {v}
                      /\ \E w \in R : w.t = y.t /\ w.v = y.v
      /\ \A w \in R : w.p = "offer" /\ \E y \in A : w.t = y.t
      /\ \A y, z \in A : y = z
  BY <1>1 DEF OfferToken, TokenAt, Serving
<1>3. Moved(R, A)
  BY <1>1
<1> HIDE DEF R, A
<1>4. Taking(g, c, x, v, R, A)
  BY <1>2, <1>3 DEF Serving, Taking
<1> QED BY <1>1, <1>4, TakesStep

LEMMA ReceiveBufferedStep ==
  ASSUME ChannelInv, TypeOK', NEW g \in G, NEW c \in Chans, ReceiveBuffered(g, c)
  PROVE  Shape' /\ Awaited' /\ Values'
<1> DEFINE x == ShiftBuffer(chan[c])
           b == chan[c].buffer
           v == Head(b)
<1>0. TypeOK /\ QueueDiscipline /\ Shape /\ Ordered
  BY Parts
<1>a. /\ CanStart(g) /\ Start(g, "ready") /\ b # <<>> /\ chan' = [chan EXCEPT ![c] = x]
      /\ micro' = micro \o UnblockSender(chan[c]) /\ timers' = timers /\ done' = done
      /\ Take(c, v) /\ Return(g, c, v) /\ sent' = sent
  BY DEF ReceiveBuffered
<1>l. /\ chan[c] \in ChannelState /\ Disciplined(c, chan[c]) /\ b \in Seq(Value)
      /\ chan[c].senders \in Seq(SenderTask)
  BY <1>0, LineFacts, ChannelFields
<1>1. LineOf(chan[c]) # <<>> /\ v = Head(LineOf(chan[c])) /\ LineOf(x) = Tail(LineOf(chan[c]))
  BY <1>a, <1>l, LineSteps
<1>t. Tail(b) \in Seq(Value) /\ ToSet(b) \subseteq ToSet(Tail(b)) \cup {v}
  BY <1>a, <1>l, SetOfSeq, SeqSteps
<1>2. CASE chan[c].senders = <<>>
  <2>1. x.closed = chan[c].closed /\ x.buffer = Tail(b)
    BY <1>2, <1>l DEF ShiftBuffer, ChannelState
  <2>2. Shape' /\ Moved({}, {})
    BY <1>0, <1>a, <1>2, UnbuffersMoves
  <2>3. ToSet(b) \subseteq ToSet(x.buffer) \cup {v}
    BY <1>t, <2>1
  <2> HIDE DEF x, v
  <2>4. Taking(g, c, x, v, {}, {})
    BY <1>1, <1>a, <2>1, <2>2, <2>3 DEF Taking
  <2> QED BY <2>2, <2>4, TakesStep
<1>3. CASE chan[c].senders # <<>>
  <2> DEFINE w == Head(chan[c].senders).v
  <2>1. x.closed = chan[c].closed /\ x.buffer = Append(Tail(b), w)
    BY <1>3, <1>l DEF ShiftBuffer, ChannelState
  <2>2. w \in Value
    <3>1. Head(chan[c].senders) \in SenderTask
      BY <1>3, <1>l, SeqSteps
    <3> QED BY <3>1 DEF SenderTask
  <2>3. ToSet(x.buffer) = ToSet(Tail(b)) \cup {w}
    <3>1. \A q \in Seq(Value), u \in Value : ToSet(Append(q, u)) = ToSet(q) \cup {u}
      BY SetOfSeq
    <3> HIDE DEF w, x, b
    <3> QED BY <1>t, <2>1, <2>2, <3>1
  <2>4. x \in {ShiftBuffer(chan[c]), ShiftSender(chan[c])}
    OBVIOUS
  <2>5. ToSet(b) \subseteq ToSet(x.buffer) \cup {v} /\ w \in ToSet(x.buffer) \cup {v}
    BY <1>t, <2>3
  <2> HIDE DEF x, v, b
  <2>6. Serving(g, c, x, v)
    BY <1>1, <1>3, <1>a, <2>1, <2>4, <2>5 DEF Serving, w, b
  <2> QED BY <2>6, ServedStep
<1> QED BY <1>2, <1>3

LEMMA ReceiveFromSenderStep ==
  ASSUME ChannelInv, TypeOK', NEW g \in G, NEW c \in Chans, NEW withOk \in BOOLEAN,
         ReceiveFromSender(g, c, withOk)
  PROVE  Shape' /\ Awaited' /\ Values'
<1> DEFINE x == ShiftSender(chan[c])
           v == Head(chan[c].senders).v
<1>0. TypeOK /\ QueueDiscipline /\ Shape /\ Ordered
  BY Parts
<1>a. /\ CanStart(g) /\ Start(g, "ready") /\ chan[c].buffer = <<>>
      /\ chan[c].senders # <<>> /\ chan' = [chan EXCEPT ![c] = x]
      /\ micro' = micro \o UnblockSender(chan[c]) /\ timers' = timers /\ done' = done
      /\ Take(c, v) /\ Return(g, c, v) /\ sent' = sent
  BY DEF ReceiveFromSender
<1>l. chan[c] \in ChannelState /\ Disciplined(c, chan[c])
  BY <1>0, LineFacts
<1>1. LineOf(chan[c]) # <<>> /\ v = Head(LineOf(chan[c])) /\ LineOf(x) = Tail(LineOf(chan[c]))
  BY <1>a, <1>l, LineSteps
<1>2. /\ x.closed = chan[c].closed /\ x.buffer = chan[c].buffer
      /\ x \in {ShiftBuffer(chan[c]), ShiftSender(chan[c])}
  BY <1>l DEF ShiftSender, ChannelState
<1>3. /\ ToSet(chan[c].buffer) \subseteq ToSet(x.buffer) \cup {v}
      /\ Head(chan[c].senders).v \in ToSet(x.buffer) \cup {v}
  BY <1>2
<1> HIDE DEF x, v
<1>4. Serving(g, c, x, v)
  BY <1>1, <1>2, <1>3, <1>a DEF Serving
<1> QED BY <1>4, ServedStep

LEMMA ReceiveClosedStep ==
  ASSUME ChannelInv, TypeOK', NEW g \in G, NEW c \in Chans, NEW withOk \in BOOLEAN,
         ReceiveClosed(g, c, withOk)
  PROVE  Shape' /\ Awaited' /\ Values'
<1>0. TypeOK /\ QueueDiscipline /\ Shape /\ Awaited /\ Values /\ Ordered /\ SendsKnown
  BY Parts
<1>a. /\ CanStart(g) /\ Start(g, "ready") /\ Return(g, c, Zero)
      /\ chan[c].closed /\ chan[c].buffer = <<>>
      /\ UNCHANGED <<chan, micro, timers, done, sent, taken>>
  BY DEF ReceiveClosed
<1>1. Shape' /\ Moved({}, {})
  BY <1>0, <1>a, NothingMoves
<1>2. Awaited'
  BY <1>0, <1>1, <1>a, AwaitedAtOnce
<1>3. /\ Onward /\ Ordered'
      /\ \A d \in Chans : TakenSet(d)' = TakenSet(d) /\ Exhausted(d)' = Exhausted(d)
  BY <1>0, <1>a, StillValues
<1>e. Exhausted(c)
  <2>1. chan[c] \in ChannelState /\ Disciplined(c, chan[c])
    BY <1>0, LineFacts
  <2>2. chan[c].senders = <<>>
    BY <1>a, <2>1 DEF Disciplined
  <2>3. LineOf(chan[c]) = <<>>
    <3>1. LineOf(CloseChannel(chan[c])) = chan[c].buffer
      BY <2>1, LineSteps
    <3>2. /\ CloseChannel(chan[c]).buffer = chan[c].buffer
          /\ CloseChannel(chan[c]).senders = chan[c].senders
      BY <2>1, <2>2 DEF CloseChannel, ChannelState
    <3>3. LineOf(CloseChannel(chan[c])) = LineOf(chan[c])
      BY <3>2 DEF LineOf
    <3> QED BY <1>a, <3>1, <3>3
  <2> QED BY <1>a, <2>3 DEF Exhausted
<1>4. TokensKnown' /\ TokensApart' /\ TakenFound' /\ GotKnown' /\ ReceivedInOrder'
  <2>1. \A y \in Tokens : y.t.g # g /\ (y.p \in Flying => y.v # Zero)
    BY <1>0, <1>a, Starts, OldValues
  <2>2. Zero \in Nat /\ Exhausted(c)'
    BY <1>3, <1>e DEF Zero
  <2> QED BY <1>0, <1>1, <1>3, <1>a, <2>1, <2>2, GotValues
<1>5. SendsKnown'
  BY <1>0, <1>3, <1>a, SendsMove DEF TypeOK
<1> QED BY <1>1, <1>2, <1>3, <1>4, <1>5, Whole

LEMMA ReceiveBlocksStep ==
  ASSUME ChannelInv, TypeOK', NEW g \in G, NEW c \in Chans, NEW withOk \in BOOLEAN,
         ReceiveBlocks(g, c, withOk)
  PROVE  Shape' /\ Awaited' /\ Values'
<1> DEFINE me == TaskOf(g, c, 0)
<1>0. TypeOK /\ QueueDiscipline /\ Shape /\ Awaited /\ Values /\ Ordered /\ SendsKnown
  BY Parts
<1>a. /\ CanStart(g) /\ Start(g, "waiting") /\ sent' = sent /\ taken' = taken /\ got' = got
  BY DEF ReceiveBlocks
<1>1. Shape' /\ \E p \in {"want", "wantOk"} : Moved({}, {TokenAt(p, me, Zero)})
  BY <1>0, ReceiveBlocksMoves
<1>p. PICK p \in {"want", "wantOk"} : Moved({}, {TokenAt(p, me, Zero)})
  BY <1>1
<1> DEFINE a == TokenAt(p, me, Zero)
<1>t. a.p \in {"want", "wantOk"} /\ a.t = TaskOf(g, c, 0)
  BY <1>p DEF TokenAt
<1>m. Moved({}, {a})
  BY <1>p
<1> HIDE DEF a, me
<1>2. Awaited'
  <2>1. Moved({}, {} \cup {a})
    <3>1. {} \cup {a} = {a}
      OBVIOUS
    <3> QED BY <1>m, <3>1
  <2> QED BY <1>0, <1>a, <1>t, <2>1, AwaitedBlocks
<1>v. \A d \in Chans : /\ LineOf(chan'[d]) = LineOf(chan[d])
                       /\ chan'[d].buffer = chan[d].buffer
                       /\ chan'[d].closed = chan[d].closed
  <2> SUFFICES ASSUME NEW d \in Chans
               PROVE  /\ LineOf(chan'[d]) = LineOf(chan[d])
                      /\ chan'[d].buffer = chan[d].buffer
                      /\ chan'[d].closed = chan[d].closed
    OBVIOUS
  <2>1. chan \in [Chans -> ChannelState]
    BY <1>0 DEF TypeOK
  <2>2. /\ chan'[d].buffer = chan[d].buffer /\ chan'[d].senders = chan[d].senders
        /\ chan'[d].closed = chan[d].closed
    BY <2>1 DEF ReceiveBlocks, ChannelState
  <2> QED BY <2>2 DEF LineOf
<1>3. Onward /\ Ordered'
  BY <1>0, <1>a, <1>v, ValuesStay
<1>4. TokensKnown' /\ TokensApart' /\ TakenFound' /\ GotKnown' /\ ReceivedInOrder'
  <2>1. \A d \in Chans : TakenSet(d)' = TakenSet(d)
    BY <1>a DEF TakenSet
  <2>2. \A y \in {a} : /\ SendFact(y)' /\ FlightFact(y)' /\ WakeFact(y)'
                       /\ y.p \notin Sending \cup Flying
    <3> SUFFICES ASSUME NEW y \in {a}
                 PROVE  /\ SendFact(y)' /\ FlightFact(y)' /\ WakeFact(y)'
                        /\ y.p \notin Sending \cup Flying
      OBVIOUS
    <3>1. y.p \in {"want", "wantOk"}
      BY <1>t
    <3> QED BY <3>1 DEF SendFact, FlightFact, WakeFact, Sending, Flying
  <2> QED BY <1>0, <1>3, <1>a, <1>m, <2>1, <2>2, UngotValues
<1>5. SendsKnown'
  BY <1>0, <1>3, <1>a, SendsMove DEF TypeOK
<1> QED BY <1>1, <1>2, <1>3, <1>4, <1>5, Whole

LEMMA CloseStep ==
  ASSUME ChannelInv, TypeOK', NEW g \in G, NEW c \in Chans, Close(g, c)
  PROVE  Shape' /\ Awaited' /\ Values'
<1> DEFINE R == QueueTokens(chan[c])
           A == CloseTokens(chan[c])
<1>0. /\ TypeOK /\ QueueDiscipline /\ Shape /\ Awaited /\ Values /\ Ordered /\ SendsKnown
      /\ TokensKnown
  BY Parts
<1>a. /\ CanStart(g) /\ Start(g, "ready") /\ sent' = sent /\ taken' = taken /\ got' = got
  BY DEF Close
<1>1. Shape' /\ Moved(R, A)
  BY <1>0, CloseMoves
<1>r. \A w \in R : w \in Tokens /\ w.t.c = c /\ w.p \in {"offer", "want", "wantOk"}
  <2>1. \A w \in R : w \in QueuedTokens /\ w \in Tokens
    BY DEF QueuedTokens, Tokens
  <2> QED BY <1>0, <2>1, TokenPlaces
<1>c. \A x \in A : \/ \E s \in ToSet(chan[c].senders) :
                          x = TokenAt("closed", s.t, s.v) /\ TokenAt("offer", s.t, s.v) \in R
                   \/ \E t \in ToSet(chan[c].receivers) \cup ToSet(chan[c].receiversWithOk) :
                          /\ x = TokenAt("zero", t, Zero)
                          /\ TokenAt("want", t, Zero) \in R \/ TokenAt("wantOk", t, Zero) \in R
  BY DEF CloseTokens, QueueTokens
<1>o. \A w \in R : \E x \in A : x.t = w.t
  <2> SUFFICES ASSUME NEW w \in R
               PROVE  \E x \in A : x.t = w.t
    OBVIOUS
  <2>1. \/ \E s \in ToSet(chan[c].senders) :
             w.t = s.t /\ TokenAt("closed", s.t, s.v) \in A
        \/ \E t \in ToSet(chan[c].receivers) \cup ToSet(chan[c].receiversWithOk) :
             w.t = t /\ TokenAt("zero", t, Zero) \in A
    BY DEF CloseTokens, QueueTokens, TokenAt
  <2>2. \A p, t, v : TokenAt(p, t, v).t = t
    BY DEF TokenAt
  <2> HIDE DEF A, R
  <2> QED BY <2>1, <2>2
<1>w. \A x \in A :
        \/ x.p = "zero" /\ HasReceiver(chan[c]) /\ \E w \in R : w.t = x.t /\ w.p # "offer"
        \/ /\ x.p = "closed" /\ \E s \in ToSet(chan[c].senders) : x.v = s.v
           /\ \E w \in R : w.t = x.t /\ w.p = "offer" /\ w.v = x.v
  <2> SUFFICES ASSUME NEW x \in A
               PROVE
        \/ x.p = "zero" /\ HasReceiver(chan[c]) /\ \E w \in R : w.t = x.t /\ w.p # "offer"
        \/ /\ x.p = "closed" /\ \E s \in ToSet(chan[c].senders) : x.v = s.v
           /\ \E w \in R : w.t = x.t /\ w.p = "offer" /\ w.v = x.v
    OBVIOUS
  <2>1. \A p, t, v : /\ TokenAt(p, t, v).t = t /\ TokenAt(p, t, v).p = p
                     /\ TokenAt(p, t, v).v = v
    BY DEF TokenAt
  <2>2. ASSUME NEW s \in ToSet(chan[c].senders),
               x = TokenAt("closed", s.t, s.v), TokenAt("offer", s.t, s.v) \in R
        PROVE  /\ x.p = "closed" /\ x.v = s.v
               /\ \E w \in R : w.t = x.t /\ w.p = "offer" /\ w.v = x.v
    <3> HIDE DEF R
    <3> QED BY <2>1, <2>2
  <2>3. ASSUME NEW t \in ToSet(chan[c].receivers) \cup ToSet(chan[c].receiversWithOk),
               x = TokenAt("zero", t, Zero),
               TokenAt("want", t, Zero) \in R \/ TokenAt("wantOk", t, Zero) \in R
        PROVE  x.p = "zero" /\ HasReceiver(chan[c]) /\ \E w \in R : w.t = x.t /\ w.p # "offer"
    <3>1. HasReceiver(chan[c])
      <4>1. chan[c].receivers \in Seq(Task) /\ chan[c].receiversWithOk \in Seq(Task)
        BY <1>0, LineFacts, ChannelFields
      <4> QED BY <2>3, <4>1, SetOfSeq DEF HasReceiver
    <3> HIDE DEF R
    <3> QED BY <2>1, <2>3, <3>1
  <2> HIDE DEF R, A
  <2> QED BY <1>c, <2>2, <2>3
<1> HIDE DEF R, A
<1>2. Awaited'
  <2>1. \A x \in A : \E w \in R : x.t = w.t
    BY <1>w
  <2>2. \A w \in R : \E x \in A : x.t = w.t
    BY <1>o
  <2>3. \A x, y \in A : x.t = y.t => x = y
    <3> SUFFICES ASSUME NEW x \in A, NEW y \in A, x.t = y.t
                 PROVE  x = y
      OBVIOUS
    <3>1. PICK v \in R : v.t = x.t /\ (x.p = "closed" => v.p = "offer" /\ v.v = x.v)
                                   /\ (x.p = "zero" => v.p # "offer")
      BY <1>w
    <3>2. PICK w \in R : w.t = y.t /\ (y.p = "closed" => w.p = "offer" /\ w.v = y.v)
                                   /\ (y.p = "zero" => w.p # "offer")
      BY <1>w
    <3>3. v = w
      BY <1>0, <1>r, <3>1, <3>2 DEF Awaited
    <3>4. \A z \in A : \/ z.p = "closed" /\ z = TokenAt("closed", z.t, z.v)
                       \/ z.p = "zero" /\ z = TokenAt("zero", z.t, Zero)
      <4>1. \A p, t, u : /\ TokenAt(p, t, u).t = t /\ TokenAt(p, t, u).p = p
                         /\ TokenAt(p, t, u).v = u
        BY DEF TokenAt
      <4> QED BY <1>c, <4>1
    <3> QED BY <3>1, <3>2, <3>3, <3>4
  <2> QED BY <1>0, <1>1, <1>a, <2>1, <2>2, <2>3, AwaitedServing
<1>3. /\ Onward /\ Ordered'
      /\ \A s \in ToSet(chan[c].senders) : s.v \notin Placed(c)'
      /\ HasReceiver(chan[c]) => Exhausted(c)'
  BY <1>0, ValueClosed
<1>4. TokensKnown' /\ TokensApart' /\ TakenFound' /\ GotKnown' /\ ReceivedInOrder'
  <2>1. \A d \in Chans : TakenSet(d)' = TakenSet(d)
    BY <1>a DEF TakenSet
  <2>2. \A x \in A : SendFact(x)' /\ FlightFact(x)' /\ WakeFact(x)'
    <3> SUFFICES ASSUME NEW x \in A
                 PROVE  SendFact(x)' /\ FlightFact(x)' /\ WakeFact(x)'
      OBVIOUS
    <3>0. x.t.c = c /\ x.p \in {"zero", "closed"}
      BY <1>r, <1>w
    <3>1. CASE x.p = "zero"
      BY <1>3, <1>w, <3>0, <3>1 DEF SendFact, FlightFact, WakeFact, Sending, Flying
    <3>2. CASE x.p = "closed"
      <4>1. PICK w \in R : w.t = x.t /\ w.p = "offer" /\ w.v = x.v
        BY <1>w, <3>2
      <4>2. w.v \in 1..Len(sent) /\ sent[w.v] = [c |-> w.t.c, st |-> "pending"]
        BY <1>0, <1>r, <4>1 DEF TokensKnown, SendFact, Sending
      <4>3. x.v \in 1..Len(sent') /\ sent'[x.v] = [c |-> x.t.c, st |-> "pending"]
        BY <1>a, <4>1, <4>2
      <4>4. x.v \notin Placed(c)'
        BY <1>3, <1>w, <3>2
      <4> QED BY <3>0, <3>2, <4>3, <4>4 DEF SendFact, FlightFact, WakeFact, Flying
    <3> QED BY <3>0, <3>1, <3>2
  <2>3. \A x \in A : x.p \notin Sending \cup Flying \/ \E w \in R : Alike(x, w)
    BY <1>w DEF Alike, Sending, Flying
  <2>4. \A x, y \in A : Alike(x, y) => x = y
    <3> SUFFICES ASSUME NEW x \in A, NEW y \in A, Alike(x, y)
                 PROVE  x = y
      OBVIOUS
    <3>1. x.p = "closed" /\ y.p = "closed" /\ x.v = y.v
      BY <1>w DEF Alike, Sending, Flying
    <3>2. PICK v \in R : v.t = x.t /\ v.p = "offer" /\ v.v = x.v
      BY <1>w, <3>1
    <3>3. PICK w \in R : w.t = y.t /\ w.p = "offer" /\ w.v = y.v
      BY <1>w, <3>1
    <3>4. Alike(v, w)
      BY <3>1, <3>2, <3>3 DEF Alike, Sending
    <3>5. v = w
      BY <1>0, <1>r, <3>4 DEF Values, TokensApart
    <3>6. \A z \in A : z.p = "closed" => z = TokenAt("closed", z.t, z.v)
      <4>1. \A p, t, u : /\ TokenAt(p, t, u).t = t /\ TokenAt(p, t, u).p = p
                         /\ TokenAt(p, t, u).v = u
        BY DEF TokenAt
      <4> QED BY <1>c, <4>1
    <3> QED BY <3>1, <3>2, <3>3, <3>5, <3>6
  <2>5. \A w \in R : w.p \notin Flying
    BY <1>r DEF Flying
  <2> QED BY <1>0, <1>1, <1>3, <1>a, <2>1, <2>2, <2>3, <2>4, <2>5, UngotValues
<1>5. SendsKnown'
  BY <1>0, <1>3, <1>a, SendsMove DEF TypeOK
<1> QED BY <1>1, <1>2, <1>3, <1>4, <1>5, Whole

LEMMA RunHandoffStep ==
  ASSUME ChannelInv, TypeOK', RunHandoff
  PROVE  Shape' /\ Awaited' /\ Values'
<1> DEFINE h == Head(micro)
           a == TokenAt("handoff", h.to, h.v)
           b == TokenAt("hand", h.from, h.v)
           e == TokenAt("ack", h.from, h.v)
           f == TokenAt("received", h.to, h.v)
           R == {a, b}
           A == {e, f}
<1>0. /\ TypeOK /\ Shape /\ Awaited /\ Values /\ Ordered /\ SendsKnown /\ TokensKnown
  BY Parts
<1>a. UNCHANGED <<chan, pc, op, sent, taken, got>>
  BY DEF RunHandoff
<1>1. Shape' /\ Moved(R, A) /\ h.to.c = h.from.c /\ h.to \in Task /\ h.from \in Task
  BY <1>0, HandoffMoves
<1>t. /\ a.p = "handoff" /\ b.p = "hand" /\ e.p = "ack" /\ f.p = "received"
      /\ a.t = f.t /\ b.t = e.t /\ b.t.c = f.t.c
      /\ a.v = f.v /\ b.v = e.v
      /\ b.t.c \in Chans
  BY <1>1 DEF TokenAt, Task
<1>o. a \in Tokens /\ b \in Tokens
  BY <1>1 DEF Moved, Change
<1> HIDE DEF h, a, b, e, f
<1>2. Awaited'
  <2>1. e.t # f.t
    BY <1>0, <1>o, <1>t DEF Awaited
  <2>2. /\ \A x \in A : \E w \in R : x.t = w.t
        /\ \A w \in R : \E x \in A : x.t = w.t
        /\ \A x, y \in A : x.t = y.t => x = y
    BY <1>t, <2>1
  <2> HIDE DEF A, R
  <2> QED BY <1>0, <1>1, <1>a, <2>2, AwaitedJob
<1>3. /\ Onward /\ Ordered'
      /\ \A d \in Chans : /\ Kept(d)' = Kept(d) /\ TakenSet(d)' = TakenSet(d)
  BY <1>0, <1>a, StillValues
<1>4. TokensKnown' /\ TokensApart' /\ TakenFound' /\ GotKnown' /\ ReceivedInOrder'
  <2>1. \A x : x.p = "ack" /\ x.t = b.t /\ x.v = b.v =>
                 SendFact(x)' /\ FlightFact(x)' /\ WakeFact(x)'
    <3>1. /\ b.v \in 1..Len(sent) /\ sent[b.v] = [c |-> b.t.c, st |-> "pending"]
          /\ b.v \in Kept(b.t.c)
      BY <1>0, <1>o, <1>t DEF TokensKnown, SendFact, Sending
    <3> SUFFICES ASSUME NEW x, x.p = "ack", x.t = b.t, x.v = b.v
                 PROVE  SendFact(x)' /\ FlightFact(x)' /\ WakeFact(x)'
      OBVIOUS
    <3>2. x.v \in 1..Len(sent') /\ sent'[x.v] = [c |-> x.t.c, st |-> "pending"]
      BY <1>a, <3>1
    <3>3. x.v \in Kept(x.t.c)'
      BY <1>3, <1>t, <3>1
    <3> QED BY <3>2, <3>3 DEF SendFact, FlightFact, WakeFact, Flying
  <2>2. \A x : x.p = "received" /\ x.t = a.t /\ x.v = a.v =>
                 SendFact(x)' /\ FlightFact(x)' /\ WakeFact(x)'
    <3>1. /\ a.v \in TakenSet(a.t.c) /\ ~InGot(a.v)
          /\ \A k \in 1..Len(got[a.t.g]) :
               got[a.t.g][k].c = a.t.c => got[a.t.g][k].v # Zero /\ got[a.t.g][k].v < a.v
      BY <1>0, <1>o, <1>t DEF TokensKnown, FlightFact, Flying
    <3>2. \A v : InGot(v)' <=> InGot(v)
      BY <1>a DEF InGot
    <3> SUFFICES ASSUME NEW x, x.p = "received", x.t = a.t, x.v = a.v
                 PROVE  SendFact(x)' /\ FlightFact(x)' /\ WakeFact(x)'
      OBVIOUS
    <3>3. x.v \in TakenSet(x.t.c)' /\ ~InGot(x.v)'
      BY <1>3, <1>t, <3>1, <3>2
    <3>4. \A k \in 1..Len(got'[x.t.g]) :
            got'[x.t.g][k].c = x.t.c => got'[x.t.g][k].v # Zero /\ got'[x.t.g][k].v < x.v
      BY <1>a, <3>1
    <3> QED BY <3>3, <3>4 DEF SendFact, FlightFact, WakeFact, Sending
  <2>3. /\ \A x \in A : \/ x.p = "ack" /\ x.t = b.t /\ x.v = b.v
                        \/ x.p = "received" /\ x.t = a.t /\ x.v = a.v
        /\ \A x, y \in A : Alike(x, y) => x = y
        /\ \A x \in A : \E w \in R : Alike(x, w)
        /\ \A w \in R : w.p \in Flying => \E x \in A : x.p \in Flying /\ x.v = w.v
    BY <1>t DEF Alike, Sending, Flying
  <2>4. \A x \in A : SendFact(x)' /\ FlightFact(x)' /\ WakeFact(x)'
    <3> HIDE DEF A
    <3> QED BY <2>1, <2>2, <2>3
  <2> HIDE DEF A, R
  <2> QED BY <1>0, <1>1, <1>3, <1>a, <2>3, <2>4, UngotValues
<1>5. SendsKnown'
  BY <1>0, <1>3, <1>a, SendsMove DEF TypeOK
<1> QED BY <1>1, <1>2, <1>3, <1>4, <1>5, Whole

LEMMA RunSentStep ==
  ASSUME ChannelInv, TypeOK', RunSent
  PROVE  Shape' /\ Awaited' /\ Values'
<1> DEFINE h == Head(micro)
           a == TokenAt("ack", h.to, h.v)
           b == TokenAt("sent", h.to, h.v)
<1>0. /\ TypeOK /\ Shape /\ Awaited /\ Values /\ Ordered /\ SendsKnown /\ TokensKnown
  BY Parts
<1>a. UNCHANGED <<chan, pc, op, sent, taken, got>>
  BY DEF RunSent
<1>1. Shape' /\ Moved({a}, {b}) /\ h.to \in Task
  BY <1>0, SentMoves
<1>t. /\ a.p = "ack" /\ b.p = "sent" /\ a.t = b.t /\ a.v = b.v /\ a.t.c \in Chans
  BY <1>1 DEF TokenAt, Task
<1>o. a \in Tokens
  BY <1>1 DEF Moved, Change
<1> HIDE DEF h, a, b
<1>2. Awaited'
  BY <1>0, <1>1, <1>a, <1>t, AwaitedJob
<1>3. /\ Onward /\ Ordered'
      /\ \A d \in Chans : /\ Kept(d)' = Kept(d) /\ TakenSet(d)' = TakenSet(d)
  BY <1>0, <1>a, StillValues
<1>4. TokensKnown' /\ TokensApart' /\ TakenFound' /\ GotKnown' /\ ReceivedInOrder'
  <2>1. \A x \in {b} : SendFact(x)' /\ FlightFact(x)' /\ WakeFact(x)'
    <3>1. /\ a.v \in 1..Len(sent) /\ sent[a.v] = [c |-> a.t.c, st |-> "pending"]
          /\ a.v \in Kept(a.t.c)
      BY <1>0, <1>o, <1>t DEF TokensKnown, SendFact, Sending
    <3> SUFFICES ASSUME NEW x \in {b}
                 PROVE  SendFact(x)' /\ FlightFact(x)' /\ WakeFact(x)'
      OBVIOUS
    <3>0. x.p = "sent" /\ x.t = a.t /\ x.v = a.v
      BY <1>t
    <3>2. x.v \in 1..Len(sent') /\ sent'[x.v] = [c |-> x.t.c, st |-> "pending"]
      BY <1>a, <3>0, <3>1
    <3>3. x.v \in Kept(x.t.c)'
      BY <1>3, <1>t, <3>0, <3>1
    <3> QED BY <3>0, <3>2, <3>3 DEF SendFact, FlightFact, WakeFact, Flying
  <2>2. /\ \A x, y \in {b} : Alike(x, y) => x = y
        /\ \A x \in {b} : \E w \in {a} : Alike(x, w)
        /\ \A w \in {a} : w.p \notin Flying
    BY <1>t DEF Alike, Sending, Flying
  <2> QED BY <1>0, <1>1, <1>3, <1>a, <2>1, <2>2, UngotValues
<1>5. SendsKnown'
  BY <1>0, <1>3, <1>a, SendsMove DEF TypeOK
<1> QED BY <1>1, <1>2, <1>3, <1>4, <1>5, Whole

\* A goroutine continues: it looks at token x, which says that its send is over
\* or what its receive returns.
Continuing(g, x) ==
  /\ x \in Tokens /\ x.t.g = g /\ Moved({x}, {})
  /\ pc' = [pc EXCEPT ![g] = "ready"] /\ op' = op /\ chan' = chan /\ taken' = taken

ToldStep(g, x, st) ==
  /\ Continuing(g, x) /\ got' = got /\ sent' = [sent EXCEPT ![x.v].st = st]
  /\ \/ x.p = "sent" /\ st = "returned"
     \/ x.p = "closed" /\ st = "panicked"

GivenStep(g, x) ==
  /\ Continuing(g, x) /\ sent' = sent /\ Return(g, x.t.c, x.v)
  /\ \/ x.p = "received"
     \/ x.p = "zero" /\ x.v = Zero

LEMMA Told ==
  ASSUME ChannelInv, TypeOK', Shape', NEW g \in G, NEW x, NEW st, ToldStep(g, x, st)
  PROVE  Awaited' /\ Values'
<1>0. /\ TypeOK /\ Shape /\ Awaited /\ Values /\ Ordered /\ SendsKnown /\ TokensKnown
  BY Parts
<1>a. /\ x \in Tokens /\ x.t.g = g /\ Moved({x}, {}) /\ pc' = [pc EXCEPT ![g] = "ready"]
      /\ op' = op /\ chan' = chan /\ taken' = taken /\ got' = got
      /\ sent' = [sent EXCEPT ![x.v].st = st]
      /\ (x.p = "sent" /\ st = "returned") \/ (x.p = "closed" /\ st = "panicked")
  BY DEF ToldStep, Continuing
<1>2. Awaited'
  BY <1>0, <1>a, AwaitedContinues
<1>f. /\ x.v \in 1..Len(sent) /\ sent[x.v] = [c |-> x.t.c, st |-> "pending"]
      /\ x.p = "sent" => x.v \in Kept(x.t.c)
      /\ x.p = "closed" => x.v \notin Placed(x.t.c)
      /\ x.p \in Sending
  BY <1>0, <1>a DEF TokensKnown, SendFact, Sending
<1>r. /\ Len(sent') = Len(sent)
      /\ \A v \in 1..Len(sent) : /\ v # x.v => sent'[v] = sent[v]
                                 /\ sent'[v].c = sent[v].c
      /\ sent'[x.v].c = x.t.c /\ sent'[x.v].st = st
  <2>1. sent \in Seq(SendRecord)
    BY <1>0 DEF TypeOK
  <2>2. DOMAIN sent = 1..Len(sent)
    BY <2>1
  <2>3. /\ \A v \in 1..Len(sent) : v # x.v => sent'[v] = sent[v]
        /\ sent'[x.v] = [c |-> x.t.c, st |-> st]
    BY <1>a, <1>f, <2>2
  <2>4. Len(sent') = Len(sent)
    BY <1>a, <2>1
  <2> QED BY <1>f, <2>3, <2>4
<1>3. /\ Onward /\ Ordered'
      /\ \A d \in Chans : Kept(d)' = Kept(d) /\ Placed(d)' = Placed(d)
  BY <1>0, <1>a, <1>r, StillValues
<1>4. TokensKnown' /\ TokensApart' /\ TakenFound' /\ GotKnown' /\ ReceivedInOrder'
  BY <1>0, <1>3, <1>a, <1>f, <1>r, ToldValues
<1>5. SendsKnown'
  <2>1. \A v \in 1..Len(sent') :
           \/ v \in 1..Len(sent) /\ sent'[v] = sent[v]
           \/ sent'[v].st = "returned" /\ \A d \in Chans : sent'[v].c = d => v \in Kept(d)'
           \/ sent'[v].st = "panicked" /\ \A d \in Chans : sent'[v].c = d => v \notin Placed(d)'
    <3> SUFFICES ASSUME NEW v \in 1..Len(sent'), v = x.v
                 PROVE
           \/ sent'[v].st = "returned" /\ \A d \in Chans : sent'[v].c = d => v \in Kept(d)'
           \/ sent'[v].st = "panicked" /\ \A d \in Chans : sent'[v].c = d => v \notin Placed(d)'
      BY <1>r
    <3> QED BY <1>3, <1>a, <1>f, <1>r
  <2> QED BY <1>0, <1>3, <2>1, SendsMove DEF TypeOK
<1> QED BY <1>2, <1>3, <1>4, <1>5, Whole

LEMMA Given ==
  ASSUME ChannelInv, TypeOK', Shape', NEW g \in G, NEW x, GivenStep(g, x)
  PROVE  Awaited' /\ Values'
<1> DEFINE c == x.t.c
           v == x.v
<1>0. /\ TypeOK /\ Shape /\ Awaited /\ Values /\ Ordered /\ SendsKnown /\ TokensKnown
      /\ TokensApart
  BY Parts
<1>a. /\ x \in Tokens /\ x.t.g = g /\ Moved({x}, {}) /\ pc' = [pc EXCEPT ![g] = "ready"]
      /\ op' = op /\ chan' = chan /\ taken' = taken /\ sent' = sent /\ Return(g, c, v)
      /\ x.p = "received" \/ (x.p = "zero" /\ v = Zero)
  BY DEF GivenStep, Continuing
<1>2. Awaited'
  BY <1>0, <1>a, AwaitedContinues
<1>t. c \in Chans /\ v \in Nat
  BY <1>0, <1>a, TokenPlaces DEF Token, Task
<1>3. /\ Onward /\ Ordered'
      /\ \A d \in Chans : TakenSet(d)' = TakenSet(d) /\ Exhausted(d)' = Exhausted(d)
  BY <1>0, <1>a, StillValues
<1>f. /\ x.p = "received" => /\ v \in TakenSet(c) /\ ~InGot(v) /\ v # Zero
                             /\ \A k \in 1..Len(got[g]) :
                                  got[g][k].c = c => got[g][k].v # Zero /\ got[g][k].v < v
      /\ x.p = "zero" => Exhausted(c)
  <2>1. x.p = "received" => v # Zero
    BY <1>0, <1>a, OldValues DEF Flying
  <2> QED BY <1>0, <1>a, <2>1 DEF TokensKnown, FlightFact, WakeFact, Flying
<1>y. \A y \in Tokens : y \in {x} \/ (y.t.g # g /\ (y.p \in Flying => y.v # v))
  <2> SUFFICES ASSUME NEW y \in Tokens, y # x
               PROVE  y.t.g # g /\ (y.p \in Flying => y.v # v)
    OBVIOUS
  <2>1. y.t.g # g
    BY <1>0, <1>a DEF Awaited
  <2>2. y.p \in Flying => y.v # Zero
    BY <1>0, OldValues
  <2>3. y.p \in Flying /\ x.p = "received" => y.v # v
    BY <1>0, <1>a DEF TokensApart, Alike, Flying
  <2> QED BY <1>a, <2>1, <2>2, <2>3
<1>i. /\ IF v = Zero THEN Exhausted(c)' ELSE v \in TakenSet(c)'
      /\ v # Zero => /\ ~InGot(v)
                     /\ \A k \in 1..Len(got[g]) :
                          got[g][k].c = c => got[g][k].v # Zero /\ got[g][k].v < v
  BY <1>3, <1>a, <1>f, <1>t
<1>4. TokensKnown' /\ TokensApart' /\ TakenFound' /\ GotKnown' /\ ReceivedInOrder'
  BY <1>0, <1>3, <1>a, <1>i, <1>t, <1>y, GotValues
<1>5. SendsKnown'
  BY <1>0, <1>3, <1>a, SendsMove DEF TypeOK
<1> QED BY <1>2, <1>3, <1>4, <1>5, Whole

LEMMA ResumeStep ==
  ASSUME ChannelInv, TypeOK', NEW g \in G, Resume(g)
  PROVE  Shape' /\ Awaited' /\ Values'
<1>0. TypeOK /\ Shape /\ Awaited
  BY Parts
<1>a. PICK o \in done[g] : Continue(g, o)
  BY DEF Resume
<1>b. /\ UNCHANGED <<chan, micro, timers, op, taken>> /\ done' = [done EXCEPT ![g] = {}]
      /\ pc' = [pc EXCEPT ![g] = "ready"]
  BY <1>a DEF Resume, Continue
<1> DEFINE x == OutcomeToken(o)
<1>1. /\ Shape' /\ Moved({x}, {}) /\ x \in Tokens
      /\ o.kind \in {"sent", "received"} /\ o.t.g = g
  BY <1>0, <1>a, <1>b, ResumeMoves
<1>2. x.p = o.kind /\ x.t = o.t /\ x.v = o.v
  BY DEF OutcomeToken, TokenAt
<1> HIDE DEF x
<1>3. Continuing(g, x)
  BY <1>1, <1>2, <1>b DEF Continuing
<1>4. CASE o.kind = "sent"
  <2>1. ToldStep(g, x, "returned")
    BY <1>2, <1>3, <1>4, <1>a DEF Continue, ToldStep
  <2> QED BY <1>1, <2>1, Told
<1>5. CASE o.kind = "received"
  <2>1. GivenStep(g, x)
    BY <1>2, <1>3, <1>5, <1>a DEF Continue, GivenStep, Return
  <2> QED BY <1>1, <2>1, Given
<1> QED BY <1>1, <1>4, <1>5

LEMMA RunTimerStep ==
  ASSUME ChannelInv, TypeOK', RunTimer
  PROVE  Shape' /\ Awaited' /\ Values'
<1> DEFINE h == Head(timers)
           x == TimerToken(h)
           g == h.to.g
           o == TimerOutcome(h)
<1>0. TypeOK /\ Shape /\ Awaited
  BY Parts
<1>1. /\ Shape' /\ Moved({x}, {}) /\ x \in Tokens /\ h \in Job
      /\ h.kind \in {"zero", "closed"} /\ (h.kind = "zero" <=> h.v = Zero)
  BY <1>0, TimerMoves
<1>2. /\ x.p = h.kind /\ x.t = h.to /\ x.v = h.v /\ g \in G
  BY <1>1 DEF TimerToken, TokenAt, Job, Task
<1>3. Continue(g, o) /\ UNCHANGED <<chan, micro, op, done, taken>>
  BY DEF RunTimer
<1>4. /\ o.t = h.to /\ o.v = h.v
      /\ h.kind = "closed" => o.kind = "panic"
      /\ h.kind = "zero" => o.kind = "received"
  BY DEF TimerOutcome
<1> HIDE DEF x, h, o
<1>5. Continuing(g, x)
  BY <1>1, <1>2, <1>3 DEF Continuing, Continue
<1>6. CASE h.kind = "closed"
  <2>1. ToldStep(g, x, "panicked")
    BY <1>2, <1>3, <1>4, <1>5, <1>6 DEF Continue, ToldStep
  <2> QED BY <1>1, <1>2, <2>1, Told
<1>7. CASE h.kind = "zero"
  <2>1. GivenStep(g, x)
    BY <1>1, <1>2, <1>3, <1>4, <1>5, <1>7 DEF Continue, GivenStep, Return
  <2> QED BY <1>1, <1>2, <2>1, Given
<1> QED BY <1>1, <1>6, <1>7

LEMMA ChannelInvStep == ChannelInv /\ [Next]_vars => ChannelInv'
<1> SUFFICES ASSUME ChannelInv, [Next]_vars
             PROVE  ChannelInv'
  OBVIOUS
<1>0. TypeOK /\ QueueDiscipline
  BY Parts
<1>1. TypeOK' /\ QueueDiscipline'
  BY <1>0, TypeStep, DisciplineStep
<1>2. Shape' /\ Awaited' /\ Values'
  <2>1. ASSUME NEW g \in G, NEW c \in Chans, Send(g, c)
        PROVE  Shape' /\ Awaited' /\ Values'
    BY <1>1, <2>1, SendPanicsStep, SendHandsOffStep, SendBuffersStep, SendBlocksStep DEF Send
  <2>2. ASSUME NEW g \in G, NEW c \in Chans, NEW withOk \in BOOLEAN, Receive(g, c, withOk)
        PROVE  Shape' /\ Awaited' /\ Values'
    BY <1>1, <2>2, ReceiveBufferedStep, ReceiveClosedStep, ReceiveFromSenderStep,
       ReceiveBlocksStep DEF Receive
  <2>3. ASSUME NEW g \in G, NEW c \in Chans, Close(g, c)
        PROVE  Shape' /\ Awaited' /\ Values'
    BY <1>1, <2>3, CloseStep
  <2>4. ASSUME NEW g \in G, NEW c \in Chans, ClosePanics(g, c)
        PROVE  Shape' /\ Awaited' /\ Values'
    <3>1. /\ CanStart(g) /\ Start(g, "ready")
          /\ UNCHANGED <<chan, micro, timers, done, sent, taken, got>>
      BY <2>4 DEF ClosePanics
    <3> QED BY <3>1, IdleStep
  <2>5. ASSUME NEW g \in G, NilOperation(g)
        PROVE  Shape' /\ Awaited' /\ Values'
    <3>1. /\ CanStart(g) /\ Start(g, "forever")
          /\ UNCHANGED <<chan, micro, timers, done, sent, taken, got>>
      BY <2>5 DEF NilOperation
    <3> QED BY <3>1, IdleStep
  <2>6. ASSUME NEW g \in G, Resume(g)
        PROVE  Shape' /\ Awaited' /\ Values'
    BY <1>1, <2>6, ResumeStep
  <2>7. CASE RunHandoff
    BY <1>1, <2>7, RunHandoffStep
  <2>8. CASE RunSent
    BY <1>1, <2>8, RunSentStep
  <2>9. CASE RunTimer
    BY <1>1, <2>9, RunTimerStep
  <2>10. CASE UNCHANGED vars
    <3>0. UNCHANGED <<chan, micro, timers, pc, op, done, sent, taken, got>>
      BY <2>10 DEF vars
    <3>1. Shape' /\ Moved({}, {})
      BY <3>0, Parts, NothingMoves
    <3>2. Awaited'
      BY <3>0, <3>1, Parts, AwaitedJob
    <3>3. Onward /\ Ordered' /\ \A d \in Chans : TakenSet(d)' = TakenSet(d)
      BY <3>0, Parts, StillValues
    <3>4. TokensKnown' /\ TokensApart' /\ TakenFound' /\ GotKnown' /\ ReceivedInOrder'
      BY <3>0, <3>1, <3>3, Parts, UngotValues
    <3>5. SendsKnown'
      BY <1>1, <3>0, <3>3, Parts, SendsMove DEF TypeOK
    <3> QED BY <3>1, <3>2, <3>3, <3>4, <3>5, Whole
  <2> QED BY <2>1, <2>2, <2>3, <2>4, <2>5, <2>6, <2>7, <2>8, <2>9, <2>10, SendChansAssumption
          DEF Next, Operation, RunMicrotask
<1> QED BY <1>1, <1>2 DEF ChannelInv

LEMMA ChannelInvInit == Init => ChannelInv
<1> SUFFICES ASSUME Init
             PROVE  ChannelInv
  OBVIOUS
<1>0. TypeOK /\ QueueDiscipline
  BY TypeInit, DisciplineInit
<1>1. /\ chan = [c \in Chans |-> NewChannel] /\ micro = <<>> /\ timers = <<>>
      /\ pc = [g \in G |-> "ready"] /\ done = [g \in G |-> {}] /\ sent = <<>>
      /\ taken = [c \in Chans |-> <<>>] /\ got = [g \in G |-> <<>>]
  BY DEF Init
<1>2. /\ NewChannel.buffer = <<>> /\ NewChannel.senders = <<>> /\ NewChannel.receivers = <<>>
      /\ NewChannel.receiversWithOk = <<>> /\ ~NewChannel.closed
  BY DEF NewChannel
<1>3. ToSet(<<>>) = {} /\ \A k : Keyed(<<>>, k)
  <2>1. <<>> \in Seq({})
    OBVIOUS
  <2> QED BY <2>1, SetOfSeq, ZenonT(40) DEF Keyed
<1>4. LineOf(NewChannel) = <<>>
  BY <1>2 DEF LineOf
<1>5. Tokens = {}
  BY <1>1, <1>2, <1>3 DEF Tokens, QueuedTokens, MicroTokens, TimerTokens, SettledTokens, QueueTokens
<1>6. Shape
  BY <1>1, <1>2, <1>3 DEF Shape, QueueShape, MicroShape, TimerShape, DoneShape
<1>7. Awaited
  BY <1>1, <1>5 DEF Awaited
<1>8. Values
  <2>1. \A c \in Chans : TakenSet(c) = {} /\ Placed(c) = {} /\ LineSet(c) = {}
    BY <1>1, <1>3, <1>4 DEF TakenSet, Placed, LineSet
  <2>2. Ordered
    <3>1. Increasing(<<>>)
      BY DEF Increasing
    <3> QED BY <1>1, <1>4, <2>1, <3>1 DEF Ordered
  <2>3. TokensKnown /\ TokensApart
    BY <1>5 DEF TokensKnown, TokensApart
  <2>4. SendsKnown /\ GotKnown /\ ReceivedInOrder
    BY <1>1 DEF SendsKnown, GotKnown, ReceivedInOrder
  <2>5. TakenFound
    BY <2>1 DEF TakenFound
  <2> QED BY <2>2, <2>3, <2>4, <2>5 DEF Values
<1> QED BY <1>0, <1>6, <1>7, <1>8 DEF ChannelInv

-----------------------------------------------------------------------------
(* What the invariant says of the properties.                              *)

LEMMA Whereabouts ==
  ASSUME TypeOK, Shape, NEW t \in Task
  PROVE  /\ InQueue(t) <=> \E y \in QueuedTokens : y.t = t
         /\ InJobs(t) <=> \E y \in MicroTokens \cup TimerTokens : y.t = t
         /\ InDone(t) <=> \E y \in SettledTokens : y.t = t
<1>p. \A p, u, v : TokenAt(p, u, v).t = u
  BY DEF TokenAt
<1>1. InQueue(t) <=> \E y \in QueuedTokens : y.t = t
  <2>1. ASSUME NEW c \in Chans
        PROVE  t \in Queued(chan[c]) <=> \E y \in QueueTokens(chan[c]) : y.t = t
    BY <1>p DEF Queued, QueueTokens
  <2>2. ASSUME NEW y \in QueuedTokens, y.t = t
        PROVE  y \in QueueTokens(chan[t.c])
    <3>1. PICK c \in Chans : y \in QueueTokens(chan[c])
      BY DEF QueuedTokens
    <3> QED BY <2>2, <3>1, TokenPlaces
  <2>3. t.c \in Chans
    BY DEF Task
  <2> QED BY <2>1, <2>2, <2>3 DEF InQueue, QueuedTokens
<1>2. InJobs(t) <=> \E y \in MicroTokens \cup TimerTokens : y.t = t
  <2>1. ASSUME NEW j \in ToSet(micro) \cup ToSet(timers)
        PROVE  t \in {j.to, j.from} <=> \E y \in JobTokens(j) : y.t = t
    <3>1. j.kind # "handoff" => j.to = j.from
      BY DEF Shape, MicroShape, TimerShape
    <3> QED BY <1>p, <3>1 DEF JobTokens
  <2> QED BY <2>1 DEF InJobs, MicroTokens, TimerTokens
<1>3. InDone(t) <=> \E y \in SettledTokens : y.t = t
  <2>1. \A g \in G : \A o \in done[g] : o.t.g = g
    BY DEF Shape, DoneShape
  <2>2. \A o : OutcomeToken(o).t = o.t
    BY <1>p DEF OutcomeToken
  <2>3. t.g \in G
    BY DEF Task
  <2>4. ASSUME InDone(t)
        PROVE  \E y \in SettledTokens : y.t = t
    BY <2>2, <2>3, <2>4 DEF InDone, SettledTokens
  <2>5. ASSUME NEW y \in SettledTokens, y.t = t
        PROVE  InDone(t)
    BY <2>1, <2>2, <2>5 DEF InDone, SettledTokens
  <2> QED BY <2>4, <2>5
<1> QED BY <1>1, <1>2, <1>3

LEMMA FlightSources ==
  ASSUME TypeOK, Shape
  PROVE  /\ \A x \in Tokens : x.p \in Flying =>
              \/ \E j \in ToSet(micro) : j.kind = "handoff" /\ j.v = x.v /\ j.to = x.t
              \/ \E g \in G : \E o \in done[g] : o.kind = "received" /\ o.v = x.v
         /\ \A j \in ToSet(micro) : j.kind = "handoff" =>
              TokenAt("handoff", j.to, j.v) \in Tokens /\ TokenAt("hand", j.from, j.v) \in Tokens
         /\ \A g \in G : \A o \in done[g] : OutcomeToken(o) \in Tokens
<1>p. \A p, u, v : TokenAt(p, u, v).p = p /\ TokenAt(p, u, v).t = u /\ TokenAt(p, u, v).v = v
  BY DEF TokenAt
<1>1. ASSUME NEW x \in Tokens, x.p = "handoff"
      PROVE  \E j \in ToSet(micro) : j.kind = "handoff" /\ j.v = x.v /\ j.to = x.t
  <2>1. x \in MicroTokens
    BY <1>1, TokenPlaces DEF Tokens
  <2>2. PICK j \in ToSet(micro) : x \in JobTokens(j)
    BY <2>1 DEF MicroTokens
  <2>3. j.kind \in {"handoff", "sent"}
    BY DEF Shape, MicroShape
  <2> QED BY <1>1, <1>p, <2>2, <2>3 DEF JobTokens
<1>2. ASSUME NEW x \in Tokens, x.p = "received"
      PROVE  \E g \in G : \E o \in done[g] : o.kind = "received" /\ o.v = x.v
  <2>1. x \in SettledTokens
    BY <1>2, TokenPlaces DEF Tokens
  <2>2. PICK g \in G : \E o \in done[g] : x = OutcomeToken(o)
    BY <2>1 DEF SettledTokens
  <2> QED BY <1>2, <1>p, <2>2 DEF OutcomeToken
<1>3. ASSUME NEW j \in ToSet(micro), j.kind = "handoff"
      PROVE  TokenAt("handoff", j.to, j.v) \in Tokens /\ TokenAt("hand", j.from, j.v) \in Tokens
  <2>1. JobTokens(j) = {TokenAt("handoff", j.to, j.v), TokenAt("hand", j.from, j.v)}
    BY <1>3 DEF JobTokens
  <2>2. JobTokens(j) \subseteq MicroTokens
    BY DEF MicroTokens
  <2> QED BY <2>1, <2>2 DEF Tokens
<1>4. \A g \in G : \A o \in done[g] : OutcomeToken(o) \in Tokens
  BY DEF SettledTokens, Tokens
<1> QED BY <1>1, <1>2, <1>3, <1>4 DEF Flying

\* A value that was received or is on its way was taken out of its channel.
LEMMA PlacesKnown ==
  ASSUME ChannelInv, NEW v \in 1..Len(sent)
  PROVE  /\ sent[v].c \in Chans
         /\ Buffered(v) \/ InFlight(v) \/ Received(v) => v \in Placed(sent[v].c)
<1>0. /\ TypeOK /\ Shape /\ Ordered /\ GotKnown /\ TokensKnown /\ QueueDiscipline
  BY Parts
<1>1. sent[v].c \in Chans
  <2>1. sent \in Seq(SendRecord)
    BY <1>0 DEF TypeOK
  <2>2. sent[v] \in SendRecord
    BY <2>1
  <2> QED BY <2>2 DEF SendRecord
<1>2. \A c \in Chans : v \in Placed(c) => c = sent[v].c
  BY <1>0 DEF Ordered
<1>3. ASSUME Buffered(v)
      PROVE  v \in Placed(sent[v].c)
  <2>1. PICK c \in Chans : v \in ToSet(chan[c].buffer)
    BY <1>3 DEF Buffered
  <2> DEFINE b == chan[c].buffer
             w == Offered(chan[c].senders)
  <2>2. b \in Seq(Value) /\ w \in Seq(Value) /\ LineOf(chan[c]) = b \o w
    <3>1. b \in Seq(Value) /\ chan[c].senders \in Seq(SenderTask)
      BY <1>0, LineFacts, ChannelFields
    <3> QED BY <3>1, OfferedSteps DEF LineOf, Offered
  <2>3. v \in ToSet(b)
    BY <2>1
  <2> HIDE DEF b, w
  <2>4. v \in ToSet(b \o w)
    <3>1. PICK k \in 1..Len(b) : b[k] = v
      BY <2>2, <2>3, SetOfSeq
    <3>2. b \o w \in Seq(Value) /\ k \in 1..Len(b \o w) /\ (b \o w)[k] = v
      BY <2>2, <3>1, ConcatParts
    <3> QED BY <3>2, SetOfSeq
  <2>5. v \in Placed(c)
    BY <2>2, <2>4 DEF Placed, LineSet
  <2> QED BY <1>2, <2>5
<1>t. ASSUME NEW x \in Tokens, x.p \in Flying, x.v = v
      PROVE  v \in Placed(sent[v].c)
  <2>1. v \in TakenSet(x.t.c)
    BY <1>0, <1>t DEF TokensKnown, FlightFact
  <2>2. x.t.c \in Chans
    BY <1>0, TokenPlaces DEF Token, Task
  <2> QED BY <1>2, <2>1, <2>2 DEF Placed
<1>4. ASSUME InFlight(v)
      PROVE  v \in Placed(sent[v].c)
  <2>p. \A p, u, w : TokenAt(p, u, w).p = p /\ TokenAt(p, u, w).v = w
    BY DEF TokenAt
  <2>1. CASE \E j \in ToSet(micro) : j.kind = "handoff" /\ j.v = v
    <3>1. PICK j \in ToSet(micro) : j.kind = "handoff" /\ j.v = v
      BY <2>1
    <3>2. TokenAt("handoff", j.to, j.v) \in Tokens
      BY <1>0, <3>1, FlightSources
    <3> QED BY <1>t, <2>p, <3>1, <3>2 DEF Flying
  <2>2. CASE \E g \in G : \E o \in done[g] : o.kind = "received" /\ o.v = v
    <3>1. PICK g \in G : \E o \in done[g] : o.kind = "received" /\ o.v = v
      BY <2>2
    <3>2. PICK o \in done[g] : o.kind = "received" /\ o.v = v
      BY <3>1
    <3>3. OutcomeToken(o) \in Tokens
      BY <1>0, FlightSources
    <3> QED BY <1>t, <2>p, <3>2, <3>3 DEF Flying, OutcomeToken
  <2> QED BY <1>4, <2>1, <2>2 DEF InFlight
<1>5. ASSUME Received(v)
      PROVE  v \in Placed(sent[v].c)
  <2>0. PICK g \in G : \E e \in ToSet(got[g]) : e.v = v
    BY <1>5 DEF Received
  <2>1. PICK e \in ToSet(got[g]) : e.v = v
    BY <2>0
  <2>2. got[g] \in Seq(Receipt)
    BY <1>0 DEF TypeOK
  <2>3. PICK k \in 1..Len(got[g]) : got[g][k] = e
    BY <2>2, SetOfSeq
  <2>4. ReceiptFact(e)
    BY <1>0, <2>3 DEF GotKnown
  <2>5. v # Zero /\ e.c \in Chans
    <3>1. e \in Receipt
      BY <2>2, <2>3
    <3>2. v \in 1..Len(sent) /\ Len(sent) \in Nat
      BY <1>0 DEF TypeOK
    <3> QED BY <3>1, <3>2 DEF Zero, Receipt
  <2>6. v \in TakenSet(e.c)
    BY <2>1, <2>4, <2>5 DEF ReceiptFact
  <2> QED BY <1>2, <2>5, <2>6 DEF Placed
<1> QED BY <1>1, <1>3, <1>4, <1>5

LEMMA NoValueLost == ChannelInv => NoLoss
<1> SUFFICES ASSUME ChannelInv, NEW v \in 1..Len(sent), sent[v].st = "returned"
             PROVE  Buffered(v) \/ InFlight(v) \/ Received(v)
  BY DEF NoLoss
<1> DEFINE c == sent[v].c
<1>0. TypeOK /\ Shape /\ Awaited /\ SendsKnown /\ TakenFound
  BY Parts
<1>1. c \in Chans /\ v \in Kept(c)
  BY <1>0, PlacesKnown DEF SendsKnown
<1> HIDE DEF c
<1>2. CASE v \in ToSet(chan[c].buffer)
  BY <1>1, <1>2 DEF Buffered
<1>3. CASE v \in TakenSet(c) /\ InGot(v)
  <2>1. PICK g \in G : \E k \in 1..Len(got[g]) : got[g][k].v = v
    BY <1>3 DEF InGot
  <2>2. PICK k \in 1..Len(got[g]) : got[g][k].v = v
    BY <2>1
  <2>3. got[g] \in Seq(Receipt)
    BY <1>0 DEF TypeOK
  <2>4. got[g][k] \in ToSet(got[g])
    BY <2>3, SetOfSeq
  <2> QED BY <2>2, <2>4 DEF Received
<1>4. CASE \E x \in Tokens : x.p \in Flying /\ x.v = v
  <2>1. PICK x \in Tokens : x.p \in Flying /\ x.v = v
    BY <1>4
  <2>2. Live(x.t)
    BY <1>0, TokenLive
  <2> QED BY <1>0, <2>1, <2>2, FlightSources DEF InFlight
<1> QED BY <1>0, <1>1, <1>2, <1>3, <1>4 DEF Kept, TakenFound

LEMMA NoPanickedValue == ChannelInv => PanickedSendDeliversNothing
<1> SUFFICES ASSUME ChannelInv, NEW v \in 1..Len(sent), sent[v].st = "panicked"
             PROVE  ~Buffered(v) /\ ~InFlight(v) /\ ~Received(v)
  BY DEF PanickedSendDeliversNothing
<1>1. v \notin Placed(sent[v].c)
  BY Parts DEF SendsKnown
<1> QED BY <1>1, PlacesKnown

LEMMA ReceiverFirst == ChannelInv => Rendezvous
<1> SUFFICES ASSUME ChannelInv, NEW v \in 1..Len(sent), sent[v].st = "returned",
                    NEW j \in ToSet(micro), j.kind = "handoff", j.v = v
             PROVE  FALSE
  BY DEF Rendezvous
<1> DEFINE x == TokenAt("hand", j.from, j.v)
<1>1. TypeOK /\ Shape /\ TokensKnown
  BY Parts
<1>2. x.p = "hand" /\ x.v = v
  BY DEF TokenAt
<1>3. x \in Tokens
  BY <1>1, FlightSources
<1> HIDE DEF x
<1>4. sent[v] = [c |-> x.t.c, st |-> "pending"]
  BY <1>1, <1>2, <1>3 DEF TokensKnown, SendFact, Sending
<1> QED BY <1>4

LEMMA NoWakeupLost == ChannelInv => NoLostWakeup
<1> SUFFICES ASSUME ChannelInv
             PROVE  NoLostWakeup
  OBVIOUS
<1>0. TypeOK /\ Shape /\ Awaited
  BY Parts
<1>1. ASSUME NEW g \in G, pc[g] = "waiting"
      PROVE  \E c \in Chans :
               LET t == CurrentTask(g, c)
               IN  \/ InQueue(t) /\ ~InJobs(t) /\ ~InDone(t)
                   \/ ~InQueue(t) /\ InJobs(t) /\ ~InDone(t)
                   \/ ~InQueue(t) /\ ~InJobs(t) /\ InDone(t)
  <2>1. PICK x \in Tokens : x.t.g = g
    BY <1>0, <1>1 DEF Awaited
  <2> DEFINE t == x.t
  <2>2. t \in Task /\ t.c \in Chans /\ t.i = 0 /\ t.n = op[g]
    BY <1>0, <2>1, TokenPlaces DEF Awaited, Token, Task
  <2>3. t = CurrentTask(g, t.c)
    BY <2>1, <2>2 DEF CurrentTask, Task
  <2>4. \A y \in Tokens : y.t = t => y = x
    BY <1>0, <2>1 DEF Awaited
  <2>5. /\ QueuedTokens \subseteq Tokens /\ MicroTokens \subseteq Tokens
        /\ TimerTokens \subseteq Tokens /\ SettledTokens \subseteq Tokens
        /\ x \in QueuedTokens \/ x \in MicroTokens \cup TimerTokens \/ x \in SettledTokens
    BY DEF Tokens
  <2> HIDE DEF t
  <2>6. /\ InQueue(t) <=> x \in QueuedTokens
        /\ InJobs(t) <=> x \in MicroTokens \cup TimerTokens
        /\ InDone(t) <=> x \in SettledTokens
    <3>1. x.t = t
      BY DEF t
    <3> QED BY <1>0, <2>2, <2>4, <2>5, <3>1, Whereabouts
  <2>7. /\ x \in QueuedTokens => x.p \in {"offer", "want", "wantOk"}
        /\ x \in MicroTokens \cup TimerTokens =>
             x.p \in {"handoff", "hand", "ack", "zero", "closed"}
        /\ x \in SettledTokens => x.p \in {"sent", "received"}
    BY <1>0, TokenPlaces
  <2>8. \/ InQueue(t) /\ ~InJobs(t) /\ ~InDone(t)
        \/ ~InQueue(t) /\ InJobs(t) /\ ~InDone(t)
        \/ ~InQueue(t) /\ ~InJobs(t) /\ InDone(t)
    BY <2>5, <2>6, <2>7
  <2> QED BY <2>2, <2>3, <2>8
<1>2. ASSUME NEW c \in Chans, NEW t \in Queued(chan[c])
      PROVE  Live(t)
  <2>0. \A p, u, v : TokenAt(p, u, v).t = u
    BY DEF TokenAt
  <2>1. PICK y \in QueueTokens(chan[c]) : y.t = t
    BY <2>0 DEF Queued, QueueTokens
  <2>2. y \in Tokens
    BY <2>1 DEF QueuedTokens, Tokens
  <2> QED BY <1>0, <2>1, <2>2, TokenLive
<1> QED BY <1>1, <1>2 DEF NoLostWakeup

LEMMA ChannelInvariant == Spec => []ChannelInv
BY ChannelInvInit, ChannelInvStep, PTL DEF Spec

\* channel.ts loses no wakeup: the promise of every blocked send or receive is
\* in exactly one place, a waiting list, a microtask or timer, or settled, and
\* no waiting list keeps an operation that is over.
THEOREM ChannelLosesNoWakeup == Spec => []NoLostWakeup
BY ChannelInvariant, NoWakeupLost, PTL

\* channel.ts loses no value: one whose send() returned is in the buffer, on
\* its way to a receiver that waits for it, or received.
THEOREM ChannelLosesNoValue == Spec => []NoLoss
BY ChannelInvariant, NoValueLost, PTL

\* completeUnbufferedReceive settles the receiver's promise before the sender's:
\* no send of an unbuffered channel returns while its value is still queued.
THEOREM ChannelRendezvous == Spec => []Rendezvous
BY ChannelInvariant, ReceiverFirst, PTL

\* A send that panicked, because the channel was closed or because close() found
\* it blocked, has left its value nowhere.
THEOREM ChannelPanickedSend == Spec => []PanickedSendDeliversNothing
BY ChannelInvariant, NoPanickedValue, PTL

\* A goroutine receives the values of a channel in the order of their sends,
\* each value goes to one receive, and the zero value of close() comes last.
THEOREM ChannelReceivedInOrder == Spec => []ReceivedInOrder
<1>1. ChannelInv => ReceivedInOrder
  BY DEF ChannelInv, Values
<1> QED BY <1>1, ChannelInvariant, PTL
=============================================================================
