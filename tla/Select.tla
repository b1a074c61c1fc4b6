------------------------------- MODULE Select -------------------------------
(***************************************************************************)
(* selectStatement of gs/builtin/channel.ts on top of the channels of      *)
(* module Channel: trySelectReceive and trySelectSend (the fast path),     *)
(* selectReceive and selectSend (the blocking path, one entry per case in  *)
(* the queues of the channels), Promise.race over the cases, and the abort *)
(* that withdraws the cases that lost.                                     *)
(*                                                                         *)
(* Registering the cases of a blocking select is one uninterrupted piece   *)
(* of JavaScript.  It is taken case by case here (RegisterCase), and       *)
(* nothing else runs in between (registering).                             *)
(***************************************************************************)
EXTENDS Channel

CONSTANTS Nil,    \* the nil channel
          Stmts   \* the select statements that goroutines may execute

\* A statement is its communication cases in source order and whether it has
\* a default case.
Case == [c : Chans \cup {Nil}, isSend : BOOLEAN]
Statement == [cases : Seq(Case), hasDefault : BOOLEAN]

ASSUME StmtsAssumption == Stmts \subseteq Statement
ASSUME NilAssumption == Nil \notin Chans

VARIABLES
  stmt,         \* the blocking select of each goroutine in state "selecting"
  registering   \* cases still to be registered: none, or <<[g, i]>>

selectVars == <<stmt, registering>>
allVars == <<vars, stmt, registering>>

NoStmt == [cases |-> <<>>, hasDefault |-> FALSE]

SelectTypeOK ==
  /\ TypeOK
  /\ stmt \in [G -> Stmts \cup {NoStmt}]
  /\ registering \in Seq([g : G, i : Nat]) /\ Len(registering) <= 1
  /\ registering # <<>> =>
       /\ pc[registering[1].g] = "selecting"
       /\ registering[1].i \in DOMAIN stmt[registering[1].g].cases

SelectInit ==
  /\ Init
  /\ stmt = [g \in G |-> NoStmt]
  /\ registering = <<>>

-----------------------------------------------------------------------------
(* Step 1 of selectStatement: the cases that can proceed at once. *)

CaseReady(k) ==
  /\ k.c # Nil
  /\ IF k.isSend THEN CanSendNonBlocking(k.c, chan[k.c])
                 ELSE CanReceiveNonBlocking(chan[k.c])

ReadyCases(s) == {i \in DOMAIN s.cases : CaseReady(s.cases[i])}

\* trySelectSend.  The acknowledgement of a hand-off is discarded (void), so
\* its task names an operation that nobody awaits.
TrySelectSend(g, c) ==
  LET ch == chan[c] IN
  /\ UNCHANGED <<timers, done, got>>
  /\ \/ /\ ch.closed
        /\ RecordSend(c, "panicked")
        /\ UNCHANGED <<chan, micro, taken>>
     \/ /\ ~ch.closed
        /\ HasReceiver(ch)
        /\ chan' = [chan EXCEPT ![c] = ShiftReceiver(@)]
        /\ micro' = Append(micro, HandoffJob(NextReceiver(ch), NextValue,
                                             TaskOf(g, c, 0)))
        /\ RecordSend(c, "returned")
        /\ Take(c, NextValue)
     \/ /\ ~ch.closed
        /\ ~HasReceiver(ch)
        /\ HasRoom(c, ch)
        /\ chan' = [chan EXCEPT ![c].buffer = Append(@, NextValue)]
        /\ RecordSend(c, "returned")
        /\ UNCHANGED <<micro, taken>>

\* The first three steps shared by trySelectReceive and selectReceive: the
\* value of the buffer or of a waiting sender, or the closed channel's zero.
ReceivableValue(ch) == IF ch.buffer # <<>> THEN Head(ch.buffer)
                       ELSE IF ch.senders # <<>> THEN Head(ch.senders).v
                       ELSE Zero

TakeFromChannel(c) ==
  LET ch == chan[c] IN
  /\ micro' = micro \o UnblockSender(ch)
  /\ \/ /\ ch.buffer # <<>>
        /\ chan' = [chan EXCEPT ![c] = ShiftBuffer(@)]
        /\ Take(c, ReceivableValue(ch))
     \/ /\ ch.buffer = <<>>
        /\ ch.senders # <<>>
        /\ chan' = [chan EXCEPT ![c] = ShiftSender(@)]
        /\ Take(c, ReceivableValue(ch))
     \/ /\ ch.buffer = <<>>
        /\ ch.senders = <<>>
        /\ ch.closed
        /\ UNCHANGED <<chan, taken>>

TrySelectReceive(g, c) ==
  /\ TakeFromChannel(c)
  /\ Return(g, c, ReceivableValue(chan[c]))
  /\ UNCHANGED <<timers, done, sent>>

\* One of the ready cases is chosen at random.
SelectReady(g, s) ==
  /\ CanStart(g)
  /\ \E i \in ReadyCases(s) :
       IF s.cases[i].isSend THEN TrySelectSend(g, s.cases[i].c)
                            ELSE TrySelectReceive(g, s.cases[i].c)
  /\ Start(g, "ready")
  /\ UNCHANGED selectVars

-----------------------------------------------------------------------------
(* Steps 2 and 3 of selectStatement. *)

SelectDefault(g, s) ==
  /\ CanStart(g)
  /\ ReadyCases(s) = {}
  /\ s.hasDefault
  /\ Start(g, "ready")
  /\ UNCHANGED <<chan, micro, timers, done, sent, taken, got, stmt, registering>>

LiveCases(s) == {i \in DOMAIN s.cases : s.cases[i].c # Nil}

\* No case at all, or nil channels only: the promise never resolves.
SelectForever(g, s) ==
  /\ CanStart(g)
  /\ LiveCases(s) = {}
  /\ ~s.hasDefault
  /\ Start(g, "forever")
  /\ UNCHANGED <<chan, micro, timers, done, sent, taken, got, stmt, registering>>

SelectBlocks(g, s) ==
  /\ CanStart(g)
  /\ ReadyCases(s) = {}
  /\ ~s.hasDefault
  /\ LiveCases(s) # {}
  /\ Start(g, "selecting")
  /\ stmt' = [stmt EXCEPT ![g] = s]
  /\ registering' = <<[g |-> g, i |-> 1]>>
  /\ UNCHANGED <<chan, micro, timers, done, sent, taken, got>>

\* The promise of case i of the select that g is executing.
CaseTask(g, c, i) == [g |-> g, n |-> op[g], c |-> c, i |-> i]

SettleNow(g, t, kind, v) ==
  done' = [done EXCEPT ![g] = @ \cup {[kind |-> kind, t |-> t, v |-> v]}]

\* selectSend with an abort signal.
SelectSend(t, c) ==
  LET ch == chan[c] IN
  /\ UNCHANGED <<timers, got>>
  /\ IF ch.closed
     THEN /\ RecordSend(c, "pending")
          /\ SettleNow(t.g, t, "panic", NextValue)
          /\ UNCHANGED <<chan, micro, taken>>
     ELSE IF HasReceiver(ch)
     THEN /\ chan' = [chan EXCEPT ![c] = ShiftReceiver(@)]
          /\ micro' = Append(micro, HandoffJob(NextReceiver(ch), NextValue, t))
          /\ RecordSend(c, "pending")
          /\ Take(c, NextValue)
          /\ UNCHANGED done
     ELSE IF HasRoom(c, ch)
     THEN /\ chan' = [chan EXCEPT ![c].buffer = Append(@, NextValue)]
          /\ RecordSend(c, "pending")
          /\ SettleNow(t.g, t, "sent", NextValue)
          /\ UNCHANGED <<micro, taken>>
     ELSE /\ chan' = [chan EXCEPT ![c].senders =
                         Append(@, [t |-> t, v |-> NextValue])]
          /\ RecordSend(c, "pending")
          /\ UNCHANGED <<micro, done, taken>>

\* selectReceive with an abort signal.
SelectReceive(t, c) ==
  /\ UNCHANGED <<timers, sent, got>>
  /\ IF CanReceiveNonBlocking(chan[c])
     THEN /\ TakeFromChannel(c)
          /\ SettleNow(t.g, t, "received", ReceivableValue(chan[c]))
     ELSE /\ chan' = [chan EXCEPT ![c].receiversWithOk = Append(@, t)]
          /\ UNCHANGED <<micro, done, taken>>

RegisterCase ==
  /\ registering # <<>>
  /\ LET g == registering[1].g
         i == registering[1].i
         k == stmt[g].cases[i]
     IN  /\ \/ /\ k.c = Nil
               /\ UNCHANGED <<chan, micro, timers, done, sent, taken, got>>
            \/ /\ k.c # Nil /\ k.isSend
               /\ SelectSend(CaseTask(g, k.c, i), k.c)
            \/ /\ k.c # Nil /\ ~k.isSend
               /\ SelectReceive(CaseTask(g, k.c, i), k.c)
         /\ registering' = IF i = Len(stmt[g].cases) THEN <<>>
                           ELSE <<[g |-> g, i |-> i + 1]>>
  /\ UNCHANGED <<pc, op, stmt>>

\* onAbort and cleanup of every case: the tasks leave the queues.
OfSelect(t, g) == t.g = g /\ t.n = op[g]

\* Mutant: cleanup empties the queues instead of removing its own task.
AbortEverybody(g, ch) == [ch EXCEPT !.senders = <<>>, !.receiversWithOk = <<>>]

\* A queue after indexOf and splice took some of its entries out.
Remaining(q, gone) ==
  LET kept[n \in 0..Len(q)] ==
        IF n = 0 THEN <<>>
        ELSE IF q[n] \in gone THEN kept[n - 1] ELSE Append(kept[n - 1], q[n])
  IN  kept[Len(q)]

AbortCases(g, ch) ==
  [ch EXCEPT
     !.senders = Remaining(@, {s \in ToSet(@) : OfSelect(s.t, g)}),
     !.receiversWithOk = Remaining(@, {t \in ToSet(@) : OfSelect(t, g)})]

\* The values of the other send cases of the select, still in a queue.
Withdrawn(g) ==
  {s.v : s \in {x \in UNION {ToSet(chan[c].senders) : c \in Chans} :
                  OfSelect(x.t, g)}}

\* Mutant: abort.abort() is missing.
RaceFulfilledWithoutAbort(g, o) ==
  /\ sent' = [v \in DOMAIN sent |->
                IF o.kind = "sent" /\ v = o.v
                THEN [sent[v] EXCEPT !.st = "returned"] ELSE sent[v]]
  /\ got' = IF o.kind = "received"
            THEN [got EXCEPT ![g] = Append(@, [c |-> o.t.c, v |-> o.v])]
            ELSE got
  /\ UNCHANGED chan

\* Promise.race fulfilled with the result of one case: abort the others and
\* run the handler.
RaceFulfilled(g, o) ==
  /\ sent' = [v \in DOMAIN sent |->
                IF o.kind = "sent" /\ v = o.v
                THEN [sent[v] EXCEPT !.st = "returned"]
                ELSE IF v \in Withdrawn(g)
                THEN [sent[v] EXCEPT !.st = "withdrawn"]
                ELSE sent[v]]
  /\ got' = IF o.kind = "received"
            THEN [got EXCEPT ![g] = Append(@, [c |-> o.t.c, v |-> o.v])]
            ELSE got
  /\ chan' = [c \in Chans |-> AbortCases(g, chan[c])]

\* Promise.race rejected: a send case met a closed channel.  The exception
\* leaves selectStatement before abort.abort(), so the other cases stay.
RaceRejected(o) ==
  /\ sent' = [sent EXCEPT ![o.v].st = "panicked"]
  /\ UNCHANGED <<chan, got>>

EndSelect(g, o) ==
  /\ IF o.kind = "panic" THEN RaceRejected(o) ELSE RaceFulfilled(g, o)
  /\ pc' = [pc EXCEPT ![g] = "ready"]
  /\ stmt' = [stmt EXCEPT ![g] = NoStmt]
  /\ UNCHANGED <<micro, op, taken, registering>>

\* Which of several settled promises wins the race depends on how many
\* microtasks each needs to propagate, so any of them may.
SelectResumes(g) ==
  /\ pc[g] = "selecting"
  /\ \E o \in done[g] : EndSelect(g, o)
  /\ done' = [done EXCEPT ![g] = {}]
  /\ UNCHANGED timers

\* A timer of close() settles a case of a blocked select ...
SelectTimer ==
  /\ TimerTurn
  /\ Live(Head(timers).to)
  /\ pc[Head(timers).to.g] = "selecting"
  /\ EndSelect(Head(timers).to.g, TimerOutcome(Head(timers)))
  /\ timers' = Tail(timers)
  /\ UNCHANGED done

\* ... or finds it aborted or abandoned (state.done, or nobody awaits it).
StaleTimer ==
  /\ TimerTurn
  /\ ~Live(Head(timers).to)
  /\ timers' = Tail(timers)
  /\ UNCHANGED <<chan, micro, pc, op, done, sent, taken, got, stmt, registering>>

-----------------------------------------------------------------------------
SelectStatement(g) ==
  \E s \in Stmts : SelectReady(g, s) \/ SelectDefault(g, s)
                     \/ SelectForever(g, s) \/ SelectBlocks(g, s)

\* The JavaScript thread is free: nobody is in the middle of a select.
Idle == registering = <<>>

SelectNext ==
  \/ Idle /\ Next /\ UNCHANGED selectVars
  \/ Idle /\ \E g \in G : SelectStatement(g) \/ SelectResumes(g)
  \/ Idle /\ (SelectTimer \/ StaleTimer)
  \/ RegisterCase

SelectSpec == SelectInit /\ [][SelectNext]_allVars

SelectFairness ==
  /\ WF_allVars(RegisterCase)
  /\ WF_allVars(Idle /\ RunMicrotask /\ UNCHANGED selectVars)
  /\ WF_allVars(Idle /\ RunTimer /\ UNCHANGED selectVars)
  /\ WF_allVars(Idle /\ (SelectTimer \/ StaleTimer))
  /\ \A g \in G :
       /\ WF_allVars(Idle /\ Resume(g) /\ UNCHANGED selectVars)
       /\ WF_allVars(Idle /\ SelectResumes(g))

FairSelectSpec == SelectSpec /\ SelectFairness

-----------------------------------------------------------------------------
(* Properties. *)

\* A blocked select is not forgotten: either each of its cases is still in the
\* queue of its channel, or one has been served and the promise of that case
\* is settled or will be by a queued job.
SelectNotForgotten ==
  SelectTypeOK /\ \A g \in G : pc[g] = "selecting" /\ Idle =>
    \/ \A i \in LiveCases(stmt[g]) : InQueue(CaseTask(g, stmt[g].cases[i].c, i))
    \/ done[g] # {}
    \/ \E j \in ToSet(micro) \cup ToSet(timers) :
         OfSelect(j.to, g) \/ OfSelect(j.from, g)

\* "resolves when one of them completes, following Go's select rules": at most
\* one case of a select statement communicates.
SelectCommitsOneCase ==
  \A g \in G : pc[g] = "selecting" =>
    Cardinality({o.t : o \in done[g]}
                  \cup {t \in {j.to : j \in ToSet(micro)}
                             \cup {j.from : j \in ToSet(micro)} : OfSelect(t, g)})
      <= 1

\* A blocked select one of whose cases has left its queue (a partner arrived,
\* or the channel was closed) eventually ends.
ServedSelectEnds ==
  \A g \in G :
    (pc[g] = "selecting" /\ Idle
       /\ \E i \in LiveCases(stmt[g]) :
            ~InQueue(CaseTask(g, stmt[g].cases[i].c, i)))
      ~> pc[g] = "ready"
=============================================================================
