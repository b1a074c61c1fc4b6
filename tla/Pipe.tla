-------------------------------- MODULE Pipe --------------------------------
(***************************************************************************)
(* io.Pipe of the GoScript runtime: class pipeState of gs/io/io.ts and the *)
(* two halves that delegate to it.                                         *)
(*                                                                         *)
(* A call runs without interruption up to its await; everything that       *)
(* settles a pending call happens inside another call.  Bytes are numbered *)
(* in the order in which Write accepts them, so a byte names its place in  *)
(* the stream.                                                             *)
(***************************************************************************)
EXTENDS Naturals, Sequences, FiniteSets, SequencesExt

CONSTANTS Users,     \* the goroutines that hold an end of the pipe
          PipeOps,   \* bound: calls a goroutine makes
          PipeLen    \* bound: length of a Read or Write

PipeAssumption == PipeOps \in Nat /\ PipeLen \in Nat
ASSUME PipeBounds == PipeAssumption

VARIABLES
  pipe,      \* the fields of pipeState
  pipeCalls, \* number of calls of each goroutine
  ret,       \* the state or the result of each goroutine's last call
  accepted,  \* history: number of bytes of the writes that were queued
  got        \* history: the bytes that reads returned, in the order they did

pipeVars == <<pipe, pipeCalls, ret, accepted, got>>

Nil == "nil"
Errors == {"EOF", "ErrClosedPipe", "custom"}

PendingRead == [g : Users, n : 1..PipeLen]
PendingWrite(w) ==
  /\ DOMAIN w = {"g", "data", "offset"}
  /\ w.g \in Users /\ w.data \in Seq(Nat) /\ w.offset \in 0..(Len(w.data) - 1)

PipeTypeOK ==
  /\ pipe.readerClosed \in BOOLEAN /\ pipe.writerClosed \in BOOLEAN
  /\ {pipe.readerErr, pipe.writerErr} \subseteq Errors \cup {Nil}
  /\ pipe.pendingReads \in Seq(PendingRead)
  /\ \A w \in ToSet(pipe.pendingWrites) : PendingWrite(w)
  /\ pipeCalls \in [Users -> 0..PipeOps]
  /\ \A g \in Users : /\ ret[g].st \in {"none", "reading", "writing", "read", "written"}
                      /\ ret[g].n \in Nat /\ ret[g].err \in Errors \cup {Nil}
                      /\ ret[g].data \in Seq(Nat)
  /\ accepted \in Nat /\ got \in Seq(Nat)

Result(st, n, e, data) == [st |-> st, n |-> n, err |-> e, data |-> data]

PipeInit ==
  /\ pipe = [readerClosed |-> FALSE, writerClosed |-> FALSE,
             readerErr |-> Nil, writerErr |-> Nil,
             pendingReads |-> <<>>, pendingWrites |-> <<>>]
  /\ pipeCalls = [g \in Users |-> 0]
  /\ ret = [g \in Users |-> Result("none", 0, Nil, <<>>)]
  /\ accepted = 0
  /\ got = <<>>

-----------------------------------------------------------------------------
(* The private methods work on s = [pipe, ret, got].                       *)

Settle(s, g, r) == [s EXCEPT !.ret[g] = r]

ResolvePendingReads(s, e) ==
  [s EXCEPT !.pipe.pendingReads = <<>>,
            !.ret = [g \in Users |-> IF \E r \in ToSet(s.pipe.pendingReads) : r.g = g
                                     THEN Result("read", 0, e, <<>>) ELSE @[g]]]

ResolvePendingWrites(s, e) ==
  [s EXCEPT !.pipe.pendingWrites = <<>>,
            !.ret = [g \in Users |-> IF \E w \in ToSet(s.pipe.pendingWrites) : w.g = g
                                     THEN Result("written", 0, e, s.ret[g].data)
                                     ELSE @[g]]]

\* Mutant: the offset of a write that is read in parts does not move.
ConsumeFromStart(s, g, n) ==
  LET w == Head(s.pipe.pendingWrites)
      k == IF n < Len(w.data) THEN n ELSE Len(w.data)
      bytes == SubSeq(w.data, 1, k)
      t == Settle([s EXCEPT !.got = @ \o bytes], g, Result("read", k, Nil, bytes))
  IN  IF k < Len(w.data) THEN t
      ELSE Settle([t EXCEPT !.pipe.pendingWrites = Tail(@)], w.g,
                  Result("written", Len(w.data), Nil, w.data))

\* g reads k bytes of the oldest write.
Consume(s, g, k) ==
  LET w     == Head(s.pipe.pendingWrites)
      bytes == SubSeq(w.data, w.offset + 1, w.offset + k)
  IN  [s EXCEPT !.pipe.pendingWrites[1].offset = @ + k,
                !.ret[g] = Result("read", k, Nil, bytes),
                !.got = @ \o bytes]

\* The oldest write returns.
ShiftWrite(s) ==
  LET w == Head(s.pipe.pendingWrites)
  IN  [s EXCEPT !.pipe.pendingWrites = Tail(@),
                !.ret[w.g] = Result("written", Len(w.data), Nil, w.data)]

\* Give g up to n bytes of the oldest write; a write that is used up returns,
\* and the last one of a closed writer ends the pending reads.
ConsumeNextWrite(s, g, n) ==
  LET w    == Head(s.pipe.pendingWrites)
      rest == Len(w.data) - w.offset
      k    == IF n < rest THEN n ELSE rest
      t    == Consume(s, g, k)
      u    == ShiftWrite(t)
  IN  IF k < rest THEN t
      ELSE IF u.pipe.writerClosed /\ u.pipe.pendingWrites = <<>>
      THEN ResolvePendingReads(u, IF u.pipe.writerErr = Nil THEN "EOF"
                                  ELSE u.pipe.writerErr)
      ELSE u

\* One round of the loop of drain(); nothing when the loop has ended.
DrainOnce(s) ==
  IF s.pipe.pendingWrites = <<>> \/ s.pipe.pendingReads = <<>> THEN s
  ELSE IF s.pipe.readerClosed
  THEN ResolvePendingWrites(s, IF s.pipe.readerErr = Nil THEN "ErrClosedPipe"
                               ELSE s.pipe.readerErr)
  ELSE LET r == Head(s.pipe.pendingReads) IN
       ConsumeNextWrite([s EXCEPT !.pipe.pendingReads = Tail(@)], r.g, r.n)

Drain(s) ==
  LET round[k \in 0..Len(s.pipe.pendingReads)] ==
        IF k = 0 THEN s ELSE DrainOnce(round[k - 1])
  IN  round[Len(s.pipe.pendingReads)]

-----------------------------------------------------------------------------
(* The calls. *)

Now == [pipe |-> pipe, ret |-> ret, got |-> got]

Becomes(s) == pipe' = s.pipe /\ ret' = s.ret /\ got' = s.got

\* g is not blocked and makes a call.
Call(g) ==
  /\ ret[g].st \notin {"reading", "writing"}
  /\ pipeCalls[g] < PipeOps
  /\ pipeCalls' = [pipeCalls EXCEPT ![g] = @ + 1]

ReadReturns(g) ==
  /\ Call(g)
  /\ \/ /\ pipe.readerClosed
        /\ Becomes(Settle(Now, g, Result("read", 0, pipe.readerErr, <<>>)))
     \/ /\ ~pipe.readerClosed
        /\ pipe.pendingWrites = <<>> /\ pipe.writerClosed
        /\ Becomes(Settle(Now, g, Result("read", 0, pipe.writerErr, <<>>)))
  /\ UNCHANGED accepted

ReadConsumes(g, n) ==
  /\ Call(g)
  /\ ~pipe.readerClosed /\ pipe.pendingWrites # <<>>
  /\ Becomes(ConsumeNextWrite(Now, g, n))
  /\ UNCHANGED accepted

ReadBlocks(g, n) ==
  /\ Call(g)
  /\ ~pipe.readerClosed /\ ~pipe.writerClosed /\ pipe.pendingWrites = <<>>
  /\ pipe' = [pipe EXCEPT !.pendingReads = Append(@, [g |-> g, n |-> n])]
  /\ ret' = [ret EXCEPT ![g] = Result("reading", 0, Nil, <<>>)]
  /\ UNCHANGED <<accepted, got>>

WriteFails(g) ==
  /\ Call(g)
  /\ pipe.writerClosed \/ pipe.readerClosed
  /\ ret' = [ret EXCEPT ![g] =
               Result("written", 0, IF pipe.readerErr = Nil THEN "ErrClosedPipe"
                                    ELSE pipe.readerErr, <<>>)]
  /\ UNCHANGED <<pipe, accepted, got>>

Write(g, n) ==
  /\ Call(g)
  /\ ~pipe.writerClosed /\ ~pipe.readerClosed
  /\ LET data == [i \in 1..n |-> accepted + i]
         s == [Now EXCEPT
                !.pipe.pendingWrites =
                   Append(@, [g |-> g, data |-> data, offset |-> 0]),
                !.ret[g] = Result("writing", 0, Nil, data)]
     IN Becomes(Drain(s))
  /\ accepted' = accepted + n

\* A Read or Write of length zero on an open pipe returns at once.
EmptyCall(g) ==
  /\ Call(g)
  /\ ~pipe.readerClosed
  /\ ret' = [ret EXCEPT ![g] = Result("none", 0, Nil, <<>>)]
  /\ UNCHANGED <<pipe, accepted, got>>

\* Close passes ErrClosedPipe, CloseWithError(err) err.
CloseReader(g, e) ==
  /\ Call(g)
  /\ LET s == [Now EXCEPT !.pipe.readerClosed = TRUE, !.pipe.readerErr = e] IN
     Becomes(ResolvePendingWrites(ResolvePendingReads(s, "ErrClosedPipe"),
                                  "ErrClosedPipe"))
  /\ UNCHANGED accepted

\* Mutant: pending reads are left alone.
CloseWriterQuietly(g, e) ==
  /\ Call(g)
  /\ Becomes([Now EXCEPT !.pipe.writerClosed = TRUE, !.pipe.writerErr = e])
  /\ UNCHANGED accepted

CloseWriter(g, e) ==
  /\ Call(g)
  /\ LET s == [Now EXCEPT !.pipe.writerClosed = TRUE, !.pipe.writerErr = e] IN
     Becomes(IF pipe.pendingWrites = <<>> THEN ResolvePendingReads(s, e) ELSE s)
  /\ UNCHANGED accepted

PipeNext ==
  \E g \in Users :
    \/ ReadReturns(g) \/ WriteFails(g) \/ EmptyCall(g)
    \/ \E n \in 1..PipeLen : ReadConsumes(g, n) \/ ReadBlocks(g, n) \/ Write(g, n)
    \/ \E e \in {"ErrClosedPipe", "custom"} : CloseReader(g, e)
    \/ \E e \in {"EOF", "custom"} : CloseWriter(g, e)

PipeSpec == PipeInit /\ [][PipeNext]_pipeVars

-----------------------------------------------------------------------------
(* Properties. *)

\* Nobody waits who could be served or told: reads and writes do not wait for
\* each other, a closed reader leaves nobody pending, and a closed writer
\* leaves reads pending only behind data.  Every blocked goroutine is in
\* exactly one list, once.
PipeServes ==
  /\ pipe.pendingReads = <<>> \/ pipe.pendingWrites = <<>>
  /\ pipe.readerClosed => pipe.pendingReads = <<>> /\ pipe.pendingWrites = <<>>
  /\ pipe.writerClosed => pipe.pendingReads = <<>>
  /\ \A g \in Users :
       /\ ret[g].st = "reading" <=>
            Cardinality({i \in DOMAIN pipe.pendingReads :
                           pipe.pendingReads[i].g = g}) = 1
       /\ ret[g].st = "writing" <=>
            Cardinality({i \in DOMAIN pipe.pendingWrites :
                           pipe.pendingWrites[i].g = g}) = 1

\* The pipe is a byte stream: the bytes read are the bytes written, in order,
\* without gap or duplicate, however writes are split over reads; and a Write
\* that reports success has had all its bytes read.
PipeStream ==
  /\ \A i \in DOMAIN got : got[i] = i
  /\ ~pipe.readerClosed =>
       LET pending == FlattenSeq([i \in DOMAIN pipe.pendingWrites |->
                        LET w == pipe.pendingWrites[i] IN
                        SubSeq(w.data, w.offset + 1, Len(w.data))])
       IN got \o pending = [i \in 1..accepted |-> i]
  /\ \A g \in Users : ret[g].st = "written" /\ ret[g].err = Nil =>
       ret[g].n = Len(ret[g].data) /\ ToSet(ret[g].data) \subseteq ToSet(got)

\* The pipe serves whom it can and is a byte stream.
PipeAgrees == PipeTypeOK /\ PipeServes /\ PipeStream
=============================================================================
