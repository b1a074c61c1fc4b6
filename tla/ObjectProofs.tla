---------------------------- MODULE ObjectProofs ----------------------------
(***************************************************************************)
(* Five objects of the library keep Go's promises, whatever is called on   *)
(* them: io.Pipe (class pipeState of gs/io/io.ts) serves whom it can and   *)
(* is a byte stream; the slices of gs/builtin/slice.ts are Go's; sync.Map, *)
(* sync.Pool and sync.OnceFunc of gs/sync/sync.ts are Go's; a reflect.Value*)
(* (gs/reflect/type.ts) stores where Go stores; bytes.Buffer and the       *)
(* readers of packages bytes and strings hand out what was written.        *)
(***************************************************************************)
EXTENDS Pipe, Slices, SyncMap, Buffers, ReflectValues, SequenceFacts, FiniteSetTheorems

-----------------------------------------------------------------------------
(* The inductive invariant.  PipeStream is not inductive: that the bytes    *)
(* read are a prefix of what was written says nothing of the bytes that    *)
(* wait.  The pending writes tile the interval that follows the bytes      *)
(* read, and each list holds exactly the goroutines that wait on it.       *)

Outcome ==
  [st : {"none", "reading", "writing", "read", "written"}, n : Nat,
   err : Errors \cup {Nil}, data : Seq(Nat)]

Queued == [g : Users, data : Seq(Nat), offset : Nat]

PipeState ==
  [readerClosed : BOOLEAN, writerClosed : BOOLEAN,
   readerErr : Errors \cup {Nil}, writerErr : Errors \cup {Nil},
   pendingReads : Seq(PendingRead), pendingWrites : Seq(Queued)]

Held == [pipe : PipeState, ret : [Users -> Outcome], got : Seq(Nat)]

\* The list q holds whose state is st, each once; what becomes of those in X
\* is not decided yet, and none of them is in q.
Waiting(q, r, st, X) ==
  /\ \A h \in Users \ X : r[h].st = st <=> \E i \in 1..Len(q) : q[i].g = h
  /\ \A i \in 1..Len(q) : q[i].g \notin X
  /\ \A i, j \in 1..Len(q) : q[i].g = q[j].g => i = j

\* What is left of a write is a run of numbers, and not empty.
End(w) == w.data[Len(w.data)]
First(w) == w.data[w.offset + 1]
Run(w) ==
  /\ w.offset < Len(w.data)
  /\ \A k \in 1..Len(w.data) : 1 <= w.data[k] /\ w.data[k] + Len(w.data) = End(w) + k

\* The writes of q hold the numbers after a up to b.
Tiles(q, a, b) ==
  /\ q = <<>> => a = b
  /\ q # <<>> => First(q[1]) = a + 1 /\ End(q[Len(q)]) = b
  /\ \A i \in 1..Len(q) : i < Len(q) => First(q[i + 1]) = End(q[i]) + 1

\* A Write that reports success has had its bytes read; n of them are.
Told(r, n, X) ==
  \A h \in Users \ X : r[h].st = "written" /\ r[h].err = Nil =>
    r[h].n = Len(r[h].data) /\ \A k \in 1..Len(r[h].data) : r[h].data[k] \in 1..n

Numbered(b) == \A k \in 1..Len(b) : b[k] = k

Sound(s, n, X) ==
  /\ Waiting(s.pipe.pendingReads, s.ret, "reading", X)
  /\ Waiting(s.pipe.pendingWrites, s.ret, "writing", X)
  /\ \A i \in 1..Len(s.pipe.pendingWrites) : Run(s.pipe.pendingWrites[i])
  /\ ~s.pipe.readerClosed => Tiles(s.pipe.pendingWrites, Len(s.got), n)
  /\ Numbered(s.got)
  /\ Told(s.ret, Len(s.got), X)

\* Who closes an end leaves nobody behind whom nobody would serve.
Ended(p) ==
  /\ p.readerClosed => p.pendingReads = <<>> /\ p.pendingWrites = <<>>
  /\ p.writerClosed => p.pendingReads = <<>>

PipeInv ==
  /\ Now \in Held /\ pipeCalls \in [Users -> 0..PipeOps] /\ accepted \in Nat
  /\ Sound(Now, accepted, {}) /\ Ended(pipe)
  /\ pipe.pendingReads = <<>> \/ pipe.pendingWrites = <<>>

-----------------------------------------------------------------------------
(* Who waits. *)

\* A goroutine that does not wait may be given any state.
LEMMA WaitingForgets ==
  ASSUME NEW q, NEW r, NEW st, NEW g \in Users, Waiting(q, r, st, {}), r[g].st # st
  PROVE  Waiting(q, r, st, {g})
BY DEF Waiting

\* Its state is decided: it does not wait on q.
LEMMA WaitingSettled ==
  ASSUME NEW q, NEW r \in [Users -> Outcome], NEW st, NEW g \in Users, NEW o, o.st # st,
         Waiting(q, r, st, {g})
  PROVE  Waiting(q, [r EXCEPT ![g] = o], st, {})
<1> DEFINE r1 == [r EXCEPT ![g] = o]
<1>1. \A h \in Users : h # g => r1[h] = r[h]
  OBVIOUS
<1>2. r1[g] = o
  OBVIOUS
<1> HIDE DEF r1
<1>3. \A h \in Users : r1[h].st = st <=> \E i \in 1..Len(q) : q[i].g = h
  <2> TAKE h \in Users
  <2>1. CASE h = g
    BY <2>1, <1>2 DEF Waiting
  <2>2. CASE h # g
    BY <2>2, <1>1 DEF Waiting
  <2> QED BY <2>1, <2>2
<1> QED BY <1>3 DEF Waiting, r1

\* It joins q.
LEMMA WaitingJoined ==
  ASSUME NEW R, NEW q \in Seq(R), NEW x \in R, NEW r \in [Users -> Outcome], NEW st, NEW g \in Users,
         NEW o, o.st = st, x.g = g, Waiting(q, r, st, {g})
  PROVE  Waiting(Append(q, x), [r EXCEPT ![g] = o], st, {})
<1> DEFINE r1 == [r EXCEPT ![g] = o]
           q1 == Append(q, x)
<1>1. \A h \in Users : h # g => r1[h] = r[h]
  OBVIOUS
<1>2. r1[g] = o
  OBVIOUS
<1>3. /\ Len(q) \in Nat /\ Len(q1) = Len(q) + 1
      /\ \A k \in 1..Len(q1) : \/ k \in 1..Len(q) /\ q1[k] = q[k]
                               \/ k = Len(q) + 1 /\ q1[k] = x
      /\ \A k \in 1..Len(q) : k \in 1..Len(q1) /\ q1[k] = q[k]
      /\ Len(q) + 1 \in 1..Len(q1) /\ q1[Len(q) + 1] = x
  OBVIOUS
<1> HIDE DEF r1, q1
<1>4. \A h \in Users : r1[h].st = st <=> \E i \in 1..Len(q1) : q1[i].g = h
  <2> TAKE h \in Users
  <2>1. CASE h = g
    BY <2>1, <1>2, <1>3
  <2>2. CASE h # g
    <3>1. (\E i \in 1..Len(q1) : q1[i].g = h) <=> \E i \in 1..Len(q) : q[i].g = h
      BY <2>2, <1>3
    <3> QED BY <2>2, <1>1, <3>1 DEF Waiting
  <2> QED BY <2>1, <2>2
<1>5. \A i, j \in 1..Len(q1) : q1[i].g = q1[j].g => i = j
  BY <1>3 DEF Waiting
<1> QED BY <1>4, <1>5 DEF Waiting, r1, q1

\* The first of q is taken out.
LEMMA WaitingTaken ==
  ASSUME NEW R, NEW q \in Seq(R), q # <<>>, NEW r, NEW st, Waiting(q, r, st, {})
  PROVE  Waiting(Tail(q), r, st, {Head(q).g})
<1> DEFINE q1 == Tail(q)
<1>1. /\ Len(q1) = Len(q) - 1 /\ Len(q) \in Nat /\ Len(q) >= 1 /\ Head(q) = q[1]
      /\ \A k \in 1..Len(q1) : k + 1 \in 2..Len(q) /\ k + 1 \in 1..Len(q) /\ q1[k] = q[k + 1]
  BY SeqSteps
<1>2. \A k \in 1..Len(q) : k # 1 => k - 1 \in 1..Len(q1) /\ q1[k - 1] = q[k]
  BY <1>1
<1> HIDE DEF q1
<1>3. \A h \in Users \ {q[1].g} : r[h].st = st <=> \E i \in 1..Len(q1) : q1[i].g = h
  <2> TAKE h \in Users \ {q[1].g}
  <2>1. (\E i \in 1..Len(q1) : q1[i].g = h) <=> \E i \in 1..Len(q) : q[i].g = h
    BY <1>1, <1>2
  <2> QED BY <2>1 DEF Waiting
<1>4. \A i \in 1..Len(q1) : q1[i].g # q[1].g
  <2> TAKE i \in 1..Len(q1)
  <2>1. i + 1 \in 1..Len(q) /\ 1 \in 1..Len(q) /\ i + 1 # 1 /\ q1[i] = q[i + 1]
    BY <1>1
  <2> QED BY <2>1 DEF Waiting
<1>5. \A i, j \in 1..Len(q1) : q1[i].g = q1[j].g => i = j
  <2> TAKE i, j \in 1..Len(q1)
  <2>1. i + 1 \in 1..Len(q) /\ j + 1 \in 1..Len(q) /\ q1[i] = q[i + 1] /\ q1[j] = q[j + 1]
    BY <1>1
  <2>2. q1[i].g = q1[j].g => i + 1 = j + 1
    BY <2>1 DEF Waiting
  <2> QED BY <2>2
<1> QED BY <1>1, <1>3, <1>4, <1>5 DEF Waiting, q1

\* Only the goroutines of a list matter.
LEMMA WaitingSame ==
  ASSUME NEW q, NEW p, Len(p) = Len(q), \A i \in 1..Len(q) : p[i].g = q[i].g,
         NEW r, NEW st, NEW X, Waiting(q, r, st, X)
  PROVE  Waiting(p, r, st, X)
BY DEF Waiting

\* Everybody in q is told o; those of a list p of another state still wait.
LEMMA WaitingTold ==
  ASSUME NEW R, NEW q \in Seq(R), NEW p, NEW r, NEW st, NEW su, NEW X, st # su, NEW o,
         \A h \in Users : o[h].st # st /\ o[h].st # su, Waiting(q, r, st, X), Waiting(p, r, su, X)
  PROVE  LET t == [h \in Users |-> IF \E x \in ToSet(q) : x.g = h THEN o[h] ELSE r[h]]
         IN  Waiting(<<>>, t, st, X) /\ Waiting(p, t, su, X)
<1> DEFINE t == [h \in Users |-> IF \E x \in ToSet(q) : x.g = h THEN o[h] ELSE r[h]]
<1>1. \A h \in Users : t[h] = IF \E i \in 1..Len(q) : q[i].g = h THEN o[h] ELSE r[h]
  BY SetOfSeq
<1> HIDE DEF t
<1>2. \A h \in Users \ X : t[h].st # st
  BY <1>1 DEF Waiting
<1>3. \A h \in Users \ X : t[h].st = su <=> r[h].st = su
  BY <1>1 DEF Waiting
<1>4. Len(<<>>) = 0
  OBVIOUS
<1>5. Waiting(<<>>, t, st, X)
  BY <1>2, <1>4 DEF Waiting
<1>6. Waiting(p, t, su, X)
  BY <1>3 DEF Waiting
<1> QED BY <1>5, <1>6 DEF t

-----------------------------------------------------------------------------
(* The bytes. *)

LEMMA QueuedFields ==
  ASSUME NEW w \in Queued
  PROVE  w.g \in Users /\ w.data \in Seq(Nat) /\ w.offset \in Nat /\ Len(w.data) \in Nat
BY DEF Queued

\* b is the k bytes of d after the first i.
PartOf(b, d, i, k) ==
  /\ b \in Seq(Nat) /\ Len(b) = k
  /\ \A j \in 1..k : i + j \in 1..Len(d) /\ b[j] = d[i + j]

LEMMA PartOfSeq ==
  ASSUME NEW d \in Seq(Nat), NEW i \in Nat, NEW k \in Nat, i + k <= Len(d)
  PROVE  PartOf(SubSeq(d, i + 1, i + k), d, i, k)
BY DEF PartOf

\* A read of k bytes of w continues the bytes read.
LEMMA BytesRead ==
  ASSUME NEW w \in Queued, Run(w), NEW k \in Nat, 1 <= k, w.offset + k <= Len(w.data),
         NEW b \in Seq(Nat), Numbered(b), First(w) = Len(b) + 1
  PROVE  LET bytes == SubSeq(w.data, w.offset + 1, w.offset + k)
         IN  /\ bytes \in Seq(Nat) /\ b \o bytes \in Seq(Nat)
             /\ Len(b \o bytes) = Len(b) + k /\ Numbered(b \o bytes)
             /\ w.offset + k = Len(w.data) => End(w) = Len(b) + k
             /\ w.offset + k < Len(w.data) => w.data[w.offset + k + 1] = Len(b) + k + 1
<1>1. PICK d \in Seq(Nat), off \in Nat : d = w.data /\ off = w.offset
  BY DEF Queued
<1>2. PICK e : e = End(w)
  OBVIOUS
<1> HIDE <1>1, <1>2
<1>3. /\ Len(d) \in Nat /\ Len(b) \in Nat /\ off < Len(d) /\ off + k <= Len(d)
      /\ \A j \in 1..Len(d) : d[j] \in Nat /\ d[j] + Len(d) = e + j
      /\ d[off + 1] = Len(b) + 1 /\ d[Len(d)] = e
  <2>1. Len(d) \in Nat /\ Len(b) \in Nat /\ \A j \in 1..Len(d) : d[j] \in Nat
    OBVIOUS
  <2>2. off < Len(d) /\ \A j \in 1..Len(d) : d[j] + Len(d) = e + j
    BY <1>1, <1>2 DEF Run
  <2>3. off + k <= Len(d)
    BY <1>1
  <2>4. d[off + 1] = Len(b) + 1
    BY <1>1 DEF First
  <2>5. d[Len(d)] = e
    BY <1>1, <1>2 DEF End
  <2> QED BY <2>1, <2>2, <2>3, <2>4, <2>5
<1>4. PICK m \in Nat, c \in Nat : m = Len(d) /\ c = Len(b)
  BY <1>3
<1>4a. e \in Nat /\ (c + 1) + m = e + (off + 1)
  <2>1. m \in 1..m /\ off + 1 \in 1..m
    BY <1>3, <1>4
  <2>2. d[m] \in Nat /\ d[off + 1] + m = e + (off + 1)
    BY <2>1, <1>3, <1>4
  <2> QED BY <2>2, <1>3, <1>4
<1>5. \A j \in 1..Len(d) : d[j] + off = Len(b) + j
  <2> TAKE j \in 1..Len(d)
  <2>1. PICK x \in Nat : x = d[j]
    BY <1>3
  <2>2. x + m = e + j /\ j \in Nat
    BY <2>1, <1>3, <1>4
  <2>3. x + off = c + j
    BY <2>2, <1>4a
  <2> QED BY <2>1, <2>3, <1>4
<1>6. PICK bytes \in Seq(Nat) :
        /\ bytes = SubSeq(d, off + 1, off + k)
        /\ Len(bytes) = k /\ \A j \in 1..k : bytes[j] = d[off + j]
  <2>1. /\ SubSeq(d, off + 1, off + k) \in Seq(Nat) /\ Len(SubSeq(d, off + 1, off + k)) = k
        /\ \A j \in 1..k : SubSeq(d, off + 1, off + k)[j] = d[off + j]
    <3>1. off + k <= Len(d)
      BY <1>3
    <3>2. PartOf(SubSeq(d, off + 1, off + k), d, off, k)
      BY <3>1, PartOfSeq
    <3> QED BY <3>2, Zenon DEF PartOf
  <2> QED BY <2>1
<1>7. \A j \in 1..k : off + j \in 1..Len(d) /\ d[off + j] + off = Len(b) + (off + j)
  <2>1. \A j \in 1..k : off + j \in 1..Len(d)
    BY <1>3
  <2> QED BY <1>5, <2>1
<1>8. \A j \in 1..k : bytes[j] = Len(b) + j
  <2> TAKE j \in 1..k
  <2>1. PICK x \in Nat : x = d[off + j]
    BY <1>7, <1>3
  <2>2. x + off = c + (off + j) /\ j \in Nat
    BY <2>1, <1>7, <1>4
  <2>3. x = c + j
    BY <2>2
  <2> QED BY <2>1, <2>3, <1>4, <1>6
<1>9. /\ b \o bytes \in Seq(Nat) /\ Len(b \o bytes) = Len(b) + k
      /\ \A j \in 1..Len(b) : (b \o bytes)[j] = b[j]
      /\ \A j \in (Len(b) + 1)..(Len(b) + k) : (b \o bytes)[j] = bytes[j - Len(b)]
  BY <1>6, ConcatParts
<1>10. Numbered(b \o bytes)
  <2>1. \A j \in 1..(Len(b) + k) : \/ j \in 1..Len(b)
                                   \/ j \in (Len(b) + 1)..(Len(b) + k) /\ j - Len(b) \in 1..k
                                      /\ Len(b) + (j - Len(b)) = j
    BY <1>3
  <2> QED BY <2>1, <1>8, <1>9 DEF Numbered
<1>11. off + k = Len(d) => e = Len(b) + k
  <2>1. m \in 1..m
    BY <1>3, <1>4
  <2>2. e + off = c + m
    BY <2>1, <1>3, <1>4, <1>5
  <2>3. off + k = m => e = c + k
    BY <2>2, <1>4a
  <2> QED BY <2>3, <1>4
<1>12. off + k < Len(d) => d[off + k + 1] = Len(b) + k + 1
  <2> SUFFICES ASSUME off + k < Len(d) PROVE d[off + k + 1] = Len(b) + k + 1
    OBVIOUS
  <2>1. off + k + 1 \in 1..Len(d)
    BY <1>3
  <2>2. d[off + k + 1] + off = Len(b) + (off + k + 1)
    BY <2>1, <1>5
  <2>3. PICK x \in Nat : x = d[off + k + 1]
    BY <2>1, <1>3
  <2>4. x + off = c + (off + k + 1)
    BY <2>2, <2>3, <1>4
  <2>5. x = c + k + 1
    BY <2>4
  <2> QED BY <2>3, <2>5, <1>4
<1> QED BY <1>1, <1>2, <1>6, <1>9, <1>10, <1>11, <1>12

\* The writes q hold the numbers after a up to b.
Line(q, a, b) ==
  q \in Seq(Queued) /\ (\A i \in 1..Len(q) : Run(q[i])) /\ Tiles(q, a, b)

Advanced(q, k) == [q EXCEPT ![1].offset = @ + k]

\* A write of which k bytes are read, and some are left.
LEMMA WriteMoves ==
  ASSUME NEW q, NEW k \in Nat, NEW a \in Nat, NEW b, Line(q, a, b), q # <<>>,
         q[1].offset + k < Len(q[1].data), q[1].data[q[1].offset + k + 1] = a + k + 1
  PROVE  /\ Line(Advanced(q, k), a + k, b) /\ Len(Advanced(q, k)) = Len(q)
         /\ \A i \in 1..Len(q) : Advanced(q, k)[i].g = q[i].g
<1> DEFINE w == [q[1] EXCEPT !.offset = @ + k]
           p == [q EXCEPT ![1] = w]
<1>0. q \in Seq(Queued) /\ (\A i \in 1..Len(q) : Run(q[i])) /\ Tiles(q, a, b)
  BY DEF Line
<1>1. Len(q) \in Nat /\ 1 \in 1..Len(q) /\ q[1] \in Queued
  BY <1>0, SeqSteps
<1>2. /\ w \in Queued /\ w.g = q[1].g /\ w.data = q[1].data /\ w.offset = q[1].offset + k
  <2>1. PICK x \in Queued : x = q[1]
    BY <1>1
  <2>2. PICK i \in Nat : i = x.offset
    BY QueuedFields
  <2>3. PICK o \in Nat : o = x.offset + k
    BY <2>2
  <2>4. [x EXCEPT !.offset = o] \in Queued
    BY DEF Queued
  <2>5. w = [x EXCEPT !.offset = o]
    BY <2>1, <2>3
  <2> HIDE DEF w
  <2> QED BY <2>1, <2>3, <2>4, <2>5 DEF Queued
<1> HIDE DEF w
<1>3. /\ p \in Seq(Queued) /\ Len(p) = Len(q)
      /\ \A i \in 1..Len(q) : p[i] = IF i = 1 THEN w ELSE q[i]
  BY <1>0, <1>1, <1>2
<1>4. p = Advanced(q, k)
  BY DEF w, Advanced
<1> HIDE DEF p
<1>5. Run(w) /\ End(w) = End(q[1]) /\ First(w) = a + k + 1
  <2>1. Run(q[1]) /\ First(q[1]) = a + 1
    BY <1>0, <1>1 DEF Tiles
  <2> QED BY <2>1, <1>2 DEF Run, End, First
<1>6. \A i \in 1..Len(p) : Run(p[i])
  BY <1>0, <1>3, <1>5
<1>7. \A i \in 1..Len(q) : End(p[i]) = End(q[i])
  BY <1>3, <1>5
<1>8. \A i \in 1..Len(q) : i # 1 => First(p[i]) = First(q[i])
  BY <1>3
<1>9. \A i \in 1..Len(q) : i < Len(q) => i + 1 \in 1..Len(q) /\ i + 1 # 1
  BY <1>1
<1>10. Tiles(p, a + k, b)
  <2>1. p # <<>>
    BY <1>1, <1>3
  <2>2. First(p[1]) = (a + k) + 1
    BY <1>1, <1>3, <1>5
  <2>3. Len(q) \in 1..Len(q)
    BY <1>1
  <2>4. End(p[Len(p)]) = b
    BY <1>0, <1>3, <1>7, <2>3 DEF Tiles
  <2>5. \A i \in 1..Len(p) : i < Len(p) => First(p[i + 1]) = End(p[i]) + 1
    BY <1>0, <1>3, <1>7, <1>8, <1>9 DEF Tiles
  <2> QED BY <2>1, <2>2, <2>4, <2>5 DEF Tiles
<1>11. \A i \in 1..Len(q) : p[i].g = q[i].g
  BY <1>2, <1>3
<1>12. Line(p, a + k, b)
  BY <1>3, <1>6, <1>10 DEF Line
<1> QED BY <1>3, <1>4, <1>11, <1>12

\* A write that is used up leaves the list.
LEMMA WriteEnds ==
  ASSUME NEW q \in Seq(Queued), q # <<>>, \A i \in 1..Len(q) : Run(q[i]),
         NEW a, NEW b, Tiles(q, a, b)
  PROVE  /\ Tail(q) \in Seq(Queued) /\ \A i \in 1..Len(Tail(q)) : Run(Tail(q)[i])
         /\ Tiles(Tail(q), End(q[1]), b)
<1> DEFINE p == Tail(q)
<1>1. /\ p \in Seq(Queued) /\ Len(p) = Len(q) - 1 /\ Len(q) \in Nat /\ Len(q) >= 1
      /\ \A k \in 1..Len(p) : k + 1 \in 2..Len(q) /\ k + 1 \in 1..Len(q) /\ p[k] = q[k + 1]
  BY SeqSteps
<1>2. p = <<>> <=> Len(p) = 0
  BY <1>1
<1> HIDE DEF p
<1>3. \A i \in 1..Len(p) : Run(p[i])
  BY <1>1
<1>4. p = <<>> => End(q[1]) = b
  <2>1. p = <<>> => Len(q) = 1
    BY <1>1, <1>2
  <2>2. End(q[Len(q)]) = b
    BY DEF Tiles
  <2> QED BY <2>1, <2>2
<1>5. p # <<>> => 1 \in 1..Len(p) /\ 1 \in 1..Len(q) /\ 1 < Len(q) /\ Len(p) \in 1..Len(p)
                  /\ Len(p) + 1 = Len(q)
  BY <1>1, <1>2
<1>6. p # <<>> => First(p[1]) = End(q[1]) + 1 /\ End(p[Len(p)]) = b
  BY <1>1, <1>5 DEF Tiles
<1>7. \A i \in 1..Len(p) : i < Len(p) => First(p[i + 1]) = End(p[i]) + 1
  <2> TAKE i \in 1..Len(p)
  <2> HAVE i < Len(p)
  <2>1. /\ i + 1 \in 1..Len(p) /\ p[i] = q[i + 1] /\ p[i + 1] = q[(i + 1) + 1]
        /\ i + 1 \in 1..Len(q) /\ i + 1 < Len(q)
    BY <1>1
  <2> QED BY <2>1 DEF Tiles
<1> QED BY <1>1, <1>3, <1>4, <1>6, <1>7 DEF Tiles, p

Grown(t, s, x) ==
  /\ Len(t) = Len(s) + 1 /\ Len(s) \in Nat
  /\ \A k \in 1..Len(s) : t[k] = s[k]
  /\ t[Len(s) + 1] = x /\ t # <<>>
  /\ \A k \in 1..Len(t) : \/ k \in 1..Len(s) /\ t[k] = s[k]
                          \/ k = Len(s) + 1 /\ t[k] = x

LEMMA SeqGrows ==
  ASSUME NEW R, NEW s \in Seq(R), NEW x \in R
  PROVE  Append(s, x) \in Seq(R) /\ Grown(Append(s, x), s, x)
BY DEF Grown

\* A write of the n numbers after b, none of them read.
Added(w, b, n) ==
  /\ w \in Queued /\ w.offset = 0
  /\ Len(w.data) = n /\ \A i \in 1..n : w.data[i] = b + i

\* A Write queues the next n numbers.
LEMMA WriteQueued ==
  ASSUME NEW q, NEW a \in Nat, NEW b \in Nat, Line(q, a, b),
         NEW n \in Nat, 1 <= n, NEW w, Added(w, b, n)
  PROVE  Line(Append(q, w), a, b + n)
<1>0. /\ q \in Seq(Queued) /\ (\A i \in 1..Len(q) : Run(q[i])) /\ Tiles(q, a, b)
      /\ w \in Queued /\ w.offset = 0
      /\ Len(w.data) = n /\ \A i \in 1..n : w.data[i] = b + i
  BY DEF Line, Added
<1> DEFINE p == Append(q, w)
           data == w.data
<1>1. data \in Seq(Nat) /\ Len(data) = n /\ \A i \in 1..n : data[i] = b + i
  BY <1>0 DEF Queued
<1>2. w \in Queued /\ w.data = data /\ w.offset = 0
  BY <1>0
<1> HIDE DEF data
<1>3. End(w) = b + n /\ First(w) = b + 1
  BY <1>1, <1>2 DEF End, First
<1>4. Run(w)
  <2>1. \A k \in 1..n : 1 <= b + k /\ (b + k) + n = (b + n) + k
    OBVIOUS
  <2> QED BY <1>1, <1>2, <1>3, <2>1 DEF Run
<1>5. /\ p \in Seq(Queued) /\ Len(p) = Len(q) + 1 /\ Len(q) \in Nat
      /\ \A k \in 1..Len(q) : p[k] = q[k]
      /\ p[Len(q) + 1] = w /\ p # <<>>
      /\ \A k \in 1..Len(p) : \/ k \in 1..Len(q) /\ p[k] = q[k]
                              \/ k = Len(q) + 1 /\ p[k] = w
      /\ q # <<>> => 1 \in 1..Len(q) /\ Len(q) \in 1..Len(q)
      /\ q = <<>> => Len(q) = 0
  <2>1. /\ p \in Seq(Queued) /\ Len(p) = Len(q) + 1 /\ Len(q) \in Nat
        /\ \A k \in 1..Len(q) : p[k] = q[k]
        /\ p[Len(q) + 1] = w /\ p # <<>>
        /\ \A k \in 1..Len(p) : \/ k \in 1..Len(q) /\ p[k] = q[k]
                                \/ k = Len(q) + 1 /\ p[k] = w
    <3>1. p \in Seq(Queued) /\ Grown(p, q, w)
      BY <1>0, SeqGrows
    <3> HIDE DEF p
    <3> QED BY <3>1 DEF Grown
  <2> HIDE DEF p
  <2>2. q # <<>> => Len(q) >= 1
    BY <1>0, SeqSteps
  <2>3. q = <<>> => Len(q) = 0
    BY <1>0
  <2> QED BY <2>1, <2>2, <2>3
<1> HIDE DEF p
<1>6. \A i \in 1..Len(p) : Run(p[i])
  BY <1>0, <1>4, <1>5
<1>7. First(p[1]) = a + 1
  <2>1. CASE q = <<>>
    BY <2>1, <1>0, <1>3, <1>5 DEF Tiles
  <2>2. CASE q # <<>>
    BY <2>2, <1>0, <1>5 DEF Tiles
  <2> QED BY <2>1, <2>2
<1>8. End(p[Len(p)]) = b + n
  BY <1>3, <1>5
<1>9. \A i \in 1..Len(p) : i < Len(p) => First(p[i + 1]) = End(p[i]) + 1
  <2> TAKE i \in 1..Len(p)
  <2> HAVE i < Len(p)
  <2>1. i \in 1..Len(q) /\ p[i] = q[i]
    BY <1>5
  <2>2. CASE i = Len(q)
    <3>1. End(p[i]) = b
      BY <2>1, <2>2, <1>0, <1>5 DEF Tiles
    <3>2. p[i + 1] = w
      BY <2>2, <1>5
    <3> QED BY <3>1, <3>2, <1>3
  <2>3. CASE i < Len(q)
    <3>1. i + 1 \in 1..Len(q) /\ p[i + 1] = q[i + 1]
      BY <2>1, <2>3, <1>5
    <3> QED BY <2>1, <2>3, <3>1, <1>0 DEF Tiles
  <2> QED BY <2>1, <2>2, <2>3, <1>5
<1>10. Tiles(p, a, b + n)
  BY <1>5, <1>7, <1>8, <1>9 DEF Tiles
<1> QED BY <1>5, <1>6, <1>10 DEF Line, p

-----------------------------------------------------------------------------
(* What the calls report. *)

LEMMA ToldForgets ==
  ASSUME NEW r, NEW n, NEW g, Told(r, n, {})
  PROVE  Told(r, n, {g})
BY DEF Told

LEMMA ToldSettled ==
  ASSUME NEW r \in [Users -> Outcome], NEW n \in Nat, NEW m \in Nat, n <= m, NEW g \in Users, NEW o,
         o.st = "written" /\ o.err = Nil =>
           o.n = Len(o.data) /\ \A k \in 1..Len(o.data) : o.data[k] \in 1..m,
         Told(r, n, {g})
  PROVE  Told([r EXCEPT ![g] = o], m, {})
<1> DEFINE r1 == [r EXCEPT ![g] = o]
<1>1. r1[g] = o /\ \A h \in Users : h # g => r1[h] = r[h]
  OBVIOUS
<1> HIDE DEF r1
<1>2. \A x : x \in 1..n => x \in 1..m
  OBVIOUS
<1>3. ASSUME NEW h \in Users, r1[h].st = "written", r1[h].err = Nil
      PROVE  r1[h].n = Len(r1[h].data) /\ \A k \in 1..Len(r1[h].data) : r1[h].data[k] \in 1..m
  <2>1. CASE h = g
    BY <2>1, <1>1, <1>3
  <2>2. CASE h # g
    BY <2>2, <1>1, <1>2, <1>3 DEF Told
  <2> QED BY <2>1, <2>2
<1> QED BY <1>3 DEF Told, r1

LEMMA ToldOthers ==
  ASSUME NEW r, NEW n, NEW X, Told(r, n, X),
         NEW t, \A h \in Users : t[h] = r[h] \/ t[h].st # "written" \/ t[h].err # Nil
  PROVE  Told(t, n, X)
BY DEF Told

-----------------------------------------------------------------------------
(* The private methods. *)

LEMMA HeldFields ==
  ASSUME NEW s \in Held
  PROVE  /\ s.pipe \in PipeState /\ s.ret \in [Users -> Outcome] /\ s.got \in Seq(Nat)
         /\ s.pipe.pendingReads \in Seq(PendingRead) /\ s.pipe.pendingWrites \in Seq(Queued)
         /\ s.pipe.readerClosed \in BOOLEAN /\ s.pipe.writerClosed \in BOOLEAN
         /\ s.pipe.readerErr \in Errors \cup {Nil} /\ s.pipe.writerErr \in Errors \cup {Nil}
         /\ Len(s.got) \in Nat
BY DEF Held, PipeState

\* A goroutine that makes a call is not in a list.
LEMMA Forgets ==
  ASSUME NEW s, NEW n, NEW g \in Users, Sound(s, n, {}), s.ret[g].st \notin {"reading", "writing"}
  PROVE  Sound(s, n, {g})
<1>1. Waiting(s.pipe.pendingReads, s.ret, "reading", {g})
  BY WaitingForgets DEF Sound
<1>2. Waiting(s.pipe.pendingWrites, s.ret, "writing", {g})
  BY WaitingForgets DEF Sound
<1>3. Told(s.ret, Len(s.got), {g})
  BY ToldForgets DEF Sound
<1> QED BY <1>1, <1>2, <1>3 DEF Sound

LEMMA Settles ==
  ASSUME NEW s \in Held, NEW n, NEW g \in Users, Sound(s, n, {g}), NEW o \in Outcome,
         o.st \notin {"reading", "writing"}, o.st # "written" \/ o.err # Nil
  PROVE  Settle(s, g, o) \in Held /\ Sound(Settle(s, g, o), n, {})
<1> DEFINE t == Settle(s, g, o)
<1>1. t.pipe = s.pipe /\ t.got = s.got /\ t.ret = [s.ret EXCEPT ![g] = o] /\ t \in Held
  BY DEF Settle, Held
<1> HIDE DEF t
<1>2. s.ret \in [Users -> Outcome] /\ Len(s.got) \in Nat
  BY HeldFields
<1>3. /\ Waiting(t.pipe.pendingReads, t.ret, "reading", {})
      /\ Waiting(t.pipe.pendingWrites, t.ret, "writing", {})
  BY <1>1, <1>2, WaitingSettled DEF Sound
<1>4. Told(t.ret, Len(t.got), {})
  <2>1. Len(s.got) <= Len(s.got) /\ Told(s.ret, Len(s.got), {g})
    BY <1>2 DEF Sound
  <2>2. o.st = "written" /\ o.err = Nil =>
          o.n = Len(o.data) /\ \A k \in 1..Len(o.data) : o.data[k] \in 1..Len(s.got)
    OBVIOUS
  <2>3. Told([s.ret EXCEPT ![g] = o], Len(s.got), {})
    BY <1>2, <2>1, <2>2, ToldSettled
  <2> QED BY <1>1, <2>3
<1>5. Sound(t, n, {})
  BY <1>1, <1>3, <1>4 DEF Sound
<1> QED BY <1>1, <1>5 DEF t

LEMMA ResolvesReads ==
  ASSUME NEW s \in Held, NEW n, NEW X, Sound(s, n, X), NEW e \in Errors \cup {Nil}
  PROVE  LET t == ResolvePendingReads(s, e)
         IN  /\ t \in Held /\ Sound(t, n, X)
             /\ t.pipe = [s.pipe EXCEPT !.pendingReads = <<>>] /\ t.got = s.got
<1> DEFINE t == ResolvePendingReads(s, e)
           o == [h \in Users |-> Result("read", 0, e, <<>>)]
           q == s.pipe.pendingReads
           r == [h \in Users |-> IF \E x \in ToSet(q) : x.g = h THEN o[h] ELSE s.ret[h]]
           np == [s.pipe EXCEPT !.pendingReads = <<>>]
<1>0. /\ s.pipe \in PipeState /\ s.ret \in [Users -> Outcome] /\ q \in Seq(PendingRead)
  BY HeldFields
<1>1. \A h \in Users : o[h] \in Outcome /\ o[h].st = "read" /\ o[h].err = e
  BY <1>0 DEF Result, Outcome
<1>2. t = [s EXCEPT !.pipe = np, !.ret = r]
  BY DEF ResolvePendingReads, Held
<1> HIDE DEF t, o
<1>3. r \in [Users -> Outcome]
  BY <1>0, <1>1
<1>4. Told(r, Len(s.got), X)
  <2>1. \A h \in Users : r[h] = s.ret[h] \/ r[h] = o[h]
    OBVIOUS
  <2>2. \A h \in Users : o[h].st # "written" \/ o[h].err # Nil
    BY <1>1
  <2>3. Told(s.ret, Len(s.got), X)
    BY DEF Sound
  <2> HIDE DEF r
  <2> QED BY <2>1, <2>2, <2>3, ToldOthers
<1>5. Waiting(<<>>, r, "reading", X) /\ Waiting(s.pipe.pendingWrites, r, "writing", X)
  BY <1>0, <1>1, WaitingTold DEF Sound
<1>6. np \in PipeState /\ \A f \in DOMAIN np : f # "pendingReads" => np[f] = s.pipe[f]
  <2>1. <<>> \in Seq(PendingRead)
    OBVIOUS
  <2> QED BY <1>0, <2>1 DEF PipeState
<1>7. /\ np.pendingReads = <<>> /\ np.pendingWrites = s.pipe.pendingWrites
      /\ np.readerClosed = s.pipe.readerClosed
  BY <1>0 DEF PipeState
<1> HIDE DEF q, r, np
<1>8. t \in Held /\ t.pipe = np /\ t.ret = r /\ t.got = s.got
  BY <1>2, <1>3, <1>6 DEF Held
<1>9. Sound(t, n, X)
  BY <1>4, <1>5, <1>7, <1>8 DEF Sound
<1> QED BY <1>8, <1>9 DEF t, np

LEMMA NilIsNone == Nil \notin Errors
BY DEF Nil, Errors

LEMMA ResolvesWrites ==
  ASSUME NEW s \in Held, NEW n, NEW X, Sound(s, n, X), NEW e \in Errors,
         s.pipe.readerClosed
  PROVE  LET t == ResolvePendingWrites(s, e)
         IN  /\ t \in Held /\ Sound(t, n, X)
             /\ t.pipe = [s.pipe EXCEPT !.pendingWrites = <<>>] /\ t.got = s.got
<1> DEFINE t == ResolvePendingWrites(s, e)
           o == [h \in Users |-> Result("written", 0, e, s.ret[h].data)]
           q == s.pipe.pendingWrites
           r == [h \in Users |-> IF \E x \in ToSet(q) : x.g = h THEN o[h] ELSE s.ret[h]]
           np == [s.pipe EXCEPT !.pendingWrites = <<>>]
<1>0. /\ s.pipe \in PipeState /\ s.ret \in [Users -> Outcome] /\ q \in Seq(Queued)
  BY HeldFields
<1>1. \A h \in Users : o[h] \in Outcome /\ o[h].st = "written" /\ o[h].err = e
  BY <1>0 DEF Result, Outcome
<1>2. t = [s EXCEPT !.pipe = np, !.ret = r]
  BY DEF ResolvePendingWrites, Held
<1> HIDE DEF t, o
<1>3. r \in [Users -> Outcome]
  BY <1>0, <1>1
<1>4. Told(r, Len(s.got), X)
  <2>1. \A h \in Users : r[h] = s.ret[h] \/ r[h] = o[h]
    OBVIOUS
  <2>2. \A h \in Users : o[h].st # "written" \/ o[h].err # Nil
    BY <1>1, NilIsNone
  <2>3. Told(s.ret, Len(s.got), X)
    BY DEF Sound
  <2> HIDE DEF r
  <2> QED BY <2>1, <2>2, <2>3, ToldOthers
<1>5. Waiting(<<>>, r, "writing", X) /\ Waiting(s.pipe.pendingReads, r, "reading", X)
  BY <1>0, <1>1, WaitingTold DEF Sound
<1>6. np \in PipeState /\ \A f \in DOMAIN np : f # "pendingWrites" => np[f] = s.pipe[f]
  <2>1. <<>> \in Seq(Queued)
    OBVIOUS
  <2> QED BY <1>0, <2>1 DEF PipeState
<1>7. /\ np.pendingWrites = <<>> /\ np.pendingReads = s.pipe.pendingReads
      /\ np.readerClosed = s.pipe.readerClosed
  BY <1>0 DEF PipeState
<1> HIDE DEF q, r, np
<1>8. t \in Held /\ t.pipe = np /\ t.ret = r /\ t.got = s.got
  BY <1>2, <1>3, <1>6 DEF Held
<1>9. Sound(t, n, X)
  <2>1. \A i \in 1..Len(t.pipe.pendingWrites) : Run(t.pipe.pendingWrites[i])
    BY <1>7, <1>8
  <2>2. t.pipe.readerClosed
    BY <1>7, <1>8
  <2> QED BY <1>4, <1>5, <1>7, <1>8, <2>1, <2>2 DEF Sound
<1> QED BY <1>8, <1>9 DEF t, np

\* The fields of what a read of k bytes of the oldest write leaves.
BytesOf(q, k) == SubSeq(q[1].data, q[1].offset + 1, q[1].offset + k)
Answered(r, g, o) == [r EXCEPT ![g] = o]

\* The pipe p with the list q of writes.
Has(p, q, p0) ==
  /\ p.pendingWrites = q /\ p.pendingReads = p0.pendingReads
  /\ p.readerClosed = p0.readerClosed /\ p.writerClosed = p0.writerClosed
  /\ p.writerErr = p0.writerErr

LEMMA ConsumeIs ==
  ASSUME NEW s \in Held, s.pipe.pendingWrites # <<>>, NEW g \in Users, NEW k \in Nat,
         s.pipe.pendingWrites[1].offset + k <= Len(s.pipe.pendingWrites[1].data)
  PROVE  /\ BytesOf(s.pipe.pendingWrites, k) \in Seq(Nat)
         /\ Advanced(s.pipe.pendingWrites, k) \in Seq(Queued)
         /\ Consume(s, g, k) \in Held
         /\ Has(Consume(s, g, k).pipe, Advanced(s.pipe.pendingWrites, k), s.pipe)
         /\ Consume(s, g, k).ret
              = Answered(s.ret, g, Result("read", k, Nil, BytesOf(s.pipe.pendingWrites, k)))
         /\ Consume(s, g, k).got = s.got \o BytesOf(s.pipe.pendingWrites, k)
<1> DEFINE q == s.pipe.pendingWrites
           bytes == SubSeq(q[1].data, q[1].offset + 1, q[1].offset + k)
           p == [q EXCEPT ![1].offset = @ + k]
           o == Result("read", k, Nil, bytes)
           t == [s EXCEPT !.pipe.pendingWrites[1].offset = @ + k,
                          !.ret[g] = o, !.got = @ \o bytes]
<1>1. /\ q \in Seq(Queued) /\ s.got \in Seq(Nat) /\ s.ret \in [Users -> Outcome]
      /\ s.pipe \in PipeState
  BY HeldFields
<1>2. Head(q) = q[1] /\ q[1] \in Queued /\ Len(q) \in Nat /\ 1 \in 1..Len(q)
  BY <1>1, SeqSteps
<1>3. t = Consume(s, g, k)
  BY <1>2 DEF Consume
<1>4. bytes \in Seq(Nat)
  <2>1. PICK d \in Seq(Nat), off \in Nat : d = q[1].data /\ off = q[1].offset
    BY <1>2 DEF Queued
  <2>2. off + k <= Len(d)
    BY <2>1
  <2>3. SubSeq(d, off + 1, off + k) \in Seq(Nat)
    BY <2>2
  <2> QED BY <2>1, <2>3
<1>5. p \in Seq(Queued)
  <2>1. PICK x \in Queued : x = q[1]
    BY <1>2
  <2>2. x.offset + k \in Nat
    BY DEF Queued
  <2>3. PICK y \in Nat : y = x.offset + k
    BY <2>2
  <2>4. [x EXCEPT !.offset = y] \in Queued
    BY DEF Queued
  <2>5. PICK z \in Queued : z = [q[1] EXCEPT !.offset = @ + k]
    BY <2>1, <2>3, <2>4
  <2>6. [q EXCEPT ![1] = z] \in Seq(Queued)
    BY <1>1, <1>2
  <2> QED BY <2>5, <2>6
<1> HIDE DEF bytes
<1>6. o \in Outcome
  BY <1>4 DEF Result, Outcome
<1> HIDE DEF o
<1>7. s.got \o bytes \in Seq(Nat)
  BY <1>1, <1>4
<1>8. t.pipe = [s.pipe EXCEPT !.pendingWrites = p]
  BY DEF Held
<1>9. t.ret = [s.ret EXCEPT ![g] = o] /\ t.got = s.got \o bytes
  BY DEF Held
<1>10. t = [pipe |-> t.pipe, ret |-> t.ret, got |-> t.got]
  <2>1. DOMAIN t = {"pipe", "ret", "got"}
    BY DEF Held
  <2>2. t = [f \in DOMAIN t |-> t[f]]
    OBVIOUS
  <2> HIDE DEF t
  <2>3. \A f \in {"pipe", "ret", "got"} :
          t[f] = [pipe |-> t.pipe, ret |-> t.ret, got |-> t.got][f]
    OBVIOUS
  <2> QED BY <2>1, <2>2, <2>3
<1> HIDE DEF t, p
<1>11. [s.pipe EXCEPT !.pendingWrites = p] \in PipeState
  BY <1>1, <1>5 DEF PipeState
<1>12. [s.ret EXCEPT ![g] = o] \in [Users -> Outcome]
  BY <1>1, <1>6
<1>13. t \in Held
  BY <1>7, <1>8, <1>9, <1>10, <1>11, <1>12 DEF Held
<1>14. Has(t.pipe, p, s.pipe)
  BY <1>1, <1>5, <1>8 DEF PipeState, Has
<1> QED BY <1>3, <1>4, <1>5, <1>9, <1>13, <1>14 DEF o, p, bytes, BytesOf, Advanced, Answered

LEMMA ShiftIs ==
  ASSUME NEW s \in Held, s.pipe.pendingWrites # <<>>,
         NEW w, w = s.pipe.pendingWrites[1]
  PROVE  /\ w \in Queued /\ ShiftWrite(s) \in Held
         /\ Has(ShiftWrite(s).pipe, Tail(s.pipe.pendingWrites), s.pipe)
         /\ ShiftWrite(s).ret
              = Answered(s.ret, w.g, Result("written", Len(w.data), Nil, w.data))
         /\ ShiftWrite(s).got = s.got
<1> DEFINE q == s.pipe.pendingWrites
           o == Result("written", Len(w.data), Nil, w.data)
           t == [s EXCEPT !.pipe.pendingWrites = Tail(@), !.ret[w.g] = o]
<1>1. q \in Seq(Queued) /\ s.ret \in [Users -> Outcome] /\ s.pipe \in PipeState
  BY HeldFields
<1>2. Head(q) = w /\ w \in Queued /\ Tail(q) \in Seq(Queued)
  BY <1>1, SeqSteps
<1>3. t = ShiftWrite(s)
  BY <1>2 DEF ShiftWrite
<1>4. w.g \in Users /\ o \in Outcome
  BY <1>2 DEF Queued, Result, Outcome
<1> HIDE DEF o
<1>5. t.pipe = [s.pipe EXCEPT !.pendingWrites = Tail(@)]
  BY DEF Held
<1>6. t.ret = [s.ret EXCEPT ![w.g] = o] /\ t.got = s.got
  BY DEF Held
<1>7. t = [pipe |-> t.pipe, ret |-> t.ret, got |-> t.got]
  <2>1. DOMAIN t = {"pipe", "ret", "got"}
    BY DEF Held
  <2>2. t = [f \in DOMAIN t |-> t[f]]
    OBVIOUS
  <2> HIDE DEF t
  <2>3. \A f \in {"pipe", "ret", "got"} :
          t[f] = [pipe |-> t.pipe, ret |-> t.ret, got |-> t.got][f]
    OBVIOUS
  <2> QED BY <2>1, <2>2, <2>3
<1> HIDE DEF t
<1>8. [s.pipe EXCEPT !.pendingWrites = Tail(@)] \in PipeState
  BY <1>1, <1>2 DEF PipeState
<1>9. [s.ret EXCEPT ![w.g] = o] \in [Users -> Outcome]
  BY <1>1, <1>4
<1>10. t \in Held
  BY <1>5, <1>6, <1>7, <1>8, <1>9, HeldFields DEF Held
<1>11. Has(t.pipe, Tail(q), s.pipe)
  BY <1>1, <1>2, <1>5 DEF PipeState, Has
<1> QED BY <1>2, <1>3, <1>6, <1>10, <1>11 DEF o, Answered

\* t is what a read of k bytes of q[1] leaves of s, before the write is shifted.
Begun(s, n, k, q, t) ==
  /\ q \in Seq(Queued) /\ Tiles(q, Len(s.got), n)
  /\ \A i \in 1..Len(q) : Run(q[i])
  /\ q[1] \in Queued /\ Run(q[1]) /\ q[1].offset \in Nat /\ Len(q[1].data) \in Nat
  /\ t \in Held /\ t.got \in Seq(Nat) /\ Numbered(t.got)
  /\ Len(t.got) = Len(s.got) + k /\ Len(s.got) \in Nat
  /\ Has(t.pipe, Advanced(q, k), s.pipe)
  /\ q[1].offset + k = Len(q[1].data) => End(q[1]) = Len(s.got) + k
  /\ q[1].offset + k < Len(q[1].data) =>
       q[1].data[q[1].offset + k + 1] = Len(s.got) + k + 1
  /\ Waiting(s.pipe.pendingReads, t.ret, "reading", {})
  /\ Waiting(q, t.ret, "writing", {})
  /\ Told(t.ret, Len(t.got), {})

\* What both cases of a read have in common.
LEMMA ReadBegins ==
  ASSUME NEW s \in Held, NEW n, NEW g \in Users, Sound(s, n, {g}), ~s.pipe.readerClosed,
         s.pipe.pendingWrites # <<>>, NEW k \in Nat, 1 <= k,
         s.pipe.pendingWrites[1].offset + k <= Len(s.pipe.pendingWrites[1].data),
         NEW q, q = s.pipe.pendingWrites, NEW t, t = Consume(s, g, k)
  PROVE  Begun(s, n, k, q, t)
<1> DEFINE w == q[1]
           bytes == BytesOf(q, k)
           o == Result("read", k, Nil, bytes)
           b == s.got \o bytes
<1>1. /\ q \in Seq(Queued) /\ s.got \in Seq(Nat) /\ s.ret \in [Users -> Outcome]
      /\ s.pipe \in PipeState /\ Len(s.got) \in Nat
  BY HeldFields
<1>2. /\ \A i \in 1..Len(q) : Run(q[i])
      /\ Tiles(q, Len(s.got), n) /\ First(w) = Len(s.got) + 1 /\ Numbered(s.got)
  BY DEF Sound, Tiles
<1>3. w \in Queued /\ Run(w) /\ w.offset \in Nat /\ Len(w.data) \in Nat
  <2>1. Len(q) >= 1 /\ Len(q) \in Nat /\ q[1] \in Queued
    BY <1>1, SeqSteps
  <2>2. Run(q[1])
    BY <1>2, <2>1
  <2>3. w.data \in Seq(Nat)
    BY <2>1 DEF Queued
  <2> QED BY <2>1, <2>2, <2>3 DEF Queued
<1>4. /\ bytes \in Seq(Nat) /\ t \in Held /\ Has(t.pipe, Advanced(q, k), s.pipe)
      /\ t.ret = Answered(s.ret, g, o) /\ t.got = b
  BY ConsumeIs
<1>5. /\ b \in Seq(Nat) /\ Len(b) = Len(s.got) + k /\ Numbered(b)
      /\ w.offset + k = Len(w.data) => End(w) = Len(s.got) + k
      /\ w.offset + k < Len(w.data) => w.data[w.offset + k + 1] = Len(s.got) + k + 1
  <2>1. w.offset + k <= Len(w.data) /\ bytes = SubSeq(w.data, w.offset + 1, w.offset + k)
    BY DEF BytesOf
  <2> HIDE DEF w, bytes
  <2> QED BY <1>1, <1>2, <1>3, <2>1, BytesRead
<1> HIDE DEF bytes, w
<1>6. o \in Outcome /\ o.st = "read"
  BY <1>4 DEF Result, Outcome
<1> HIDE DEF b, o
<1>7. Waiting(s.pipe.pendingReads, t.ret, "reading", {}) /\ Waiting(q, t.ret, "writing", {})
  <2>1. Waiting(s.pipe.pendingReads, s.ret, "reading", {g}) /\ Waiting(q, s.ret, "writing", {g})
    BY DEF Sound
  <2>2. /\ Waiting(s.pipe.pendingReads, [s.ret EXCEPT ![g] = o], "reading", {})
        /\ Waiting(q, [s.ret EXCEPT ![g] = o], "writing", {})
    BY <1>1, <1>6, <2>1, WaitingSettled
  <2> QED BY <1>4, <2>2, Zenon DEF Answered
<1>8. Told(t.ret, Len(t.got), {})
  <2>1. Told(s.ret, Len(s.got), {g}) /\ Len(s.got) <= Len(s.got) + k
    BY <1>1 DEF Sound
  <2>2. o.st = "written" /\ o.err = Nil =>
          o.n = Len(o.data) /\ \A j \in 1..Len(o.data) : o.data[j] \in 1..Len(b)
    BY <1>6
  <2>3. Len(b) \in Nat /\ Len(s.got) <= Len(b)
    BY <2>1, <1>1, <1>5
  <2>4. Told([s.ret EXCEPT ![g] = o], Len(b), {})
    BY <1>1, <2>1, <2>2, <2>3, ToldSettled
  <2> QED BY <1>4, <2>4 DEF Answered
<1> QED BY <1>1, <1>2, <1>3, <1>4, <1>5, <1>7, <1>8 DEF w, Begun

\* A read leaves t of s: the pipe is sound again and its ends are as they were.
Served(t, s, n) ==
  /\ t \in Held /\ Sound(t, n, {})
  /\ t.pipe.pendingReads = s.pipe.pendingReads
  /\ t.pipe.readerClosed = s.pipe.readerClosed
  /\ t.pipe.writerClosed = s.pipe.writerClosed
  /\ t.pipe.writerErr = s.pipe.writerErr

\* A read of a part of what the oldest write still holds.
LEMMA ReadInPart ==
  ASSUME NEW s \in Held, NEW n, NEW g \in Users, Sound(s, n, {g}), ~s.pipe.readerClosed,
         s.pipe.pendingWrites # <<>>, NEW k \in Nat, 1 <= k,
         NEW q, q = s.pipe.pendingWrites, q[1].offset + k < Len(q[1].data),
         NEW t, t = Consume(s, g, k)
  PROVE  Served(t, s, n)
<1> DEFINE p == Advanced(q, k)
<1>0. q[1].offset + k <= Len(q[1].data)
  <2>1. Len(q) >= 1 /\ Len(q) \in Nat /\ q[1] \in Queued
    BY HeldFields, SeqSteps
  <2>2. q[1].data \in Seq(Nat) /\ q[1].offset \in Nat
    BY <2>1 DEF Queued
  <2>3. PICK d \in Nat, off \in Nat : d = Len(q[1].data) /\ off = q[1].offset
    <3> HIDE DEF p
    <3> QED BY <2>2
  <2>4. off + k <= d
    BY <2>3
  <2> QED BY <2>3, <2>4
<1>1. /\ q \in Seq(Queued) /\ Tiles(q, Len(s.got), n) /\ \A i \in 1..Len(q) : Run(q[i])
      /\ t \in Held /\ Numbered(t.got) /\ Len(t.got) = Len(s.got) + k /\ Len(s.got) \in Nat
      /\ Has(t.pipe, p, s.pipe)
      /\ Waiting(s.pipe.pendingReads, t.ret, "reading", {})
      /\ Waiting(q, t.ret, "writing", {})
      /\ Told(t.ret, Len(t.got), {})
      /\ q[1].data[q[1].offset + k + 1] = Len(s.got) + k + 1
  <2>1. Begun(s, n, k, q, t)
    BY <1>0, ReadBegins
  <2> QED BY <2>1 DEF Begun
<1>2. q # <<>> /\ q[1].offset + k < Len(q[1].data)
  OBVIOUS
<1>3. /\ p \in Seq(Queued) /\ Len(p) = Len(q) /\ \A i \in 1..Len(q) : p[i].g = q[i].g
      /\ \A i \in 1..Len(p) : Run(p[i])
      /\ Tiles(p, Len(s.got) + k, n)
  <2>1. PICK a \in Nat : a = Len(s.got)
    BY <1>1
  <2>2. Line(q, a, n) /\ q[1].data[q[1].offset + k + 1] = a + k + 1
    BY <1>1, <2>1 DEF Line
  <2>3. /\ Line(p, a + k, n) /\ Len(p) = Len(q)
        /\ \A i \in 1..Len(q) : p[i].g = q[i].g
    BY <1>2, <2>2, WriteMoves
  <2> HIDE DEF p
  <2> QED BY <2>1, <2>3 DEF Line
<1> HIDE DEF p
<1>4. Waiting(p, t.ret, "writing", {})
  BY <1>1, <1>3, WaitingSame
<1>5. /\ t.pipe.pendingWrites = p
      /\ t.pipe.pendingReads = s.pipe.pendingReads
      /\ t.pipe.readerClosed = s.pipe.readerClosed
      /\ t.pipe.writerClosed = s.pipe.writerClosed
      /\ t.pipe.writerErr = s.pipe.writerErr
  BY <1>1 DEF Has
<1>6. Sound(t, n, {})
  BY <1>1, <1>3, <1>4, <1>5 DEF Sound
<1> QED BY <1>1, <1>5, <1>6 DEF Served

\* A read that takes the rest of the oldest write, which returns.
LEMMA ReadOfRest ==
  ASSUME NEW s \in Held, NEW n, NEW g \in Users, Sound(s, n, {g}), ~s.pipe.readerClosed,
         s.pipe.pendingWrites # <<>>, NEW k \in Nat, 1 <= k,
         NEW q, q = s.pipe.pendingWrites, q[1].offset + k = Len(q[1].data),
         NEW t, t = Consume(s, g, k), NEW u, u = ShiftWrite(t)
  PROVE  Served(u, s, n)
<1> DEFINE p == Advanced(q, k)
           w == q[1]
<1>0. w.offset + k <= Len(w.data)
  <2>1. Len(q) >= 1 /\ Len(q) \in Nat /\ q[1] \in Queued
    BY HeldFields, SeqSteps
  <2>2. q[1].data \in Seq(Nat) /\ q[1].offset \in Nat
    BY <2>1 DEF Queued
  <2>3. PICK d \in Nat, off \in Nat : d = Len(q[1].data) /\ off = q[1].offset
    <3> HIDE DEF p
    <3> QED BY <2>2
  <2>4. off + k <= d
    BY <2>3
  <2> QED BY <2>3, <2>4
<1>1. /\ q \in Seq(Queued) /\ Tiles(q, Len(s.got), n) /\ \A i \in 1..Len(q) : Run(q[i])
      /\ w \in Queued /\ Run(w) /\ w.offset \in Nat /\ Len(w.data) \in Nat
      /\ t \in Held /\ Numbered(t.got) /\ Len(t.got) = Len(s.got) + k /\ Len(s.got) \in Nat
      /\ Has(t.pipe, p, s.pipe)
      /\ End(w) = Len(s.got) + k
      /\ Waiting(s.pipe.pendingReads, t.ret, "reading", {})
      /\ Waiting(q, t.ret, "writing", {})
      /\ Told(t.ret, Len(t.got), {})
  <2>1. Begun(s, n, k, q, t)
    BY <1>0, ReadBegins
  <2> QED BY <2>1 DEF Begun
<1>2. q # <<>> /\ Len(q) \in Nat /\ Len(q) >= 1 /\ 1 \in 1..Len(q) /\ Head(q) = w
  BY <1>1, SeqSteps
<1>3. /\ p \in Seq(Queued) /\ Len(p) = Len(q) /\ p # <<>>
      /\ p[1].data = w.data /\ p[1].g = w.g
      /\ \A i \in 1..Len(q) : i # 1 => p[i] = q[i]
  <2>1. PICK x \in Queued : x = w
    BY <1>1
  <2>2. PICK l \in Nat : l = x.offset
    BY QueuedFields
  <2>3. PICK y \in Nat : y = x.offset + k
    BY <2>2
  <2>4. [x EXCEPT !.offset = y] \in Queued
    BY DEF Queued
  <2>5. PICK z \in Queued : z = [w EXCEPT !.offset = @ + k]
    BY <2>1, <2>3, <2>4
  <2>6. z.data = w.data /\ z.g = w.g
    BY <2>5, <1>1 DEF Queued
  <2>7. p = [q EXCEPT ![1] = z]
    BY <2>5 DEF Advanced
  <2>8. p \in Seq(Queued) /\ Len(p) = Len(q) /\ p[1] = z
        /\ \A i \in 1..Len(q) : i # 1 => p[i] = q[i]
    BY <1>1, <1>2, <2>7
  <2> QED BY <1>2, <2>6, <2>8
<1> HIDE DEF p
<1>4. Tail(p) = Tail(q) /\ Tail(q) \in Seq(Queued)
  <2>1. /\ Tail(p) \in Seq(Queued) /\ Len(Tail(p)) = Len(p) - 1
        /\ \A i \in 1..Len(Tail(p)) : i + 1 \in 2..Len(p) /\ Tail(p)[i] = p[i + 1]
    BY <1>3, SeqSteps
  <2>2. /\ Tail(q) \in Seq(Queued) /\ Len(Tail(q)) = Len(q) - 1
        /\ \A i \in 1..Len(Tail(q)) : i + 1 \in 2..Len(q) /\ Tail(q)[i] = q[i + 1]
    BY <1>1, <1>2, SeqSteps
  <2>3. \A i \in 1..Len(Tail(p)) : Tail(p)[i] = Tail(q)[i]
    BY <1>3, <2>1, <2>2
  <2> QED BY <1>3, <2>1, <2>2, <2>3, SameElements
<1>5. /\ \A i \in 1..Len(Tail(q)) : Run(Tail(q)[i])
      /\ Tiles(Tail(q), Len(t.got), n)
  BY <1>1, <1>2, WriteEnds
<1> DEFINE o == Result("written", Len(w.data), Nil, w.data)
<1>6. /\ u \in Held /\ Has(u.pipe, Tail(q), t.pipe)
      /\ u.ret = [t.ret EXCEPT ![w.g] = o] /\ u.got = t.got
  <2>1. t.pipe.pendingWrites = p
    BY <1>1 DEF Has
  <2>2. /\ u \in Held /\ Has(u.pipe, Tail(p), t.pipe)
        /\ u.ret = Answered(t.ret, p[1].g, Result("written", Len(p[1].data), Nil, p[1].data))
        /\ u.got = t.got
    BY <1>1, <1>3, <2>1, ShiftIs
  <2> QED BY <1>3, <1>4, <2>2, Zenon DEF Answered
<1>7. /\ u.pipe.pendingWrites = Tail(q)
      /\ u.pipe.pendingReads = s.pipe.pendingReads
      /\ u.pipe.readerClosed = s.pipe.readerClosed
      /\ u.pipe.writerClosed = s.pipe.writerClosed
      /\ u.pipe.writerErr = s.pipe.writerErr
  BY <1>1, <1>6 DEF Has
<1>8. w.g \in Users /\ t.ret \in [Users -> Outcome] /\ t.ret[w.g].st = "writing"
  <2>1. w.g \in Users /\ t.ret \in [Users -> Outcome]
    BY <1>1, HeldFields DEF Queued
  <2> QED BY <1>1, <1>2, <2>1 DEF Waiting
<1>9. /\ Waiting(Tail(q), t.ret, "writing", {w.g})
      /\ Waiting(s.pipe.pendingReads, t.ret, "reading", {w.g})
  <2>1. Waiting(Tail(q), t.ret, "writing", {Head(q).g})
    BY <1>1, <1>2, WaitingTaken
  <2>2. Waiting(s.pipe.pendingReads, t.ret, "reading", {w.g})
    BY <1>1, <1>8, WaitingForgets
  <2> QED BY <1>2, <2>1, <2>2
<1>10. o.st = "written" /\ o.n = Len(w.data) /\ o.data = w.data
  BY DEF Result
<1>11. \A j \in 1..Len(w.data) : w.data[j] \in 1..Len(t.got)
  <2> TAKE j \in 1..Len(w.data)
  <2>1. w.data \in Seq(Nat)
    BY <1>1 DEF Queued
  <2>2. PICK x \in Nat, d \in Nat : x = w.data[j] /\ d = Len(w.data)
    <3>1. w.data[j] \in Nat
      BY <2>1
    <3>2. Len(w.data) \in Nat
      BY <2>1
    <3> QED BY <3>1, <3>2
  <2>3. 1 <= x /\ x + d = (Len(s.got) + k) + j /\ j \in 1..d
    BY <1>1, <2>2 DEF Run
  <2>4. x <= Len(s.got) + k
    BY <2>3, <1>1
  <2> QED BY <2>2, <2>3, <2>4, <1>1
<1> HIDE DEF o, w
<1>12. /\ Waiting(Tail(q), u.ret, "writing", {})
       /\ Waiting(s.pipe.pendingReads, u.ret, "reading", {})
  <2>1. /\ Waiting(Tail(q), [t.ret EXCEPT ![w.g] = o], "writing", {})
        /\ Waiting(s.pipe.pendingReads, [t.ret EXCEPT ![w.g] = o], "reading", {})
    BY <1>8, <1>9, <1>10, WaitingSettled
  <2> QED BY <1>6, <2>1, Zenon
<1>13. Told(u.ret, Len(u.got), {})
  <2>1. Told(t.ret, Len(t.got), {w.g})
    BY <1>1, ToldForgets
  <2>1a. Len(t.got) <= Len(t.got) /\ Len(t.got) \in Nat
    BY <1>1
  <2>2. o.st = "written" /\ o.err = Nil =>
          o.n = Len(o.data) /\ \A j \in 1..Len(o.data) : o.data[j] \in 1..Len(t.got)
    BY <1>10, <1>11
  <2>3. Told([t.ret EXCEPT ![w.g] = o], Len(t.got), {})
    BY <1>8, <2>1, <2>1a, <2>2, ToldSettled
  <2> QED BY <1>6, <2>3, Zenon
<1>14. Sound(u, n, {})
  BY <1>1, <1>5, <1>6, <1>7, <1>12, <1>13 DEF Sound
<1> QED BY <1>6, <1>7, <1>14 DEF Served

LEMMA ConsumeKeeps ==
  ASSUME PipeAssumption, NEW s \in Held, NEW n, NEW g \in Users, Sound(s, n, {g}),
         ~s.pipe.readerClosed, Ended(s.pipe), s.pipe.pendingWrites # <<>>, NEW m \in 1..PipeLen,
         NEW t, t = ConsumeNextWrite(s, g, m)
  PROVE  /\ t \in Held /\ Sound(t, n, {}) /\ Ended(t.pipe)
         /\ t.pipe.pendingReads = s.pipe.pendingReads
         /\ t.pipe.readerClosed = s.pipe.readerClosed
<1>1. PICK q : q = s.pipe.pendingWrites
  OBVIOUS
<1>2. q \in Seq(Queued) /\ q # <<>> /\ Head(q) = q[1] /\ q[1] \in Queued /\ Run(q[1])
  <2>1. q \in Seq(Queued) /\ q # <<>>
    BY <1>1, HeldFields
  <2>2. Head(q) = q[1] /\ q[1] \in Queued /\ Len(q) >= 1 /\ Len(q) \in Nat
    BY <2>1, SeqSteps
  <2>3. \A i \in 1..Len(q) : Run(q[i])
    BY <1>1 DEF Sound
  <2>4. 1 \in 1..Len(q)
    BY <2>2
  <2> QED BY <2>1, <2>2, <2>3, <2>4
<1>3. PICK d \in Nat, off \in Nat : d = Len(q[1].data) /\ off = q[1].offset /\ off < d
  BY <1>2 DEF Queued, Run
<1>4. PICK k \in Nat :
        /\ k = IF m < d - off THEN m ELSE d - off
        /\ 1 <= k /\ off + k <= d /\ (k < d - off <=> off + k < d)
  <2> DEFINE l == IF m < d - off THEN m ELSE d - off
  <2>1. m \in Nat /\ 1 <= m /\ d - off \in Nat /\ 1 <= d - off
    BY <1>3 DEF PipeAssumption
  <2>2. l \in Nat /\ 1 <= l /\ l <= d - off
    BY <2>1
  <2> HIDE DEF l
  <2>3. off + l <= d /\ (l < d - off <=> off + l < d)
    BY <2>2
  <2> QED BY <2>2, <2>3 DEF l
<1>4a. PICK v : v = Consume(s, g, k)
  OBVIOUS
<1>4b. PICK u : u = ShiftWrite(v)
  OBVIOUS
<1>5. t = IF k < d - off THEN v
          ELSE IF u.pipe.writerClosed /\ u.pipe.pendingWrites = <<>>
          THEN ResolvePendingReads(u, IF u.pipe.writerErr = Nil THEN "EOF"
                                      ELSE u.pipe.writerErr)
          ELSE u
  <2> DEFINE w == Head(s.pipe.pendingWrites)
             rest == Len(w.data) - w.offset
             l == IF m < rest THEN m ELSE rest
             x == Consume(s, g, l)
             y == ShiftWrite(x)
  <2>1. t = IF l < rest THEN x
            ELSE IF y.pipe.writerClosed /\ y.pipe.pendingWrites = <<>>
            THEN ResolvePendingReads(y, IF y.pipe.writerErr = Nil THEN "EOF"
                                        ELSE y.pipe.writerErr)
            ELSE y
    BY DEF ConsumeNextWrite
  <2>2. rest = d - off
    BY <1>1, <1>2, <1>3
  <2> HIDE DEF rest
  <2>3. l = k
    BY <2>2, <1>4
  <2> HIDE DEF l
  <2>4. x = v
    BY <2>3, <1>4a
  <2> HIDE DEF x
  <2>5. y = u
    BY <2>4, <1>4b
  <2> HIDE DEF y
  <2> QED BY <2>1, <2>2, <2>3, <2>4, <2>5, Zenon
<1>6. CASE off + k < d
  <2>1. t = v
    BY <1>4, <1>5, <1>6
  <2>2. q[1].offset + k < Len(q[1].data)
    BY <1>3, <1>6
  <2>3. Served(v, s, n)
    BY <1>1, <1>2, <1>4, <1>4a, <2>2, ReadInPart
  <2> QED BY <2>1, <2>3 DEF Ended, Served
<1>7. CASE ~(off + k < d)
  <2>0. off + k = d
    BY <1>4, <1>7
  <2>1. q[1].offset + k = Len(q[1].data)
    BY <1>3, <2>0
  <2>2. /\ u \in Held /\ Sound(u, n, {})
        /\ u.pipe.pendingReads = s.pipe.pendingReads
        /\ u.pipe.readerClosed = s.pipe.readerClosed
        /\ u.pipe.writerClosed = s.pipe.writerClosed
        /\ u.pipe.writerErr = s.pipe.writerErr
    <3>1. Served(u, s, n)
      BY <1>1, <1>2, <1>4, <1>4a, <1>4b, <2>1, ReadOfRest
    <3> QED BY <3>1 DEF Served
  <2>3. t = IF u.pipe.writerClosed /\ u.pipe.pendingWrites = <<>>
            THEN ResolvePendingReads(u, IF u.pipe.writerErr = Nil THEN "EOF"
                                        ELSE u.pipe.writerErr)
            ELSE u
    BY <1>4, <1>5, <1>7
  <2>4. CASE ~(u.pipe.writerClosed /\ u.pipe.pendingWrites = <<>>)
    BY <2>2, <2>3, <2>4 DEF Ended
  <2>5. CASE u.pipe.writerClosed /\ u.pipe.pendingWrites = <<>>
    <3>1. PICK e : e = IF u.pipe.writerErr = Nil THEN "EOF" ELSE u.pipe.writerErr
      OBVIOUS
    <3>2. e \in Errors \cup {Nil}
      BY <3>1, <2>2, HeldFields DEF Errors
    <3>3. t = ResolvePendingReads(u, e)
      BY <2>3, <2>5, <3>1
    <3>4. /\ t \in Held /\ Sound(t, n, {})
          /\ t.pipe = [u.pipe EXCEPT !.pendingReads = <<>>]
      BY <2>2, <3>2, <3>3, ResolvesReads
    <3>5. t.pipe.pendingReads = <<>> /\ t.pipe.readerClosed = u.pipe.readerClosed
      <4>1. u.pipe \in PipeState
        BY <2>2, HeldFields
      <4> QED BY <3>4, <4>1 DEF PipeState
    <3>6. s.pipe.pendingReads = <<>>
      BY <2>2, <2>5 DEF Ended
    <3> QED BY <2>2, <3>4, <3>5, <3>6 DEF Ended
  <2> QED BY <2>4, <2>5
<1> QED BY <1>6, <1>7

\* One round of drain() serves the first pending read, or the loop has ended.
LEMMA DrainOnceKeeps ==
  ASSUME PipeAssumption, NEW s \in Held, NEW n, Sound(s, n, {}), ~s.pipe.readerClosed,
         Ended(s.pipe), NEW t, t = DrainOnce(s)
  PROVE  /\ t \in Held /\ Sound(t, n, {}) /\ ~t.pipe.readerClosed /\ Ended(t.pipe)
         /\ s.pipe.pendingReads = <<>> \/ s.pipe.pendingWrites = <<>> => t = s
         /\ s.pipe.pendingReads # <<>> /\ s.pipe.pendingWrites # <<>> =>
              Len(t.pipe.pendingReads) = Len(s.pipe.pendingReads) - 1
<1>1. CASE s.pipe.pendingReads = <<>> \/ s.pipe.pendingWrites = <<>>
  BY <1>1 DEF DrainOnce
<1>2. CASE s.pipe.pendingReads # <<>> /\ s.pipe.pendingWrites # <<>>
  <2>1. PICK q : q = s.pipe.pendingReads
    OBVIOUS
  <2>2. q \in Seq(PendingRead) /\ q # <<>>
    BY <1>2, <2>1, HeldFields
  <2>3. /\ Head(q) = q[1] /\ q[1] \in PendingRead /\ Tail(q) \in Seq(PendingRead)
        /\ Len(Tail(q)) = Len(q) - 1 /\ Len(q) \in Nat /\ 1 \in 1..Len(q)
    BY <2>2, SeqSteps
  <2>4. PICK g \in Users, m \in 1..PipeLen : g = q[1].g /\ m = q[1].n
    BY <2>3 DEF PendingRead
  <2>5. PICK v : /\ v = [s EXCEPT !.pipe.pendingReads = Tail(@)]
                 /\ t = ConsumeNextWrite(v, g, m)
    BY <1>2, <2>1, <2>3, <2>4 DEF DrainOnce
  <2>6. /\ v.pipe = [s.pipe EXCEPT !.pendingReads = Tail(q)] /\ v.ret = s.ret /\ v.got = s.got
        /\ v = [s EXCEPT !.pipe = [s.pipe EXCEPT !.pendingReads = Tail(q)]]
    BY <2>1, <2>5 DEF Held
  <2>7. s.pipe \in PipeState
    BY HeldFields
  <2>8. [s.pipe EXCEPT !.pendingReads = Tail(q)] \in PipeState
    BY <2>3, <2>7 DEF PipeState
  <2>9. v \in Held
    BY <2>6, <2>8 DEF Held
  <2>10. /\ v.pipe.pendingReads = Tail(q) /\ v.pipe.pendingWrites = s.pipe.pendingWrites
         /\ v.pipe.readerClosed = s.pipe.readerClosed
         /\ v.pipe.writerClosed = s.pipe.writerClosed
    BY <2>6, <2>7 DEF PipeState
  <2>11. s.ret[g].st = "reading"
    BY <2>1, <2>3, <2>4 DEF Sound, Waiting
  <2>12. Waiting(Tail(q), s.ret, "reading", {g})
    BY <2>1, <2>2, <2>3, <2>4, WaitingTaken DEF Sound
  <2>13. Waiting(s.pipe.pendingWrites, s.ret, "writing", {g})
    BY <2>11, WaitingForgets DEF Sound
  <2>14. Told(s.ret, Len(s.got), {g})
    BY ToldForgets DEF Sound
  <2>15. Sound(v, n, {g})
    BY <2>6, <2>10, <2>12, <2>13, <2>14 DEF Sound
  <2>16. ~v.pipe.readerClosed /\ Ended(v.pipe) /\ v.pipe.pendingWrites # <<>>
    BY <1>2, <2>10 DEF Ended
  <2>16a. t = ConsumeNextWrite(v, g, m)
    BY <2>5
  <2>17. /\ t \in Held /\ Sound(t, n, {}) /\ Ended(t.pipe)
         /\ t.pipe.pendingReads = Tail(q) /\ ~t.pipe.readerClosed
    <3>1. /\ t \in Held /\ Sound(t, n, {}) /\ Ended(t.pipe)
          /\ t.pipe.pendingReads = v.pipe.pendingReads
          /\ t.pipe.readerClosed = v.pipe.readerClosed
      BY <2>9, <2>15, <2>16, <2>16a, ConsumeKeeps
    <3> QED BY <3>1, <2>10, <2>16
  <2> QED BY <1>2, <2>1, <2>3, <2>17
<1> QED BY <1>1, <1>2

-----------------------------------------------------------------------------
(* drain(). *)

Rounds(f, m, s) == f = [k \in 0..m |-> IF k = 0 THEN s ELSE DrainOnce(f[k - 1])]

LEMMA RoundsExist ==
  ASSUME NEW s
  PROVE  \A m \in Nat : \E f : Rounds(f, m, s)
<1> DEFINE Missing == {m \in Nat : ~\E f : Rounds(f, m, s)}
<1>1. ASSUME Missing # {} PROVE FALSE
  <2>1. PICK m \in Missing : \A k \in Missing : m <= k
    BY <1>1, NatMin
  <2>2. CASE m = 0
    <3>1. Rounds([k \in 0..0 |-> s], 0, s)
      BY DEF Rounds
    <3> QED BY <2>1, <2>2, <3>1
  <2>3. CASE m # 0
    <3>1. m \in Nat /\ m - 1 \in Nat /\ ~(m <= m - 1)
      BY <2>1, <2>3
    <3>2. PICK f : Rounds(f, m - 1, s)
      BY <2>1, <3>1
    <3> DEFINE h == [k \in 0..m |-> IF k = m THEN DrainOnce(f[m - 1]) ELSE f[k]]
    <3>3. \A k \in 0..m : h[k] = IF k = 0 THEN s ELSE DrainOnce(h[k - 1])
      <4> TAKE k \in 0..m
      <4>1. CASE k = m
        BY <4>1, <3>1
      <4>2. CASE k # m
        <5>1. k \in 0..(m - 1) /\ (k # 0 => k - 1 \in 0..m /\ k - 1 # m)
          BY <4>2, <3>1
        <5>2. f[k] = IF k = 0 THEN s ELSE DrainOnce(f[k - 1])
          BY <5>1, <3>2 DEF Rounds
        <5>3. h[k] = f[k] /\ (k # 0 => h[k - 1] = f[k - 1])
          BY <4>2, <5>1
        <5> HIDE DEF h
        <5> QED BY <5>2, <5>3
      <4> QED BY <4>1, <4>2
    <3>4. h = [k \in 0..m |-> h[k]]
      OBVIOUS
    <3> HIDE DEF h
    <3>5. Rounds(h, m, s)
      BY <3>3, <3>4 DEF Rounds
    <3> QED BY <2>1, <3>5
  <2> QED BY <2>2, <2>3
<1> QED BY <1>1

\* Rounds leave the pipe sound, and each serves a pending read while there is
\* one and something to give it.
LEMMA RoundsKeep ==
  ASSUME PipeAssumption, NEW s \in Held, NEW n, Sound(s, n, {}), ~s.pipe.readerClosed,
         Ended(s.pipe), NEW m \in Nat, NEW f, Rounds(f, m, s)
  PROVE  \A k \in 0..m :
           /\ f[k] \in Held /\ Sound(f[k], n, {}) /\ ~f[k].pipe.readerClosed
           /\ Ended(f[k].pipe)
           /\ \/ f[k].pipe.pendingReads = <<>> \/ f[k].pipe.pendingWrites = <<>>
              \/ Len(f[k].pipe.pendingReads) + k = Len(s.pipe.pendingReads)
<1> DEFINE Good(k) ==
             /\ f[k] \in Held /\ Sound(f[k], n, {}) /\ ~f[k].pipe.readerClosed
             /\ Ended(f[k].pipe)
             /\ \/ f[k].pipe.pendingReads = <<>> \/ f[k].pipe.pendingWrites = <<>>
                \/ Len(f[k].pipe.pendingReads) + k = Len(s.pipe.pendingReads)
           Bad == {k \in 0..m : ~Good(k)}
<1>1. f[0] = s /\ \A k \in 1..m : f[k] = DrainOnce(f[k - 1])
  <2>1. \A k \in 0..m : f[k] = IF k = 0 THEN s ELSE DrainOnce(f[k - 1])
    BY DEF Rounds
  <2> QED BY <2>1
<1>2. Good(0)
  <2>1. Len(s.pipe.pendingReads) \in Nat
    BY HeldFields
  <2>2. Len(s.pipe.pendingReads) + 0 = Len(s.pipe.pendingReads)
    BY <2>1
  <2> QED BY <1>1, <2>2
<1>3. ASSUME NEW k \in 1..m, Good(k - 1) PROVE Good(k)
  <2>1. PICK v : v = f[k - 1]
    OBVIOUS
  <2>2. PICK t : t = f[k]
    OBVIOUS
  <2>3. /\ v \in Held /\ Sound(v, n, {}) /\ ~v.pipe.readerClosed /\ Ended(v.pipe)
        /\ \/ v.pipe.pendingReads = <<>> \/ v.pipe.pendingWrites = <<>>
           \/ Len(v.pipe.pendingReads) + (k - 1) = Len(s.pipe.pendingReads)
    BY <1>3, <2>1
  <2>4. t = DrainOnce(v)
    BY <1>1, <2>1, <2>2
  <2>5. /\ t \in Held /\ Sound(t, n, {}) /\ ~t.pipe.readerClosed /\ Ended(t.pipe)
        /\ v.pipe.pendingReads = <<>> \/ v.pipe.pendingWrites = <<>> => t = v
        /\ v.pipe.pendingReads # <<>> /\ v.pipe.pendingWrites # <<>> =>
             Len(t.pipe.pendingReads) = Len(v.pipe.pendingReads) - 1
    BY <2>3, <2>4, DrainOnceKeeps
  <2>6. \/ t.pipe.pendingReads = <<>> \/ t.pipe.pendingWrites = <<>>
        \/ Len(t.pipe.pendingReads) + k = Len(s.pipe.pendingReads)
    <3>1. CASE v.pipe.pendingReads = <<>> \/ v.pipe.pendingWrites = <<>>
      BY <3>1, <2>5
    <3>2. CASE v.pipe.pendingReads # <<>> /\ v.pipe.pendingWrites # <<>>
      <4>1. PICK a \in Nat : a = Len(v.pipe.pendingReads)
        BY <2>3, HeldFields
      <4>2. PICK b \in Nat : b = Len(s.pipe.pendingReads)
        BY HeldFields
      <4>3. a + (k - 1) = b
        BY <2>3, <3>2, <4>1, <4>2
      <4>4. (a - 1) + k = b
        BY <4>3
      <4> QED BY <2>5, <3>2, <4>1, <4>2, <4>4
    <3> QED BY <3>1, <3>2
  <2> QED BY <2>2, <2>5, <2>6
<1> HIDE DEF Good
<1>4. Bad = {}
  <2> SUFFICES ASSUME Bad # {} PROVE FALSE
    OBVIOUS
  <2>1. Bad \subseteq Nat
    OBVIOUS
  <2>2. PICK k \in Bad : \A j \in Bad : k <= j
    BY <2>1, NatMin
  <2>3. k # 0
    BY <1>2, <2>2
  <2>4. k \in 1..m /\ k - 1 \in 0..m /\ ~(k <= k - 1)
    BY <2>2, <2>3
  <2>5. Good(k - 1)
    BY <2>2, <2>4
  <2> QED BY <1>3, <2>2, <2>4, <2>5
<1>5. \A k \in 0..m : Good(k)
  BY <1>4
<1> QED BY <1>5 DEF Good

\* After drain() reads and writes do not wait for each other.
LEMMA DrainKeeps ==
  ASSUME PipeAssumption, NEW s \in Held, NEW n, Sound(s, n, {}), ~s.pipe.readerClosed,
         Ended(s.pipe), NEW t, t = Drain(s)
  PROVE  /\ t \in Held /\ Sound(t, n, {}) /\ Ended(t.pipe)
         /\ t.pipe.pendingReads = <<>> \/ t.pipe.pendingWrites = <<>>
<1>1. PICK m \in Nat : m = Len(s.pipe.pendingReads)
  BY HeldFields
<1> DEFINE f == CHOOSE f : Rounds(f, m, s)
<1>2. t = f[m]
  BY <1>1, Zenon DEF Drain, Rounds
<1>3. Rounds(f, m, s)
  <2>1. \E h : Rounds(h, m, s)
    BY RoundsExist
  <2> QED BY <2>1, Zenon
<1> HIDE DEF f
<1>4. /\ t \in Held /\ Sound(t, n, {}) /\ Ended(t.pipe)
      /\ \/ t.pipe.pendingReads = <<>> \/ t.pipe.pendingWrites = <<>>
         \/ Len(t.pipe.pendingReads) + m = m
  <2>1. m \in 0..m
    OBVIOUS
  <2>2. \A k \in 0..m :
          /\ f[k] \in Held /\ Sound(f[k], n, {}) /\ ~f[k].pipe.readerClosed
          /\ Ended(f[k].pipe)
          /\ \/ f[k].pipe.pendingReads = <<>> \/ f[k].pipe.pendingWrites = <<>>
             \/ Len(f[k].pipe.pendingReads) + k = Len(s.pipe.pendingReads)
    BY <1>3, RoundsKeep
  <2> QED BY <1>1, <1>2, <2>1, <2>2
<1>5. t.pipe.pendingReads \in Seq(PendingRead)
  BY <1>4, HeldFields
<1>6. Len(t.pipe.pendingReads) + m = m => t.pipe.pendingReads = <<>>
  <2>1. Len(t.pipe.pendingReads) = 0 => t.pipe.pendingReads = <<>>
    BY <1>5
  <2>2. Len(t.pipe.pendingReads) \in Nat
    BY <1>5
  <2> QED BY <2>1, <2>2
<1> QED BY <1>4, <1>6

-----------------------------------------------------------------------------
(* The calls. *)

\* A call that leaves the pipe s.
LEMMA Leaves ==
  ASSUME PipeAssumption, PipeInv, NEW g \in Users, Call(g), NEW s \in Held, Becomes(s),
         accepted' \in Nat, Sound(s, accepted', {}), Ended(s.pipe),
         s.pipe.pendingReads = <<>> \/ s.pipe.pendingWrites = <<>>
  PROVE  PipeInv'
<1>1. pipeCalls' \in [Users -> 0..PipeOps]
  <2>1. /\ pipeCalls \in [Users -> 0..PipeOps] /\ pipeCalls[g] < PipeOps /\ PipeOps \in Nat
        /\ pipeCalls' = [pipeCalls EXCEPT ![g] = @ + 1]
    BY DEF PipeInv, Call, PipeAssumption
  <2>2. pipeCalls[g] + 1 \in 0..PipeOps
    BY <2>1
  <2> QED BY <2>1, <2>2
<1>2. Now' = s /\ pipe' = s.pipe
  <2>1. Now' = [pipe |-> s.pipe, ret |-> s.ret, got |-> s.got] /\ pipe' = s.pipe
    BY DEF Now, Becomes
  <2>2. s = [pipe |-> s.pipe, ret |-> s.ret, got |-> s.got]
    BY DEF Held
  <2> QED BY <2>1, <2>2, Zenon
<1>3. /\ Now' \in Held /\ pipeCalls' \in [Users -> 0..PipeOps] /\ accepted' \in Nat
      /\ Sound(Now', accepted', {}) /\ Ended(pipe')
      /\ pipe'.pendingReads = <<>> \/ pipe'.pendingWrites = <<>>
  BY <1>1, <1>2
<1> QED BY <1>3 DEF PipeInv

\* What the calls find: the caller is in no list.
LEMMA Finds ==
  ASSUME PipeInv, NEW g \in Users, Call(g)
  PROVE  /\ Now \in Held /\ Now.pipe = pipe /\ Now.ret = ret /\ Now.got = got
         /\ Sound(Now, accepted, {}) /\ Sound(Now, accepted, {g}) /\ Ended(Now.pipe)
         /\ accepted \in Nat
         /\ pipe.pendingReads = <<>> \/ pipe.pendingWrites = <<>>
         /\ pipe \in PipeState /\ ret \in [Users -> Outcome] /\ got \in Seq(Nat)
<1>1. /\ Now.pipe = pipe /\ Now.ret = ret /\ Now.got = got
  BY DEF Now
<1>2. /\ Now \in Held /\ Sound(Now, accepted, {}) /\ Ended(Now.pipe) /\ accepted \in Nat
      /\ pipe.pendingReads = <<>> \/ pipe.pendingWrites = <<>>
  BY <1>1 DEF PipeInv
<1>3. Sound(Now, accepted, {g})
  BY <1>1, <1>2, Forgets DEF Call
<1> QED BY <1>1, <1>2, <1>3, HeldFields

\* A call that returns at once with o and changes nothing else.
LEMMA ReturnsAtOnce ==
  ASSUME PipeAssumption, PipeInv, NEW g \in Users, Call(g), NEW o \in Outcome,
         o.st \notin {"reading", "writing"}, o.st # "written" \/ o.err # Nil,
         pipe' = pipe, got' = got, ret' = [ret EXCEPT ![g] = o], UNCHANGED accepted
  PROVE  PipeInv'
<1>1. PICK s : s = Settle(Now, g, o)
  OBVIOUS
<1>2. s \in Held /\ Sound(s, accepted, {})
  BY <1>1, Finds, Settles
<1>3. s.pipe = pipe /\ s.got = got /\ s.ret = [ret EXCEPT ![g] = o]
  BY <1>1 DEF Settle, Now
<1>4. Becomes(s)
  BY <1>3 DEF Becomes
<1>5. /\ Ended(s.pipe)
      /\ s.pipe.pendingReads = <<>> \/ s.pipe.pendingWrites = <<>>
      /\ accepted' \in Nat /\ Sound(s, accepted', {})
  BY <1>2, <1>3, Finds
<1> QED BY <1>2, <1>4, <1>5, Leaves

LEMMA ReadReturnsKeeps ==
  ASSUME PipeAssumption, PipeInv, NEW g \in Users, ReadReturns(g)
  PROVE  PipeInv'
<1>1. Call(g) /\ UNCHANGED accepted
  BY DEF ReadReturns
<1>2. PICK e \in Errors \cup {Nil} : Becomes(Settle(Now, g, Result("read", 0, e, <<>>)))
  <2>1. pipe.readerErr \in Errors \cup {Nil} /\ pipe.writerErr \in Errors \cup {Nil}
    BY <1>1, Finds DEF PipeState
  <2> QED BY <2>1 DEF ReadReturns
<1>3. PICK o : o = Result("read", 0, e, <<>>)
  OBVIOUS
<1>4. o \in Outcome /\ o.st = "read"
  BY <1>3 DEF Result, Outcome
<1>5. pipe' = pipe /\ got' = got /\ ret' = [ret EXCEPT ![g] = o]
  BY <1>2, <1>3 DEF Becomes, Settle, Now
<1> QED BY <1>1, <1>4, <1>5, ReturnsAtOnce

LEMMA WriteFailsKeeps ==
  ASSUME PipeAssumption, PipeInv, NEW g \in Users, WriteFails(g)
  PROVE  PipeInv'
<1>1. Call(g) /\ UNCHANGED <<pipe, accepted, got>>
  BY DEF WriteFails
<1>2. PICK o : o = Result("written", 0, IF pipe.readerErr = Nil THEN "ErrClosedPipe"
                                        ELSE pipe.readerErr, <<>>)
  OBVIOUS
<1>3. pipe.readerErr \in Errors \cup {Nil}
  BY <1>1, Finds DEF PipeState
<1>4. o \in Outcome /\ o.st = "written" /\ o.err # Nil
  BY <1>2, <1>3 DEF Result, Outcome, Errors, Nil
<1>5. ret' = [ret EXCEPT ![g] = o]
  BY <1>2 DEF WriteFails
<1> QED BY <1>1, <1>4, <1>5, ReturnsAtOnce

LEMMA EmptyCallKeeps ==
  ASSUME PipeAssumption, PipeInv, NEW g \in Users, EmptyCall(g)
  PROVE  PipeInv'
<1>1. Call(g) /\ UNCHANGED <<pipe, accepted, got>>
  BY DEF EmptyCall
<1>2. PICK o : o = Result("none", 0, Nil, <<>>)
  OBVIOUS
<1>3. o \in Outcome /\ o.st = "none"
  BY <1>2 DEF Result, Outcome
<1>4. ret' = [ret EXCEPT ![g] = o]
  BY <1>2 DEF EmptyCall
<1> QED BY <1>1, <1>3, <1>4, ReturnsAtOnce

LEMMA ReadConsumesKeeps ==
  ASSUME PipeAssumption, PipeInv, NEW g \in Users, NEW m \in 1..PipeLen, ReadConsumes(g, m)
  PROVE  PipeInv'
<1>1. /\ Call(g) /\ UNCHANGED accepted /\ ~pipe.readerClosed /\ pipe.pendingWrites # <<>>
      /\ Becomes(ConsumeNextWrite(Now, g, m))
  BY DEF ReadConsumes
<1>2. PICK t : t = ConsumeNextWrite(Now, g, m)
  OBVIOUS
<1>3. /\ t \in Held /\ Sound(t, accepted, {}) /\ Ended(t.pipe)
      /\ t.pipe.pendingReads = pipe.pendingReads
  <2>1. /\ Now \in Held /\ Sound(Now, accepted, {g}) /\ Ended(Now.pipe)
        /\ Now.pipe = pipe
    BY <1>1, Finds
  <2>2. ~Now.pipe.readerClosed /\ Now.pipe.pendingWrites # <<>>
    BY <1>1, <2>1
  <2>3. /\ t \in Held /\ Sound(t, accepted, {}) /\ Ended(t.pipe)
        /\ t.pipe.pendingReads = Now.pipe.pendingReads
    BY <1>2, <2>1, <2>2, ConsumeKeeps
  <2> QED BY <2>1, <2>3
<1>4. t.pipe.pendingReads = <<>> /\ accepted' \in Nat /\ Sound(t, accepted', {})
  BY <1>1, <1>3, Finds
<1> QED BY <1>1, <1>2, <1>3, <1>4, Leaves

LEMMA ReadBlocksKeeps ==
  ASSUME PipeAssumption, PipeInv, NEW g \in Users, NEW m \in 1..PipeLen, ReadBlocks(g, m)
  PROVE  PipeInv'
<1>1. /\ Call(g) /\ UNCHANGED <<accepted, got>>
      /\ ~pipe.readerClosed /\ ~pipe.writerClosed /\ pipe.pendingWrites = <<>>
  BY DEF ReadBlocks
<1>2. PICK x : x = [g |-> g, n |-> m]
  OBVIOUS
<1>3. PICK o : o = Result("reading", 0, Nil, <<>>)
  OBVIOUS
<1>4. PICK q : q = Append(pipe.pendingReads, x)
  OBVIOUS
<1>5. /\ Now \in Held /\ Sound(Now, accepted, {g}) /\ accepted \in Nat
      /\ Now.pipe = pipe /\ Now.ret = ret /\ Now.got = got
      /\ pipe \in PipeState /\ ret \in [Users -> Outcome] /\ got \in Seq(Nat)
      /\ pipe.pendingReads \in Seq(PendingRead) /\ Len(got) \in Nat
  <2>1. /\ Now \in Held /\ Sound(Now, accepted, {g}) /\ accepted \in Nat
        /\ Now.pipe = pipe /\ Now.ret = ret /\ Now.got = got /\ Ended(Now.pipe)
        /\ pipe \in PipeState /\ ret \in [Users -> Outcome] /\ got \in Seq(Nat)
    BY <1>1, Finds
  <2>2. /\ pipe.pendingReads \in Seq(PendingRead)
        /\ pipe.pendingWrites \in Seq(Queued) /\ Len(got) \in Nat
    BY <2>1 DEF PipeState
  <2> QED BY <2>1, <2>2
<1>6. /\ pipe' = [pipe EXCEPT !.pendingReads = q] /\ ret' = [ret EXCEPT ![g] = o]
  BY <1>2, <1>3, <1>4 DEF ReadBlocks
<1>7. x \in PendingRead /\ x.g = g /\ o \in Outcome /\ o.st = "reading"
  BY <1>2, <1>3 DEF PendingRead, Result, Outcome
<1>8. q \in Seq(PendingRead)
  BY <1>4, <1>5, <1>7
<1>9. /\ pipe' \in PipeState /\ pipe'.pendingReads = q /\ pipe'.pendingWrites = <<>>
      /\ ~pipe'.readerClosed /\ ~pipe'.writerClosed
  BY <1>1, <1>5, <1>6, <1>8 DEF PipeState
<1>10. ret' \in [Users -> Outcome]
  BY <1>5, <1>6, <1>7
<1>11. PICK s : s = [pipe |-> pipe', ret |-> ret', got |-> got]
  OBVIOUS
<1>12. /\ s \in Held /\ s.pipe = pipe' /\ s.ret = ret' /\ s.got = got
  BY <1>5, <1>9, <1>10, <1>11 DEF Held
<1>13. Waiting(q, ret', "reading", {})
  <2>1. Waiting(pipe.pendingReads, ret, "reading", {g})
    BY <1>5 DEF Sound
  <2> QED BY <2>1, <1>4, <1>5, <1>6, <1>7, WaitingJoined
<1>14. Waiting(<<>>, ret', "writing", {})
  <2>1. Waiting(<<>>, ret, "writing", {g})
    BY <1>1, <1>5 DEF Sound
  <2> QED BY <2>1, <1>5, <1>6, <1>7, WaitingSettled
<1>15. Told(ret', Len(got), {})
  <2>1. Told(ret, Len(got), {g}) /\ Len(got) <= Len(got)
    BY <1>5 DEF Sound
  <2>2. o.st # "written"
    BY <1>7
  <2>3. Told([ret EXCEPT ![g] = o], Len(got), {})
    BY <1>5, <2>1, <2>2, ToldSettled
  <2> QED BY <1>6, <2>3
<1>16. Tiles(<<>>, Len(got), accepted) /\ Numbered(got)
  BY <1>1, <1>5 DEF Sound
<1>17. Sound(s, accepted, {})
  BY <1>9, <1>12, <1>13, <1>14, <1>15, <1>16 DEF Sound
<1>18. Becomes(s)
  BY <1>1, <1>12 DEF Becomes
<1>19. /\ Ended(s.pipe) /\ s.pipe.pendingWrites = <<>>
       /\ accepted' \in Nat /\ Sound(s, accepted', {})
  BY <1>1, <1>5, <1>9, <1>12, <1>17 DEF Ended
<1> QED BY <1>1, <1>12, <1>18, <1>19, Leaves

LEMMA WriteKeeps ==
  ASSUME PipeAssumption, PipeInv, NEW g \in Users, NEW m \in 1..PipeLen, Write(g, m)
  PROVE  PipeInv'
<1>1. /\ Call(g) /\ accepted' = accepted + m
      /\ ~pipe.readerClosed /\ ~pipe.writerClosed
  BY DEF Write
<1>2. PICK data : data = [i \in 1..m |-> accepted + i]
  OBVIOUS
<1>3. PICK x : x = [g |-> g, data |-> data, offset |-> 0]
  OBVIOUS
<1>4. PICK o : o = Result("writing", 0, Nil, data)
  OBVIOUS
<1>5. PICK q : q = Append(pipe.pendingWrites, x)
  OBVIOUS
<1>6. PICK s : /\ s = [Now EXCEPT !.pipe.pendingWrites = q, !.ret[g] = o]
               /\ Becomes(Drain(s))
  <2> DEFINE s == [Now EXCEPT !.pipe.pendingWrites = q, !.ret[g] = o]
  <2>1. Becomes(Drain([Now EXCEPT !.pipe.pendingWrites = Append(@, x), !.ret[g] = o]))
    BY <1>2, <1>3, <1>4, Zenon DEF Write
  <2>2. [Now EXCEPT !.pipe.pendingWrites = Append(@, x), !.ret[g] = o] = s
    BY <1>5 DEF Now
  <2> QED BY <2>1, <2>2
<1>7. /\ Now \in Held /\ Sound(Now, accepted, {g}) /\ accepted \in Nat
      /\ Now.pipe = pipe /\ Now.ret = ret /\ Now.got = got
      /\ pipe \in PipeState /\ ret \in [Users -> Outcome] /\ got \in Seq(Nat)
      /\ pipe.pendingWrites \in Seq(Queued) /\ Len(got) \in Nat /\ Ended(pipe)
  <2>1. /\ Now \in Held /\ Sound(Now, accepted, {g}) /\ accepted \in Nat
        /\ Now.pipe = pipe /\ Now.ret = ret /\ Now.got = got /\ Ended(Now.pipe)
        /\ pipe \in PipeState /\ ret \in [Users -> Outcome] /\ got \in Seq(Nat)
    BY <1>1, Finds
  <2>2. /\ pipe.pendingReads \in Seq(PendingRead)
        /\ pipe.pendingWrites \in Seq(Queued) /\ Len(got) \in Nat
    BY <2>1 DEF PipeState
  <2> QED BY <2>1, <2>2
<1>8. m \in Nat /\ 1 <= m
  BY DEF PipeAssumption
<1>9. /\ \A i \in 1..Len(pipe.pendingWrites) : Run(pipe.pendingWrites[i])
      /\ Tiles(pipe.pendingWrites, Len(got), accepted) /\ Numbered(got)
      /\ Waiting(pipe.pendingReads, ret, "reading", {g})
      /\ Waiting(pipe.pendingWrites, ret, "writing", {g})
      /\ Told(ret, Len(got), {g})
  BY <1>1, <1>7 DEF Sound
<1>10. /\ data \in Seq(Nat) /\ x \in Queued /\ q \in Seq(Queued)
       /\ \A i \in 1..Len(q) : Run(q[i])
       /\ Tiles(q, Len(got), accepted + m)
  <2>1. data \in Seq(Nat) /\ Len(data) = m /\ \A i \in 1..m : data[i] = accepted + i
    <3>1. data \in [1..m -> Nat]
      BY <1>2, <1>7, <1>8
    <3>2. data \in Seq(Nat) /\ Len(data) = m
      BY <3>1, <1>8, FunctionIsSeq
    <3> QED BY <3>2, <1>2
  <2>2. x \in Queued /\ x.offset = 0 /\ x.data = data
    BY <1>3, <2>1 DEF Queued
  <2>3. Len(x.data) = m /\ \A i \in 1..m : x.data[i] = accepted + i
    BY <2>1, <2>2
  <2>4. Added(x, accepted, m)
    BY <2>2, <2>3 DEF Added
  <2>5. PICK z : z = pipe.pendingWrites
    OBVIOUS
  <2>6. PICK a \in Nat : a = Len(got)
    BY <1>7
  <2>7. Line(z, a, accepted) /\ q = Append(z, x)
    BY <1>5, <1>7, <1>9, <2>5, <2>6 DEF Line
  <2>8. Line(q, a, accepted + m)
    BY <1>7, <1>8, <2>4, <2>7, WriteQueued
  <2> QED BY <2>1, <2>2, <2>6, <2>8 DEF Line
<1>11. x.g = g /\ o \in Outcome /\ o.st = "writing"
  BY <1>3, <1>4, <1>10 DEF Result, Outcome
<1>12. PICK np : np = [pipe EXCEPT !.pendingWrites = q]
  OBVIOUS
<1>13. /\ np \in PipeState /\ np.pendingReads = pipe.pendingReads /\ np.pendingWrites = q
       /\ ~np.readerClosed /\ ~np.writerClosed
  BY <1>1, <1>7, <1>10, <1>12 DEF PipeState
<1>14. PICK nr : nr = [ret EXCEPT ![g] = o]
  OBVIOUS
<1>15. nr \in [Users -> Outcome]
  BY <1>7, <1>11, <1>14
<1>16. s.pipe = np /\ s.ret = nr /\ s.got = got /\ s \in Held
  <2>1. s.pipe = np /\ s.ret = nr /\ s.got = got
    BY <1>6, <1>12, <1>14 DEF Now
  <2>2. s = [pipe |-> s.pipe, ret |-> s.ret, got |-> s.got]
    BY <1>6 DEF Now
  <2> QED BY <2>1, <2>2, <1>7, <1>13, <1>15 DEF Held
<1>17. Waiting(q, nr, "writing", {})
  BY <1>5, <1>7, <1>9, <1>10, <1>11, <1>14, WaitingJoined
<1>18. Waiting(pipe.pendingReads, nr, "reading", {})
  BY <1>7, <1>9, <1>11, <1>14, WaitingSettled
<1>19. Told(nr, Len(got), {})
  <2>1. Len(got) <= Len(got) /\ o.st # "written"
    BY <1>7, <1>11
  <2> QED BY <1>7, <1>9, <1>14, <2>1, ToldSettled
<1>20. Sound(s, accepted + m, {})
  BY <1>9, <1>10, <1>13, <1>16, <1>17, <1>18, <1>19 DEF Sound
<1>21. ~s.pipe.readerClosed /\ Ended(s.pipe)
  BY <1>13, <1>16 DEF Ended
<1>22. PICK t : t = Drain(s)
  OBVIOUS
<1>23. /\ t \in Held /\ Sound(t, accepted + m, {}) /\ Ended(t.pipe)
       /\ t.pipe.pendingReads = <<>> \/ t.pipe.pendingWrites = <<>>
  BY <1>16, <1>20, <1>21, <1>22, DrainKeeps
<1>24. accepted' \in Nat /\ Sound(t, accepted', {}) /\ Becomes(t)
  <2>1. accepted + m \in Nat /\ accepted' = accepted + m
    BY <1>1, <1>7, <1>8
  <2>2. Becomes(t)
    BY <1>6, <1>22, Zenon
  <2> QED BY <2>1, <2>2, <1>23, Zenon
<1> QED BY <1>1, <1>23, <1>24, Leaves

LEMMA CloseReaderKeeps ==
  ASSUME PipeAssumption, PipeInv, NEW g \in Users, NEW e \in {"ErrClosedPipe", "custom"},
         CloseReader(g, e)
  PROVE  PipeInv'
<1>1. Call(g) /\ UNCHANGED accepted
  BY DEF CloseReader
<1>2. PICK s : /\ s = [Now EXCEPT !.pipe.readerClosed = TRUE, !.pipe.readerErr = e]
               /\ Becomes(ResolvePendingWrites(ResolvePendingReads(s, "ErrClosedPipe"),
                                               "ErrClosedPipe"))
  BY DEF CloseReader
<1>3. /\ Sound(Now, accepted, {}) /\ accepted \in Nat
      /\ Now.pipe = pipe /\ Now.ret = ret /\ Now.got = got
      /\ pipe \in PipeState /\ ret \in [Users -> Outcome] /\ got \in Seq(Nat)
  BY <1>1, Finds
<1>4. PICK np : np = [pipe EXCEPT !.readerClosed = TRUE, !.readerErr = e]
  OBVIOUS
<1>5. /\ np \in PipeState /\ np.readerClosed
      /\ np.pendingReads = pipe.pendingReads /\ np.pendingWrites = pipe.pendingWrites
  BY <1>3, <1>4 DEF PipeState, Errors
<1>6. s \in Held /\ s.pipe = np /\ s.ret = ret /\ s.got = got
  <2>1. s.pipe = np /\ s.ret = ret /\ s.got = got
    BY <1>2, <1>4 DEF Now
  <2>2. s = [pipe |-> s.pipe, ret |-> s.ret, got |-> s.got]
    BY <1>2 DEF Now
  <2> QED BY <2>1, <2>2, <1>3, <1>5 DEF Held
<1>7. Sound(s, accepted, {})
  BY <1>3, <1>5, <1>6 DEF Sound
<1>8. PICK t : t = ResolvePendingReads(s, "ErrClosedPipe")
  OBVIOUS
<1>9. "ErrClosedPipe" \in Errors /\ "ErrClosedPipe" \in Errors \cup {Nil}
  BY DEF Errors
<1>10. t \in Held /\ Sound(t, accepted, {}) /\ t.pipe = [np EXCEPT !.pendingReads = <<>>]
  BY <1>6, <1>7, <1>8, <1>9, ResolvesReads
<1>11. t.pipe \in PipeState /\ t.pipe.readerClosed /\ t.pipe.pendingReads = <<>>
  <2>1. t.pipe \in PipeState
    BY <1>10, HeldFields
  <2> QED BY <2>1, <1>5, <1>10 DEF PipeState
<1>12. PICK u : u = ResolvePendingWrites(t, "ErrClosedPipe")
  OBVIOUS
<1>13. u \in Held /\ Sound(u, accepted, {}) /\ u.pipe = [t.pipe EXCEPT !.pendingWrites = <<>>]
  BY <1>9, <1>10, <1>11, <1>12, ResolvesWrites
<1>14. u.pipe.pendingReads = <<>> /\ u.pipe.pendingWrites = <<>>
  BY <1>11, <1>13 DEF PipeState
<1>15. Becomes(u)
  BY <1>2, <1>8, <1>12, Zenon
<1>16. Ended(u.pipe) /\ accepted' \in Nat /\ Sound(u, accepted', {})
  BY <1>1, <1>3, <1>13, <1>14 DEF Ended
<1> QED BY <1>1, <1>13, <1>14, <1>15, <1>16, Leaves

LEMMA CloseWriterKeeps ==
  ASSUME PipeAssumption, PipeInv, NEW g \in Users, NEW e \in {"EOF", "custom"}, CloseWriter(g, e)
  PROVE  PipeInv'
<1>1. Call(g) /\ UNCHANGED accepted
  BY DEF CloseWriter
<1>2. PICK s : /\ s = [Now EXCEPT !.pipe.writerClosed = TRUE, !.pipe.writerErr = e]
               /\ Becomes(IF pipe.pendingWrites = <<>> THEN ResolvePendingReads(s, e) ELSE s)
  BY DEF CloseWriter
<1>3. /\ Sound(Now, accepted, {}) /\ accepted \in Nat /\ Ended(pipe)
      /\ Now.pipe = pipe /\ Now.ret = ret /\ Now.got = got
      /\ pipe.pendingReads = <<>> \/ pipe.pendingWrites = <<>>
      /\ pipe \in PipeState /\ ret \in [Users -> Outcome] /\ got \in Seq(Nat)
  BY <1>1, Finds
<1>4. PICK np : np = [pipe EXCEPT !.writerClosed = TRUE, !.writerErr = e]
  OBVIOUS
<1>5. /\ np \in PipeState /\ np.readerClosed = pipe.readerClosed
      /\ np.pendingReads = pipe.pendingReads /\ np.pendingWrites = pipe.pendingWrites
  BY <1>3, <1>4 DEF PipeState, Errors
<1>6. s \in Held /\ s.pipe = np /\ s.ret = ret /\ s.got = got
  <2>1. s.pipe = np /\ s.ret = ret /\ s.got = got
    BY <1>2, <1>4 DEF Now
  <2>2. s = [pipe |-> s.pipe, ret |-> s.ret, got |-> s.got]
    BY <1>2 DEF Now
  <2> QED BY <2>1, <2>2, <1>3, <1>5 DEF Held
<1>7. Sound(s, accepted, {})
  BY <1>3, <1>5, <1>6 DEF Sound
<1>8. CASE pipe.pendingWrites = <<>>
  <2>1. PICK t : t = ResolvePendingReads(s, e)
    OBVIOUS
  <2>2. e \in Errors \cup {Nil}
    BY DEF Errors
  <2>3. t \in Held /\ Sound(t, accepted, {}) /\ t.pipe = [np EXCEPT !.pendingReads = <<>>]
    BY <1>6, <1>7, <2>1, <2>2, ResolvesReads
  <2>4. t.pipe.pendingReads = <<>> /\ t.pipe.pendingWrites = <<>>
    BY <1>5, <1>8, <2>3 DEF PipeState
  <2>5. Becomes(t)
    BY <1>2, <1>8, <2>1
  <2>6. Ended(t.pipe) /\ accepted' \in Nat /\ Sound(t, accepted', {})
    BY <1>1, <1>3, <2>3, <2>4 DEF Ended
  <2> QED BY <1>1, <2>3, <2>4, <2>5, <2>6, Leaves
<1>9. CASE pipe.pendingWrites # <<>>
  <2>1. s.pipe.pendingReads = <<>> /\ Becomes(s)
    BY <1>2, <1>3, <1>5, <1>6, <1>9
  <2>2. Ended(s.pipe) /\ accepted' \in Nat /\ Sound(s, accepted', {})
    BY <1>1, <1>3, <1>5, <1>6, <1>7, <2>1 DEF Ended
  <2> QED BY <1>1, <1>6, <2>1, <2>2, Leaves
<1> QED BY <1>8, <1>9

LEMMA Begins ==
  ASSUME PipeAssumption, PipeInit
  PROVE  PipeInv
<1>1. /\ pipe \in PipeState /\ ~pipe.readerClosed /\ ~pipe.writerClosed
      /\ pipe.pendingReads = <<>> /\ pipe.pendingWrites = <<>>
  BY DEF PipeInit, PipeState
<1>2. ret \in [Users -> Outcome] /\ \A g \in Users : ret[g].st = "none"
  BY DEF PipeInit, Result, Outcome
<1>3. got = <<>> /\ accepted = 0 /\ got \in Seq(Nat) /\ Len(got) = 0
  BY DEF PipeInit
<1>4. Now \in Held /\ Now.pipe = pipe /\ Now.ret = ret /\ Now.got = got
  BY <1>1, <1>2, <1>3 DEF Now, Held
<1>5. pipeCalls \in [Users -> 0..PipeOps]
  BY DEF PipeInit, PipeAssumption
<1>6. /\ Waiting(<<>>, ret, "reading", {}) /\ Waiting(<<>>, ret, "writing", {})
      /\ Tiles(<<>>, 0, 0) /\ Numbered(<<>>) /\ Told(ret, 0, {})
  BY <1>2 DEF Waiting, Tiles, Numbered, Told
<1>7. Sound(Now, accepted, {})
  BY <1>1, <1>3, <1>4, <1>6 DEF Sound
<1> QED BY <1>1, <1>3, <1>4, <1>5, <1>7 DEF PipeInv, Ended

LEMMA PipeInvKept ==
  ASSUME PipeAssumption, PipeInv, [PipeNext]_pipeVars
  PROVE  PipeInv'
<1>1. CASE PipeNext
  <2>1. PICK g \in Users :
          \/ ReadReturns(g) \/ WriteFails(g) \/ EmptyCall(g)
          \/ \E n \in 1..PipeLen : ReadConsumes(g, n) \/ ReadBlocks(g, n) \/ Write(g, n)
          \/ \E e \in {"ErrClosedPipe", "custom"} : CloseReader(g, e)
          \/ \E e \in {"EOF", "custom"} : CloseWriter(g, e)
    BY <1>1, Zenon DEF PipeNext
  <2>2. CASE ReadReturns(g) \/ WriteFails(g) \/ EmptyCall(g)
    BY <2>2, ReadReturnsKeeps, WriteFailsKeeps, EmptyCallKeeps, Zenon
  <2>3. CASE \E n \in 1..PipeLen : ReadConsumes(g, n) \/ ReadBlocks(g, n) \/ Write(g, n)
    BY <2>3, ReadConsumesKeeps, ReadBlocksKeeps, WriteKeeps, Zenon
  <2>4. CASE \E e \in {"ErrClosedPipe", "custom"} : CloseReader(g, e)
    BY <2>4, CloseReaderKeeps, Zenon
  <2>5. CASE \E e \in {"EOF", "custom"} : CloseWriter(g, e)
    BY <2>5, CloseWriterKeeps, Zenon
  <2> QED BY <2>1, <2>2, <2>3, <2>4, <2>5
<1>2. CASE UNCHANGED pipeVars
  BY <1>2, Zenon DEF pipeVars, PipeInv, Now
<1> QED BY <1>1, <1>2

-----------------------------------------------------------------------------
(* The stream.  FlattenSeq is defined by recursion; what it makes of the    *)
(* pending writes follows by induction on their number.                    *)

\* s holds the numbers after a up to b.
Counts(s, a, b) ==
  /\ s \in Seq(Nat) /\ a + Len(s) = b
  /\ \A k \in 1..Len(s) : s[k] = a + k

LEMMA CountsJoined ==
  ASSUME NEW a \in Nat, NEW b \in Nat, NEW c \in Nat, NEW s, NEW t, Counts(s, a, b), Counts(t, b, c)
  PROVE  Counts(s \o t, a, c)
<1>1. /\ s \in Seq(Nat) /\ t \in Seq(Nat) /\ a + Len(s) = b /\ b + Len(t) = c
      /\ \A k \in 1..Len(s) : s[k] = a + k
      /\ \A k \in 1..Len(t) : t[k] = b + k
  BY DEF Counts
<1>2. /\ s \o t \in Seq(Nat) /\ Len(s \o t) = Len(s) + Len(t)
      /\ Len(s) \in Nat /\ Len(t) \in Nat
      /\ \A k \in 1..Len(s) : (s \o t)[k] = s[k]
      /\ \A k \in (Len(s) + 1)..(Len(s) + Len(t)) : (s \o t)[k] = t[k - Len(s)]
  BY <1>1, ConcatParts
<1>3. PICK x : x = s \o t
  OBVIOUS
<1>4. PICK i \in Nat, j \in Nat : i = Len(s) /\ j = Len(t)
  BY <1>2
<1>5. /\ a + i = b /\ b + j = c /\ Len(x) = i + j
      /\ \A k \in 1..i : x[k] = a + k
      /\ \A k \in (i + 1)..(i + j) : x[k] = t[k - i]
      /\ \A k \in 1..j : t[k] = b + k
  BY <1>1, <1>2, <1>3, <1>4
<1>6. ASSUME NEW k \in 1..(i + j) PROVE x[k] = a + k
  <2>1. CASE k <= i
    BY <2>1, <1>5
  <2>2. CASE k > i
    <3>1. k - i \in 1..j /\ k \in (i + 1)..(i + j) /\ b + (k - i) = a + k
      BY <2>2, <1>5
    <3> QED BY <3>1, <1>5
  <2> QED BY <2>1, <2>2
<1>7. a + (i + j) = c
  BY <1>5
<1>8. Counts(x, a, c)
  BY <1>2, <1>3, <1>5, <1>6, <1>7 DEF Counts
<1> QED BY <1>3, <1>8

\* What a pending write still holds.
Left(w) == SubSeq(w.data, w.offset + 1, Len(w.data))

LEMMA LeftCounts ==
  ASSUME NEW w \in Queued, Run(w)
  PROVE  First(w) - 1 \in Nat /\ End(w) \in Nat /\ Counts(Left(w), First(w) - 1, End(w))
<1>1. PICK d \in Seq(Nat), off \in Nat, n \in Nat : d = w.data /\ off = w.offset /\ n = Len(d)
  BY DEF Queued
<1>2. PICK e \in Nat : e = End(w)
  <2>1. Len(w.data) \in 1..Len(w.data)
    BY <1>1 DEF Run
  <2> QED BY <1>1, <2>1 DEF End
<1>3. /\ off < n
      /\ \A k \in 1..n : d[k] \in Nat /\ 1 <= d[k] /\ d[k] + n = e + k
  BY <1>1, <1>2 DEF Run
<1>4. PICK a \in Nat : a = First(w) - 1 /\ (a + 1) + n = e + (off + 1)
  <2>1. off + 1 \in 1..n
    BY <1>3
  <2>2. First(w) = d[off + 1]
    BY <1>1 DEF First
  <2>3. PICK f \in Nat : f = First(w) /\ 1 <= f /\ f + n = e + (off + 1)
    BY <1>3, <2>1, <2>2
  <2>4. f - 1 \in Nat /\ ((f - 1) + 1) + n = e + (off + 1)
    BY <2>3
  <2> QED BY <2>3, <2>4
<1>5. PICK s : s = SubSeq(d, off + 1, n)
  OBVIOUS
<1>6. /\ s \in Seq(Nat) /\ Len(s) = n - off
      /\ \A k \in 1..(n - off) : s[k] = d[off + k]
  <2>1. PICK j \in Nat : j = n - off /\ off + j = n
    BY <1>3
  <2>2. off + j <= Len(d)
    BY <1>1, <2>1
  <2>3. /\ SubSeq(d, off + 1, off + j) \in Seq(Nat) /\ Len(SubSeq(d, off + 1, off + j)) = j
        /\ \A k \in 1..j : SubSeq(d, off + 1, off + j)[k] = d[off + k]
    <3>1. PartOf(SubSeq(d, off + 1, off + j), d, off, j)
      BY <2>2, PartOfSeq
    <3> QED BY <3>1, Zenon DEF PartOf
  <2>4. s = SubSeq(d, off + 1, off + j)
    BY <1>5, <2>1
  <2> QED BY <2>1, <2>3, <2>4, Zenon
<1>7. a + (n - off) = e
  BY <1>4
<1>8. ASSUME NEW k \in 1..(n - off) PROVE s[k] = a + k
  <2>1. off + k \in 1..n
    OBVIOUS
  <2>2. d[off + k] + n = e + (off + k) /\ d[off + k] \in Nat
    BY <1>3, <2>1
  <2>3. PICK v \in Nat : v = d[off + k] /\ v + n = e + (off + k)
    BY <2>2
  <2>4. k \in Nat /\ (a + 1) + n = e + (off + 1)
    BY <1>4
  <2>4a. a + n = e + off
    BY <2>4
  <2>4b. v + n = (a + n) + k
    BY <2>3, <2>4, <2>4a
  <2>5. v = a + k
    BY <2>4, <2>4b
  <2> QED BY <1>6, <2>3, <2>5
<1>9. Counts(s, a, e)
  BY <1>6, <1>7, <1>8 DEF Counts
<1>10. Left(w) = s
  BY <1>1, <1>5 DEF Left
<1> QED BY <1>2, <1>4, <1>9, <1>10

Flat(f, m, q) == f = [i \in 1..m |-> IF i = 1 THEN q[i] ELSE f[i - 1] \o q[i]]

LEMMA FlatExists ==
  ASSUME NEW q
  PROVE  \A m \in Nat : \E f : Flat(f, m, q)
<1> DEFINE Missing == {m \in Nat : ~\E f : Flat(f, m, q)}
<1>1. ASSUME Missing # {} PROVE FALSE
  <2>1. PICK m \in Missing : \A k \in Missing : m <= k
    BY <1>1, NatMin
  <2>2. CASE m = 0
    <3>1. \A i \in 1..0 : FALSE
      OBVIOUS
    <3> DEFINE h == [i \in 1..0 |-> q]
    <3>2. h = [i \in 1..0 |-> IF i = 1 THEN q[i] ELSE h[i - 1] \o q[i]]
      BY <3>1
    <3> QED BY <2>1, <2>2, <3>2 DEF Flat
  <2>3. CASE m # 0
    <3>1. m \in Nat /\ m - 1 \in Nat /\ ~(m <= m - 1)
      BY <2>1, <2>3
    <3>2. PICK f : Flat(f, m - 1, q)
      BY <2>1, <3>1
    <3> DEFINE h == [i \in 1..m |-> IF i < m THEN f[i]
                                    ELSE IF i = 1 THEN q[i] ELSE f[i - 1] \o q[i]]
    <3>3. \A i \in 1..m : h[i] = IF i = 1 THEN q[i] ELSE h[i - 1] \o q[i]
      <4> TAKE i \in 1..m
      <4>1. i # 1 => i - 1 \in 1..m /\ i - 1 < m /\ h[i - 1] = f[i - 1]
        BY <3>1
      <4>2. CASE i = m
        <5>1. h[i] = IF i = 1 THEN q[i] ELSE f[i - 1] \o q[i]
          BY <4>2, <3>1
        <5> HIDE DEF h
        <5> QED BY <4>1, <5>1
      <4>3. CASE i # m
        <5>1. i \in 1..(m - 1) /\ i < m
          BY <4>3, <3>1
        <5>2. f[i] = IF i = 1 THEN q[i] ELSE f[i - 1] \o q[i]
          BY <5>1, <3>2 DEF Flat
        <5>3. h[i] = f[i]
          BY <5>1
        <5> HIDE DEF h
        <5> QED BY <4>1, <5>2, <5>3
      <4> QED BY <4>2, <4>3
    <3>4. h = [i \in 1..m |-> h[i]]
      OBVIOUS
    <3> HIDE DEF h
    <3>5. Flat(h, m, q)
      BY <3>3, <3>4 DEF Flat
    <3> QED BY <2>1, <3>5
  <2> QED BY <2>2, <2>3
<1> QED BY <1>1

\* The pending writes hold what was accepted and is not read yet.
LEMMA FlatCounts ==
  ASSUME NEW q \in Seq(Queued), q # <<>>, \A i \in 1..Len(q) : Run(q[i]),
         NEW a \in Nat, NEW b \in Nat, Tiles(q, a, b),
         NEW x, x = [i \in 1..Len(q) |-> Left(q[i])]
  PROVE  Counts(FlattenSeq(x), a, b)
<1>1. PICK n \in Nat : n = Len(q) /\ n >= 1
  BY SeqSteps
<1>2. x \in Seq(Seq(Nat)) /\ Len(x) = n /\ \A i \in 1..n : x[i] = Left(q[i])
  <2>1. \A i \in 1..n : q[i] \in Queued /\ Run(q[i])
    BY <1>1
  <2>2. \A i \in 1..n : Left(q[i]) \in Seq(Nat)
    BY <2>1, LeftCounts DEF Counts
  <2>3. x \in [1..n -> Seq(Nat)]
    BY <1>1, <2>2
  <2>4. x \in Seq(Seq(Nat)) /\ Len(x) = n
    BY <2>3, FunctionIsSeq
  <2> QED BY <2>4, <1>1
<1> DEFINE f == CHOOSE f : Flat(f, n, x)
<1>3. FlattenSeq(x) = f[n]
  <2>1. Len(x) = n /\ Len(x) # 0
    BY <1>1, <1>2
  <2> QED BY <2>1, Zenon DEF FlattenSeq, Flat
<1>4. Flat(f, n, x)
  <2>1. \E h : Flat(h, n, x)
    BY FlatExists
  <2> QED BY <2>1, Zenon
<1> HIDE DEF f
<1>5. \A i \in 1..n : f[i] = IF i = 1 THEN x[i] ELSE f[i - 1] \o x[i]
  BY <1>4 DEF Flat
<1>6. \A i \in 1..n : /\ q[i] \in Queued /\ Run(q[i]) /\ First(q[i]) - 1 \in Nat /\ End(q[i]) \in Nat
                      /\ Counts(x[i], First(q[i]) - 1, End(q[i]))
  <2> TAKE i \in 1..n
  <2>1. q[i] \in Queued /\ Run(q[i])
    BY <1>1
  <2> QED BY <2>1, <1>2, LeftCounts
<1>7. /\ First(q[1]) - 1 = a /\ End(q[n]) = b
      /\ \A i \in 1..n : i > 1 => First(q[i]) - 1 = End(q[i - 1])
  <2>1. First(q[1]) = a + 1 /\ End(q[n]) = b
    BY <1>1 DEF Tiles
  <2>2. ASSUME NEW i \in 1..n, i > 1 PROVE First(q[i]) - 1 = End(q[i - 1])
    <3>1. i - 1 \in 1..n /\ i - 1 < n /\ (i - 1) + 1 = i
      BY <2>2
    <3>2. First(q[(i - 1) + 1]) = End(q[i - 1]) + 1
      BY <3>1, <1>1 DEF Tiles
    <3>3. First(q[i]) = End(q[i - 1]) + 1 /\ End(q[i - 1]) \in Nat
      BY <3>1, <3>2, <1>6
    <3> QED BY <3>3
  <2> QED BY <2>1, <2>2
<1> DEFINE Bad == {i \in 1..n : ~Counts(f[i], a, End(q[i]))}
<1>8. Bad = {}
  <2> SUFFICES ASSUME Bad # {} PROVE FALSE
    OBVIOUS
  <2>1. Bad \subseteq Nat
    OBVIOUS
  <2>2. PICK i \in Bad : \A j \in Bad : i <= j
    BY <2>1, NatMin
  <2>3. i \in 1..n /\ ~Counts(f[i], a, End(q[i]))
    BY <2>2
  <2>4. CASE i = 1
    <3>1. Counts(x[1], a, End(q[1]))
      BY <2>3, <2>4, <1>6, <1>7
    <3> QED BY <2>3, <2>4, <3>1, <1>5
  <2>5. CASE i # 1
    <3>1. i - 1 \in 1..n /\ ~(i <= i - 1) /\ i > 1
      BY <2>3, <2>5
    <3>2. Counts(f[i - 1], a, End(q[i - 1]))
      BY <2>2, <3>1
    <3>3. Counts(x[i], End(q[i - 1]), End(q[i]))
      BY <2>3, <3>1, <1>6, <1>7
    <3>4. End(q[i - 1]) \in Nat /\ End(q[i]) \in Nat
      BY <2>3, <3>1, <1>6
    <3>5. Counts(f[i - 1] \o x[i], a, End(q[i]))
      BY <3>2, <3>3, <3>4, CountsJoined
    <3> QED BY <2>3, <2>5, <3>5, <1>5
  <2> QED BY <2>4, <2>5
<1>9. Counts(f[n], a, End(q[n]))
  BY <1>1, <1>8
<1> QED BY <1>3, <1>7, <1>9

-----------------------------------------------------------------------------
(* What the invariant says of the pipe. *)

\* The list names each waiting goroutine once, and nobody else.
LEMMA WaitingCounted ==
  ASSUME NEW R, NEW q \in Seq(R), NEW r, NEW st, Waiting(q, r, st, {}), NEW h \in Users
  PROVE  r[h].st = st <=> Cardinality({i \in DOMAIN q : q[i].g = h}) = 1
<1> DEFINE P == {i \in DOMAIN q : q[i].g = h}
<1>1. DOMAIN q = 1..Len(q)
  OBVIOUS
<1>2. r[h].st = st <=> \E i \in 1..Len(q) : q[i].g = h
  BY DEF Waiting
<1>3. \A i, j \in P : i = j
  BY <1>1 DEF Waiting
<1>4. CASE P = {}
  <2>1. Cardinality(P) = 0
    BY <1>4, FS_EmptySet
  <2>2. ~(r[h].st = st)
    BY <1>1, <1>2, <1>4
  <2> QED BY <2>1, <2>2
<1>5. CASE P # {}
  <2>1. PICK i : i \in P
    BY <1>5
  <2>2. P = {i}
    BY <1>3, <2>1
  <2>3. Cardinality(P) = 1
    BY <2>2, FS_Singleton
  <2>4. r[h].st = st
    BY <1>1, <1>2, <2>1
  <2> QED BY <2>3, <2>4
<1> QED BY <1>4, <1>5

LEMMA InvServes ==
  ASSUME PipeInv
  PROVE  PipeServes
<1>1. /\ Now \in Held /\ Now.pipe = pipe /\ Now.ret = ret /\ Sound(Now, accepted, {})
      /\ Ended(pipe)
      /\ pipe.pendingReads = <<>> \/ pipe.pendingWrites = <<>>
  BY DEF PipeInv, Now
<1>2. pipe.pendingReads \in Seq(PendingRead) /\ pipe.pendingWrites \in Seq(Queued)
  BY <1>1, HeldFields
<1>3. /\ Waiting(pipe.pendingReads, ret, "reading", {})
      /\ Waiting(pipe.pendingWrites, ret, "writing", {})
  BY <1>1 DEF Sound
<1>4. ASSUME NEW g \in Users
      PROVE  /\ ret[g].st = "reading" <=>
                  Cardinality({i \in DOMAIN pipe.pendingReads :
                                 pipe.pendingReads[i].g = g}) = 1
             /\ ret[g].st = "writing" <=>
                  Cardinality({i \in DOMAIN pipe.pendingWrites :
                                 pipe.pendingWrites[i].g = g}) = 1
  <2>1. PICK q : q = pipe.pendingReads
    OBVIOUS
  <2>2. PICK p : p = pipe.pendingWrites
    OBVIOUS
  <2>3. PICK r : r = ret
    OBVIOUS
  <2>4. /\ q \in Seq(PendingRead) /\ Waiting(q, r, "reading", {})
        /\ p \in Seq(Queued) /\ Waiting(p, r, "writing", {})
    BY <1>2, <1>3, <2>1, <2>2, <2>3
  <2>5. r[g].st = "reading" <=> Cardinality({i \in DOMAIN q : q[i].g = g}) = 1
    BY <2>4, WaitingCounted
  <2>6. r[g].st = "writing" <=> Cardinality({i \in DOMAIN p : p[i].g = g}) = 1
    BY <2>4, WaitingCounted
  <2> QED BY <2>1, <2>2, <2>3, <2>5, <2>6, Zenon
<1>5. /\ pipe.readerClosed => pipe.pendingReads = <<>> /\ pipe.pendingWrites = <<>>
      /\ pipe.writerClosed => pipe.pendingReads = <<>>
  BY <1>1 DEF Ended
<1> QED BY <1>1, <1>4, <1>5, Zenon DEF PipeServes

LEMMA InvTypes ==
  ASSUME PipeInv
  PROVE  PipeTypeOK
<1>1. /\ Now \in Held /\ Now.pipe = pipe /\ Now.ret = ret /\ Now.got = got
      /\ Sound(Now, accepted, {}) /\ pipeCalls \in [Users -> 0..PipeOps] /\ accepted \in Nat
  BY DEF PipeInv, Now
<1>2. /\ pipe \in PipeState /\ ret \in [Users -> Outcome] /\ got \in Seq(Nat)
      /\ pipe.pendingReads \in Seq(PendingRead) /\ pipe.pendingWrites \in Seq(Queued)
  BY <1>1, HeldFields
<1>3. ASSUME NEW w \in ToSet(pipe.pendingWrites) PROVE PendingWrite(w)
  <2>1. PICK i \in 1..Len(pipe.pendingWrites) : w = pipe.pendingWrites[i]
    BY <1>2, SetOfSeq
  <2>2. w \in Queued
    BY <1>2, <2>1
  <2>3. Run(w)
    BY <1>1, <2>1 DEF Sound
  <2>4. DOMAIN w = {"g", "data", "offset"} /\ w.g \in Users /\ w.data \in Seq(Nat) /\ w.offset \in Nat
    BY <2>2 DEF Queued
  <2>5. w.offset \in 0..(Len(w.data) - 1)
    BY <2>3, <2>4 DEF Run
  <2> QED BY <2>4, <2>5 DEF PendingWrite
<1>4. /\ pipe.readerClosed \in BOOLEAN /\ pipe.writerClosed \in BOOLEAN
      /\ {pipe.readerErr, pipe.writerErr} \subseteq Errors \cup {Nil}
  BY <1>2 DEF PipeState
<1>5. \A g \in Users : /\ ret[g].st \in {"none", "reading", "writing", "read", "written"}
                       /\ ret[g].n \in Nat /\ ret[g].err \in Errors \cup {Nil}
                       /\ ret[g].data \in Seq(Nat)
  BY <1>2 DEF Outcome
<1> QED BY <1>1, <1>2, <1>3, <1>4, <1>5 DEF PipeTypeOK

LEMMA InvStream ==
  ASSUME PipeInv
  PROVE  PipeStream
<1>1. /\ Now \in Held /\ Now.pipe = pipe /\ Now.ret = ret /\ Now.got = got
      /\ Sound(Now, accepted, {}) /\ accepted \in Nat
  BY DEF PipeInv, Now
<1>2. /\ pipe \in PipeState /\ ret \in [Users -> Outcome] /\ got \in Seq(Nat) /\ Len(got) \in Nat
      /\ pipe.pendingWrites \in Seq(Queued) /\ DOMAIN got = 1..Len(got)
  BY <1>1, HeldFields
<1>3. /\ Numbered(got) /\ Told(ret, Len(got), {})
      /\ \A i \in 1..Len(pipe.pendingWrites) : Run(pipe.pendingWrites[i])
      /\ ~pipe.readerClosed => Tiles(pipe.pendingWrites, Len(got), accepted)
  BY <1>1 DEF Sound
<1>4. \A i \in DOMAIN got : got[i] = i
  BY <1>2, <1>3 DEF Numbered
<1>5. Counts(got, 0, Len(got))
  BY <1>2, <1>3 DEF Counts, Numbered
<1>6. ASSUME NEW g \in Users, ret[g].st = "written", ret[g].err = Nil
      PROVE  ret[g].n = Len(ret[g].data) /\ ToSet(ret[g].data) \subseteq ToSet(got)
  <2>1. /\ ret[g].n = Len(ret[g].data)
        /\ \A k \in 1..Len(ret[g].data) : ret[g].data[k] \in 1..Len(got)
    BY <1>3, <1>6 DEF Told
  <2>2. ASSUME NEW j \in 1..Len(got) PROVE j \in ToSet(got)
    <3>1. got[j] = j
      BY <1>2, <1>4
    <3>2. \A x : x \in ToSet(got) <=> \E k \in 1..Len(got) : got[k] = x
      BY <1>2, SetOfSeq
    <3> QED BY <3>1, <3>2
  <2>3. ret[g].data \in Seq(Nat)
    BY <1>2 DEF Outcome
  <2>4. \A x \in ToSet(ret[g].data) : \E k \in 1..Len(ret[g].data) : ret[g].data[k] = x
    BY <2>3, SetOfSeq
  <2> QED BY <2>1, <2>2, <2>4
<1>7. ASSUME ~pipe.readerClosed,
             NEW x, x = [i \in DOMAIN pipe.pendingWrites |->
                           LET w == pipe.pendingWrites[i]
                           IN  SubSeq(w.data, w.offset + 1, Len(w.data))]
      PROVE  got \o FlattenSeq(x) = [i \in 1..accepted |-> i]
  <2>1. PICK q : q = pipe.pendingWrites
    OBVIOUS
  <2>2. /\ q \in Seq(Queued) /\ (\A i \in 1..Len(q) : Run(q[i]))
        /\ Tiles(q, Len(got), accepted)
    BY <1>2, <1>3, <1>7, <2>1
  <2>3. x = [i \in 1..Len(q) |-> Left(q[i])]
    <3>1. DOMAIN q = 1..Len(q)
      BY <2>2
    <3> QED BY <3>1, <2>1, <1>7 DEF Left
  <2>4. Counts(got \o FlattenSeq(x), 0, accepted)
    <3>1. CASE q = <<>>
      <4>1. x = <<>> /\ Len(x) = 0
        BY <2>3, <3>1
      <4>2. FlattenSeq(x) = <<>>
        BY <4>1 DEF FlattenSeq
      <4>3. got \o <<>> = got /\ Len(got) = accepted
        BY <1>2, <2>2, <3>1 DEF Tiles
      <4> QED BY <4>2, <4>3, <1>5
    <3>2. CASE q # <<>>
      <4>1. Counts(FlattenSeq(x), Len(got), accepted)
        BY <1>1, <1>2, <2>2, <2>3, <3>2, FlatCounts
      <4> QED BY <4>1, <1>1, <1>2, <1>5, CountsJoined
    <3> QED BY <3>1, <3>2
  <2>5. PICK y : y = got \o FlattenSeq(x)
    OBVIOUS
  <2>6. y \in Seq(Nat) /\ Len(y) = accepted /\ \A k \in 1..Len(y) : y[k] = k
    <3>1. /\ y \in Seq(Nat) /\ 0 + Len(y) = accepted
          /\ \A k \in 1..Len(y) : y[k] = 0 + k
      BY <2>4, <2>5 DEF Counts
    <3> QED BY <3>1
  <2>7. PICK z : z = [i \in 1..accepted |-> i]
    OBVIOUS
  <2>8. z \in Seq(Nat) /\ Len(z) = accepted
    <3>1. z \in [1..accepted -> Nat]
      BY <2>7
    <3> QED BY <3>1, <1>1, FunctionIsSeq
  <2>9. y = z
    <3>1. \A k \in 1..Len(y) : y[k] = z[k]
      BY <2>6, <2>7
    <3> QED BY <3>1, <2>6, <2>8, SameElements
  <2> QED BY <2>5, <2>7, <2>9
<1> QED BY <1>4, <1>6, <1>7, Zenon DEF PipeStream

\* io.Pipe serves whom it can, forgets nobody who waits, and carries the bytes
\* written, in order, to those who read: class pipeState of gs/io/io.ts.
THEOREM PipeIsAStream == PipeSpec => []PipeAgrees
<1>1. PipeInit => PipeInv
  BY Begins, PipeBounds
<1>2. PipeInv /\ [PipeNext]_pipeVars => PipeInv'
  BY PipeInvKept, PipeBounds
<1>3. PipeInv => PipeAgrees
  BY InvTypes, InvServes, InvStream DEF PipeAgrees
<1> QED BY <1>1, <1>2, <1>3, PTL DEF PipeSpec

-----------------------------------------------------------------------------
(* Slices.  The code's variables and Go's have the same headers, and their  *)
(* arrays hold the same values.  The loop of append writes by rounds, and   *)
(* nothing is read after it was overwritten.                               *)

\* Two arrays hold the same: the code's may have holes where Go has zeros.
SameVals(v, w) ==
  /\ v \in Seq(Int) /\ w \in Seq(Int) /\ Len(v) = Len(w)
  /\ \A i \in 1..Len(v) : SameValue(v[i], w[i])

Array == [bytes : BOOLEAN, vals : Seq(Int)]
Header == [b : Nat, off : Nat, len : Nat, cap : Nat]

\* The two heaps have the same arrays at the same addresses.
SameHeap(hp, gp) ==
  /\ hp \in Seq(Array) /\ gp \in Seq(Array) /\ Len(hp) = Len(gp)
  /\ \A b \in 1..Len(hp) : SameVals(hp[b].vals, gp[b].vals)

\* A header is nil's or a window of an array.
Inside(h, hp) ==
  /\ h \in Header
  /\ h.b = 0 => h = NilSlice
  /\ h.b # 0 => h.b \in 1..Len(hp) /\ h.len <= h.cap /\ h.off + h.cap <= Len(hp[h.b].vals)

PointsInto(r, hp) ==
  /\ r \in [b : Nat, at : Nat]
  /\ r.b # 0 => r.b \in 1..Len(hp) /\ r.at \in 1..Len(hp[r.b].vals)

\* Both sides allocate at the same time, so headers and pointers are equal.
SliceInv ==
  /\ SameHeap(heap, goHeap)
  /\ hdr \in [Slots -> Header] /\ goHdr = hdr
  /\ \A s \in Slots : Inside(hdr[s], heap)
  /\ PointsInto(elemRef, heap) /\ goRef = elemRef
  /\ sliceOps \in 0..SliceOps

\* Arrays are added, none loses its length.
Extends(hp, np) ==
  /\ Len(hp) <= Len(np)
  /\ \A b \in 1..Len(hp) : Len(np[b].vals) = Len(hp[b].vals)

\* What an operation on the heap hp answers fits what Go answers.
Fits(hp, code, go) ==
  /\ SameHeap(code.heap, go.heap) /\ Extends(hp, code.heap)
  /\ code.hdr = go.hdr /\ Inside(code.hdr, code.heap)

LEMMA InsideStays ==
  ASSUME NEW hp \in Seq(Array), NEW np \in Seq(Array), Extends(hp, np), NEW h, Inside(h, hp)
  PROVE  Inside(h, np)
BY DEF Inside, Extends

LEMMA PointsStays ==
  ASSUME NEW hp \in Seq(Array), NEW np \in Seq(Array), Extends(hp, np), NEW r, PointsInto(r, hp)
  PROVE  PointsInto(r, np)
BY DEF PointsInto, Extends

\* A new array on both sides.
LEMMA FreshFits ==
  ASSUME NEW hp, NEW gp, SameHeap(hp, gp), NEW v, NEW w, SameVals(v, w),
         NEW x \in BOOLEAN, NEW y \in BOOLEAN, NEW n \in 0..Len(v)
  PROVE  Fits(hp, Fresh(hp, x, v, n), Fresh(gp, y, w, n))
<1> DEFINE c == Fresh(hp, x, v, n)
           d == Fresh(gp, y, w, n)
           a == [bytes |-> x, vals |-> v]
           e == [bytes |-> y, vals |-> w]
<1>1. a \in Array /\ e \in Array /\ a.vals = v /\ e.vals = w
  BY DEF Array, SameVals
<1>2. c.heap = Append(hp, a) /\ d.heap = Append(gp, e)
  BY DEF Fresh, Answer
<1>3. /\ c.hdr = [b |-> Len(hp) + 1, off |-> 0, len |-> n, cap |-> Len(v)]
      /\ d.hdr = [b |-> Len(gp) + 1, off |-> 0, len |-> n, cap |-> Len(w)]
  BY DEF Fresh, Answer
<1>4. /\ hp \in Seq(Array) /\ gp \in Seq(Array) /\ Len(hp) = Len(gp) /\ Len(hp) \in Nat
      /\ \A b \in 1..Len(hp) : SameVals(hp[b].vals, gp[b].vals)
  BY DEF SameHeap
<1>5. Len(v) = Len(w) /\ Len(v) \in Nat
  BY DEF SameVals
<1> HIDE DEF a, e, c, d
<1>6. /\ Append(hp, a) \in Seq(Array) /\ Len(Append(hp, a)) = Len(hp) + 1
      /\ Append(hp, a)[Len(hp) + 1] = a
      /\ \A b \in 1..Len(hp) : Append(hp, a)[b] = hp[b]
      /\ Append(gp, e) \in Seq(Array) /\ Len(Append(gp, e)) = Len(gp) + 1
      /\ Append(gp, e)[Len(gp) + 1] = e
      /\ \A b \in 1..Len(gp) : Append(gp, e)[b] = gp[b]
  BY <1>1, <1>4, SeqSteps
<1>7. SameHeap(c.heap, d.heap)
  <2>1. \A b \in 1..(Len(hp) + 1) : b \in 1..Len(hp) \/ b = Len(hp) + 1
    BY <1>4
  <2>2. \A b \in 1..(Len(hp) + 1) : SameVals(Append(hp, a)[b].vals, Append(gp, e)[b].vals)
    BY <2>1, <1>1, <1>4, <1>6
  <2> QED BY <2>2, <1>2, <1>4, <1>6 DEF SameHeap
<1>8. Extends(hp, c.heap)
  BY <1>2, <1>4, <1>6 DEF Extends
<1>9. Inside(c.hdr, c.heap)
  BY <1>1, <1>2, <1>3, <1>4, <1>5, <1>6 DEF Inside, Header
<1>10. c.hdr = d.hdr
  BY <1>3, <1>4, <1>5
<1>11. Fits(hp, c, d)
  BY <1>7, <1>8, <1>9, <1>10 DEF Fits
<1> QED BY <1>11 DEF c, d

\* np is hp with the first n of v written into array b, behind the first at.
Written(hp, np, b, at, v, n) ==
  /\ np \in Seq(Array) /\ Extends(hp, np) /\ Len(np) = Len(hp)
  /\ \A c \in 1..Len(hp) : \A i \in 1..Len(hp[c].vals) :
       np[c].vals[i] = IF c = b /\ i - at \in 1..n THEN v[i - at] ELSE hp[c].vals[i]

LEMMA StoreWrites ==
  ASSUME NEW hp \in Seq(Array), NEW b \in 1..Len(hp), NEW at \in Nat, NEW v \in Seq(Int)
  PROVE  Written(hp, Store(hp, b, at, v), b, at, v, Len(v))
<1>1. PICK a \in Array : a = hp[b]
  OBVIOUS
<1>2. PICK n \in Nat : n = Len(a.vals) /\ DOMAIN a.vals = 1..n /\ a.vals \in Seq(Int)
                       /\ \A i \in 1..n : a.vals[i] \in Int
  <2>1. PICK x \in Seq(Int) : x = a.vals
    BY DEF Array
  <2> QED BY <2>1
<1>3. DOMAIN v = 1..Len(v) /\ \A i \in DOMAIN v : v[i] \in Int
  OBVIOUS
<1> DEFINE av == [i \in 1..n |-> IF i - at \in DOMAIN v THEN v[i - at] ELSE a.vals[i]]
<1>4. av \in [1..n -> Int]
  BY <1>2, <1>3
<1>5. av \in Seq(Int) /\ Len(av) = n
  BY <1>4, FunctionIsSeq
<1>6. Store(hp, b, at, v) = [hp EXCEPT ![b] = [a EXCEPT !.vals = av]]
  BY <1>1, <1>2, Zenon DEF Store
<1>7. \A i \in 1..n : av[i] = IF i - at \in 1..Len(v) THEN v[i - at] ELSE a.vals[i]
  BY <1>3
<1> HIDE DEF av
<1>8. PICK x \in Array : x = [a EXCEPT !.vals = av] /\ x.vals = av
  <2>1. [a EXCEPT !.vals = av] \in Array /\ [a EXCEPT !.vals = av].vals = av
    BY <1>5 DEF Array
  <2> QED BY <2>1
<1>9. /\ [hp EXCEPT ![b] = x] \in Seq(Array) /\ Len([hp EXCEPT ![b] = x]) = Len(hp)
      /\ \A c \in 1..Len(hp) : [hp EXCEPT ![b] = x][c] = IF c = b THEN x ELSE hp[c]
  OBVIOUS
<1>10. Extends(hp, [hp EXCEPT ![b] = x])
  BY <1>1, <1>2, <1>5, <1>8, <1>9 DEF Extends
<1>11. ASSUME NEW c \in 1..Len(hp), NEW i \in 1..Len(hp[c].vals)
       PROVE  [hp EXCEPT ![b] = x][c].vals[i]
                = IF c = b /\ i - at \in 1..Len(v) THEN v[i - at] ELSE hp[c].vals[i]
  BY <1>1, <1>2, <1>7, <1>8, <1>9
<1> QED BY <1>6, <1>8, <1>9, <1>10, <1>11 DEF Written

\* Writing the same on both sides.
LEMMA WritesFit ==
  ASSUME NEW hp, NEW gp, SameHeap(hp, gp), NEW v, NEW w, SameVals(v, w),
         NEW b, NEW at \in Nat, NEW n \in 0..Len(v),
         NEW np, Written(hp, np, b, at, v, n), NEW mp, Written(gp, mp, b, at, w, n)
  PROVE  SameHeap(np, mp) /\ Extends(hp, np)
<1>1. /\ hp \in Seq(Array) /\ gp \in Seq(Array) /\ Len(hp) = Len(gp) /\ Len(hp) \in Nat
      /\ \A c \in 1..Len(hp) : SameVals(hp[c].vals, gp[c].vals)
  BY DEF SameHeap
<1>2. /\ np \in Seq(Array) /\ mp \in Seq(Array) /\ Len(np) = Len(hp) /\ Len(mp) = Len(hp)
      /\ \A c \in 1..Len(hp) : Len(np[c].vals) = Len(hp[c].vals) /\ Len(mp[c].vals) = Len(gp[c].vals)
  BY <1>1 DEF Written, Extends
<1>3. Len(v) \in Nat /\ \A i \in 1..n : SameValue(v[i], w[i])
  BY DEF SameVals
<1>4. ASSUME NEW c \in 1..Len(hp) PROVE SameVals(np[c].vals, mp[c].vals)
  <2>1. /\ Len(hp[c].vals) = Len(gp[c].vals)
        /\ \A i \in 1..Len(hp[c].vals) : SameValue(hp[c].vals[i], gp[c].vals[i])
    BY <1>1 DEF SameVals
  <2>2. np[c] \in Array /\ mp[c] \in Array
    BY <1>2
  <2>3. np[c].vals \in Seq(Int) /\ mp[c].vals \in Seq(Int)
    BY <2>2 DEF Array
  <2>4. ASSUME NEW i \in 1..Len(hp[c].vals) PROVE SameValue(np[c].vals[i], mp[c].vals[i])
    <3>1. np[c].vals[i] = IF c = b /\ i - at \in 1..n THEN v[i - at] ELSE hp[c].vals[i]
      BY DEF Written
    <3>2. mp[c].vals[i] = IF c = b /\ i - at \in 1..n THEN w[i - at] ELSE gp[c].vals[i]
      BY <1>1, <2>1 DEF Written
    <3> QED BY <1>3, <2>1, <3>1, <3>2
  <2> QED BY <1>2, <2>1, <2>3, <2>4 DEF SameVals
<1> QED BY <1>1, <1>2, <1>4 DEF SameHeap, Written

LEMMA StoreFits ==
  ASSUME NEW hp, NEW gp, SameHeap(hp, gp), NEW v, NEW w, SameVals(v, w),
         NEW b \in 1..Len(hp), NEW at \in Nat
  PROVE  /\ SameHeap(Store(hp, b, at, v), Store(gp, b, at, w))
         /\ Extends(hp, Store(hp, b, at, v))
<1>1. /\ v \in Seq(Int) /\ w \in Seq(Int) /\ Len(v) = Len(w) /\ Len(v) \in 0..Len(v)
      /\ hp \in Seq(Array) /\ gp \in Seq(Array) /\ b \in 1..Len(gp)
  BY DEF SameVals, SameHeap
<1>2. Written(hp, Store(hp, b, at, v), b, at, v, Len(v))
  BY <1>1, StoreWrites
<1>3. Written(gp, Store(gp, b, at, w), b, at, w, Len(v))
  BY <1>1, StoreWrites
<1> QED BY <1>1, <1>2, <1>3, WritesFit

\* What a slice holds is the same on both sides.
LEMMA ContentsFit ==
  ASSUME NEW hp, NEW gp, SameHeap(hp, gp), NEW h, Inside(h, hp)
  PROVE  /\ SameVals(Contents(hp, h), Contents(gp, h)) /\ Len(Contents(hp, h)) = h.len
         /\ h.b # 0 => \A i \in 1..h.len : /\ Contents(hp, h)[i] = hp[h.b].vals[h.off + i]
                                           /\ Contents(gp, h)[i] = gp[h.b].vals[h.off + i]
                                           /\ h.off + i \in 1..Len(hp[h.b].vals)
<1>1. CASE h.b = 0
  <2>1. Contents(hp, h) = <<>> /\ Contents(gp, h) = <<>> /\ h.len = 0
    BY <1>1 DEF Contents, Inside, NilSlice
  <2>2. SameVals(<<>>, <<>>)
    BY DEF SameVals
  <2> QED BY <1>1, <2>1, <2>2
<1>2. CASE h.b # 0
  <2>1. PICK v, w : v = hp[h.b].vals /\ w = gp[h.b].vals
    OBVIOUS
  <2>2. PICK o \in Nat, n \in Nat : o = h.off /\ n = h.len
    BY DEF Inside, Header
  <2>3. SameVals(v, w) /\ o + n <= Len(v)
    BY <1>2, <2>1, <2>2 DEF SameHeap, Inside, Header, SameVals
  <2>4. v \in Seq(Int) /\ w \in Seq(Int) /\ Len(v) = Len(w) /\ Len(v) \in Nat
        /\ \A i \in 1..Len(v) : SameValue(v[i], w[i])
    BY <2>3 DEF SameVals
  <2>5. /\ SubSeq(v, o + 1, o + n) \in Seq(Int) /\ Len(SubSeq(v, o + 1, o + n)) = n
        /\ SubSeq(w, o + 1, o + n) \in Seq(Int) /\ Len(SubSeq(w, o + 1, o + n)) = n
        /\ \A i \in 1..n : /\ SubSeq(v, o + 1, o + n)[i] = v[o + i]
                           /\ SubSeq(w, o + 1, o + n)[i] = w[o + i]
                           /\ o + i \in 1..Len(v)
    <3>1. /\ SubSeq(v, o + 1, o + n) \in Seq(Int) /\ Len(SubSeq(v, o + 1, o + n)) = n
          /\ \A i \in 1..n : SubSeq(v, o + 1, o + n)[i] = v[o + i]
      BY <2>3, <2>4, PartElements
    <3>2. o + n <= Len(w)
      BY <2>3, <2>4
    <3>3. /\ SubSeq(w, o + 1, o + n) \in Seq(Int) /\ Len(SubSeq(w, o + 1, o + n)) = n
          /\ \A i \in 1..n : SubSeq(w, o + 1, o + n)[i] = w[o + i]
      BY <2>4, <3>2, PartElements
    <3>4. \A i \in 1..n : o + i \in 1..Len(v)
      BY <2>3, <2>4
    <3> QED BY <3>1, <3>3, <3>4
  <2>6. SameVals(SubSeq(v, o + 1, o + n), SubSeq(w, o + 1, o + n))
    BY <2>4, <2>5 DEF SameVals
  <2> QED BY <1>2, <2>1, <2>2, <2>5, <2>6 DEF Contents
<1> QED BY <1>1, <1>2

-----------------------------------------------------------------------------
(* append(s, t...), element by element. *)

Copied(f, hp, h, e, m) ==
  f = [k \in 0..m |-> IF k = 0 THEN hp
                      ELSE LET p == f[k - 1]
                           IN Store(p, h.b, h.off + h.len + k - 1, <<p[e.b].vals[e.off + k]>>)]

LEMMA CopiedExists ==
  ASSUME NEW hp, NEW h, NEW e
  PROVE  \A m \in Nat : \E f : Copied(f, hp, h, e, m)
<1> DEFINE Next(k, p) == Store(p, h.b, h.off + h.len + k - 1, <<p[e.b].vals[e.off + k]>>)
           Missing == {m \in Nat : ~\E f : Copied(f, hp, h, e, m)}
<1>0. \A f, m : Copied(f, hp, h, e, m) <=> f = [k \in 0..m |-> IF k = 0 THEN hp ELSE Next(k, f[k - 1])]
  BY DEF Copied
<1> HIDE DEF Next
<1>1. ASSUME Missing # {} PROVE FALSE
  <2>1. PICK m \in Missing : \A k \in Missing : m <= k
    BY <1>1, NatMin
  <2>2. CASE m = 0
    <3> DEFINE h0 == [k \in 0..0 |-> hp]
    <3>1. h0 = [k \in 0..0 |-> IF k = 0 THEN hp ELSE Next(k, h0[k - 1])]
      OBVIOUS
    <3> QED BY <2>1, <2>2, <3>1, <1>0
  <2>3. CASE m # 0
    <3>1. m \in Nat /\ m - 1 \in Nat /\ ~(m <= m - 1)
      BY <2>1, <2>3
    <3>2. PICK f : Copied(f, hp, h, e, m - 1)
      BY <2>1, <3>1
    <3> DEFINE g == [k \in 0..m |-> IF k = m THEN Next(m, f[m - 1]) ELSE f[k]]
    <3>3. \A k \in 0..m : g[k] = IF k = 0 THEN hp ELSE Next(k, g[k - 1])
      <4> TAKE k \in 0..m
      <4>1. CASE k = m
        BY <4>1, <3>1
      <4>2. CASE k # m
        <5>1. k \in 0..(m - 1) /\ (k # 0 => k - 1 \in 0..m /\ k - 1 # m)
          BY <4>2, <3>1
        <5>2. f[k] = IF k = 0 THEN hp ELSE Next(k, f[k - 1])
          <6>1. f = [j \in 0..(m - 1) |-> IF j = 0 THEN hp ELSE Next(j, f[j - 1])]
            BY <3>2, <1>0
          <6> QED BY <5>1, <6>1
        <5>3. g[k] = f[k] /\ (k # 0 => g[k - 1] = f[k - 1])
          BY <4>2, <5>1
        <5> HIDE DEF g
        <5> QED BY <5>2, <5>3
      <4> QED BY <4>1, <4>2
    <3>4. g = [k \in 0..m |-> g[k]]
      OBVIOUS
    <3> HIDE DEF g
    <3>5. [k \in 0..m |-> g[k]] = [k \in 0..m |-> IF k = 0 THEN hp ELSE Next(k, g[k - 1])]
      BY <3>3
    <3>6. Copied(g, hp, h, e, m)
      BY <3>4, <3>5, <1>0
    <3> QED BY <2>1, <3>6
  <2> QED BY <2>2, <2>3
<1> QED BY <1>1

\* Nothing is read after it was overwritten: k rounds write the first k.
LEMMA CopiedWrites ==
  ASSUME NEW hp \in Seq(Array), NEW h, Inside(h, hp), h.b # 0, NEW e, Inside(e, hp), e.b # 0,
         ~SharesForward(h, e), NEW n \in Nat, n = e.len, h.len + n <= h.cap,
         NEW f, Copied(f, hp, h, e, n)
  PROVE  \A k \in 0..n : Written(hp, f[k], h.b, h.off + h.len, Contents(hp, e), k)
<1> DEFINE src == Contents(hp, e)
           Good(k) == Written(hp, f[k], h.b, h.off + h.len, src, k)
           Bad == {k \in 0..n : ~Good(k)}
<1>1. PICK at \in Nat : at = h.off + h.len
  BY DEF Inside, Header
<1>2. PICK o \in Nat : o = e.off
  BY DEF Inside, Header
<1>3. f[0] = hp /\ \A k \in 1..n : f[k] = Store(f[k - 1], h.b, at + k - 1, <<f[k - 1][e.b].vals[o + k]>>)
  <2>1. \A k \in 0..n : f[k] = IF k = 0 THEN hp
                      ELSE LET p == f[k - 1]
                           IN Store(p, h.b, h.off + h.len + k - 1, <<p[e.b].vals[e.off + k]>>)
    BY DEF Copied
  <2>2. \A k \in 1..n : k \in 0..n /\ k # 0
    OBVIOUS
  <2>3. f[0] = hp
    <3>1. 0 \in 0..n
      OBVIOUS
    <3>2. f[0] = IF 0 = 0 THEN hp
                 ELSE LET p == f[0 - 1]
                      IN Store(p, h.b, h.off + h.len + 0 - 1, <<p[e.b].vals[e.off + 0]>>)
      BY <2>1, <3>1, Zenon
    <3> QED BY <3>2
  <2>4. \A k \in 1..n : f[k] = Store(f[k - 1], h.b, h.off + h.len + k - 1, <<f[k - 1][e.b].vals[e.off + k]>>)
    BY <2>1, <2>2
  <2> QED BY <2>3, <2>4, <1>1, <1>2
<1>4. /\ h.b \in 1..Len(hp) /\ e.b \in 1..Len(hp) /\ Len(hp) \in Nat
      /\ \A i \in 1..n : src[i] = hp[e.b].vals[o + i] /\ o + i \in 1..Len(hp[e.b].vals)
  <2>1. hp[e.b] \in Array /\ e.b \in 1..Len(hp)
    BY DEF Inside
  <2>2. PICK v \in Seq(Int) : v = hp[e.b].vals /\ o + n <= Len(v)
    <3>1. PICK m \in Nat : m = e.cap /\ n <= m /\ o + m <= Len(hp[e.b].vals)
      BY <1>2 DEF Inside, Header
    <3>2. hp[e.b].vals \in Seq(Int)
      BY <2>1 DEF Array
    <3>3. PICK l \in Nat : l = Len(hp[e.b].vals)
      BY <3>2
    <3>4. n <= m /\ o + m <= l
      BY <3>1, <3>3
    <3>5. o + n <= l
      BY <3>4
    <3> QED BY <3>2, <3>3, <3>5
  <2>3. src = SubSeq(v, o + 1, o + n)
    BY <1>2, <2>2 DEF Contents
  <2>4. \A i \in 1..n : src[i] = v[o + i] /\ o + i \in 1..Len(v)
    <3>1. \A i \in 1..n : SubSeq(v, o + 1, o + n)[i] = v[o + i] /\ o + i \in 1..Len(v)
      <4>1. o + n <= Len(v)
        BY <2>2
      <4> QED BY <4>1, PartElements
    <3> HIDE DEF src
    <3> QED BY <2>3, <3>1
  <2>5. h.b \in 1..Len(hp) /\ Len(hp) \in Nat
    BY DEF Inside
  <2> HIDE DEF src
  <2> QED BY <2>1, <2>2, <2>4, <2>5
<1> HIDE DEF src
<1>5. Good(0)
  <2>1. Extends(hp, hp)
    BY <1>4 DEF Extends
  <2> QED BY <2>1, <1>3 DEF Written
<1>6. ASSUME NEW k \in 1..n, Good(k - 1) PROVE Good(k)
  <2>1. PICK p : p = f[k - 1]
    OBVIOUS
  <2>2. /\ p \in Seq(Array) /\ Extends(hp, p) /\ Len(p) = Len(hp)
        /\ \A c \in 1..Len(hp) : \A i \in 1..Len(hp[c].vals) :
             p[c].vals[i] = IF c = h.b /\ i - at \in 1..(k - 1) THEN src[i - at] ELSE hp[c].vals[i]
    BY <1>1, <1>6, <2>1 DEF Written
  <2>3. PICK x : x = src[k]
    OBVIOUS
  <2>4. p[e.b].vals[o + k] = x
    <3>1. e.b = h.b => ~(o + k - at \in 1..(k - 1))
      <4>1. e.b = h.b => ~(o < at /\ at < o + n)
        BY <1>1, <1>2 DEF SharesForward
      <4> QED BY <4>1
    <3>2. PICK c \in 1..Len(hp) : c = e.b
      BY <1>4
    <3>3. PICK i \in 1..Len(hp[c].vals) : i = o + k
      BY <1>4, <3>2
    <3>4. x = hp[c].vals[i]
      BY <1>4, <2>3, <3>2, <3>3
    <3>5. p[c].vals[i] = IF c = h.b /\ i - at \in 1..(k - 1) THEN src[i - at] ELSE hp[c].vals[i]
      BY <2>2
    <3> QED BY <3>1, <3>2, <3>3, <3>4, <3>5
  <2>5. x \in Int
    <3>1. hp[e.b] \in Array
      BY <1>4
    <3>2. PICK v \in Seq(Int) : v = hp[e.b].vals
      BY <3>1 DEF Array
    <3>3. o + k \in 1..Len(v) /\ x = v[o + k]
      BY <1>4, <2>3, <3>2
    <3> QED BY <3>3
  <2>6. PICK ak \in Nat : ak = at + k - 1
    OBVIOUS
  <2>7. <<x>> \in Seq(Int) /\ Len(<<x>>) = 1 /\ <<x>>[1] = x
    BY <2>5
  <2>8. Written(p, Store(p, h.b, ak, <<x>>), h.b, ak, <<x>>, 1)
    BY <1>4, <2>2, <2>7, StoreWrites
  <2>9. f[k] = Store(p, h.b, ak, <<x>>)
    BY <1>3, <2>1, <2>4, <2>6
  <2>10. /\ f[k] \in Seq(Array) /\ Extends(p, f[k]) /\ Len(f[k]) = Len(p)
         /\ \A c \in 1..Len(p) : \A i \in 1..Len(p[c].vals) :
              f[k][c].vals[i] = IF c = h.b /\ i - ak \in 1..1 THEN <<x>>[i - ak] ELSE p[c].vals[i]
    BY <2>8, <2>9 DEF Written
  <2>11. Extends(hp, f[k]) /\ \A c \in 1..Len(hp) : Len(p[c].vals) = Len(hp[c].vals)
    BY <2>2, <2>10 DEF Extends
  <2>12. ASSUME NEW c \in 1..Len(hp), NEW i \in 1..Len(hp[c].vals)
         PROVE  f[k][c].vals[i] = IF c = h.b /\ i - at \in 1..k THEN src[i - at] ELSE hp[c].vals[i]
    <3>1. f[k][c].vals[i] = IF c = h.b /\ i - ak \in 1..1 THEN <<x>>[i - ak] ELSE p[c].vals[i]
      BY <2>2, <2>10, <2>11
    <3>2. p[c].vals[i] = IF c = h.b /\ i - at \in 1..(k - 1) THEN src[i - at] ELSE hp[c].vals[i]
      BY <2>2
    <3>0. i \in Int
      <4>1. hp[c] \in Array
        OBVIOUS
      <4>2. hp[c].vals \in Seq(Int)
        BY <4>1 DEF Array
      <4> QED BY <4>2
    <3>3. CASE i - ak \in 1..1
      <4>1. i - ak = 1 /\ i - at = k
        BY <3>0, <3>3, <2>6
      <4>2. i - at \in 1..k /\ ~(i - at \in 1..(k - 1))
        BY <4>1
      <4> QED BY <3>1, <3>2, <3>3, <4>1, <4>2, <2>3, <2>7
    <3>4. CASE ~(i - ak \in 1..1)
      <4>1. i - at \in 1..k <=> i - at \in 1..(k - 1)
        BY <3>0, <3>4, <2>6
      <4> QED BY <3>1, <3>2, <3>4, <4>1
    <3> QED BY <3>3, <3>4
  <2> QED BY <1>1, <2>2, <2>10, <2>11, <2>12 DEF Written
<1>7. ASSUME Bad # {} PROVE FALSE
  <2>1. PICK k \in Bad : \A j \in Bad : k <= j
    <3>1. Bad \subseteq Nat
      OBVIOUS
    <3> QED BY <1>7, <3>1, NatMin
  <2>2. k # 0
    BY <2>1, <1>5
  <2>3. k \in 1..n /\ k - 1 \in 0..n /\ ~(k <= k - 1)
    BY <2>1, <2>2
  <2>4. Good(k - 1)
    BY <2>1, <2>3
  <2> QED BY <1>6, <2>1, <2>3, <2>4
<1> QED BY <1>7 DEF src

-----------------------------------------------------------------------------
(* What is stored. *)

LEMMA SameFills ==
  ASSUME NEW n \in Nat
  PROVE  /\ SameVals(Fill(n, Hole), Fill(n, Zero)) /\ SameVals(Fill(n, Zero), Fill(n, Zero))
         /\ Len(Fill(n, Hole)) = n /\ Len(Fill(n, Zero)) = n
<1>1. Fill(n, Hole) \in [1..n -> Int] /\ Fill(n, Zero) \in [1..n -> Int]
  BY DEF Fill, Hole, Zero
<1>2. /\ Fill(n, Hole) \in Seq(Int) /\ Len(Fill(n, Hole)) = n
      /\ Fill(n, Zero) \in Seq(Int) /\ Len(Fill(n, Zero)) = n
  BY <1>1, FunctionIsSeq
<1>3. \A i \in 1..n : Fill(n, Hole)[i] = Hole /\ Fill(n, Zero)[i] = Zero
  BY DEF Fill
<1> QED BY <1>2, <1>3 DEF SameVals, SameValue

LEMMA NoneJoined ==
  ASSUME NEW v \in Seq(Int), NEW w \in Seq(Int)
  PROVE  v \o w = v \o w \o Fill(0, Zero)
<1>1. PICK x \in Seq(Int) : x = v \o w
  BY ConcatParts
<1>2. Fill(0, Zero) = <<>>
  BY SameFills DEF SameVals
<1>3. x \o <<>> = x
  OBVIOUS
<1> QED BY <1>1, <1>2, <1>3

LEMMA SameSelf ==
  ASSUME NEW v \in Seq(Int)
  PROVE  SameVals(v, v)
BY DEF SameVals, SameValue

LEMMA SameJoined ==
  ASSUME NEW v, NEW w, SameVals(v, w), NEW x, NEW y, SameVals(x, y)
  PROVE  SameVals(v \o x, w \o y) /\ Len(v \o x) = Len(v) + Len(x)
<1>1. /\ v \in Seq(Int) /\ w \in Seq(Int) /\ x \in Seq(Int) /\ y \in Seq(Int)
      /\ Len(v) = Len(w) /\ Len(x) = Len(y)
      /\ \A i \in 1..Len(v) : SameValue(v[i], w[i])
      /\ \A i \in 1..Len(x) : SameValue(x[i], y[i])
  BY DEF SameVals
<1>2. PICK n \in Nat, m \in Nat : n = Len(v) /\ m = Len(x) /\ n = Len(w) /\ m = Len(y)
  BY <1>1
<1>3. /\ v \o x \in Seq(Int) /\ Len(v \o x) = n + m
      /\ \A k \in 1..n : (v \o x)[k] = v[k]
      /\ \A k \in (n + 1)..(n + m) : (v \o x)[k] = x[k - n]
  <2>1. /\ v \o x \in Seq(Int) /\ Len(v \o x) = Len(v) + Len(x)
        /\ \A k \in 1..Len(v) : (v \o x)[k] = v[k]
        /\ \A k \in (Len(v) + 1)..(Len(v) + Len(x)) : (v \o x)[k] = x[k - Len(v)]
    BY <1>1, ConcatParts, ZenonT(30)
  <2> QED BY <1>2, <2>1
<1>4. /\ w \o y \in Seq(Int) /\ Len(w \o y) = n + m
      /\ \A k \in 1..n : (w \o y)[k] = w[k]
      /\ \A k \in (n + 1)..(n + m) : (w \o y)[k] = y[k - n]
  <2>1. /\ w \o y \in Seq(Int) /\ Len(w \o y) = Len(w) + Len(y)
        /\ \A k \in 1..Len(w) : (w \o y)[k] = w[k]
        /\ \A k \in (Len(w) + 1)..(Len(w) + Len(y)) : (w \o y)[k] = y[k - Len(w)]
    BY <1>1, ConcatParts, ZenonT(30)
  <2> QED BY <1>2, <2>1
<1>5. ASSUME NEW k \in 1..(n + m) PROVE SameValue((v \o x)[k], (w \o y)[k])
  <2>1. CASE k \in 1..n
    BY <2>1, <1>1, <1>2, <1>3, <1>4
  <2>2. CASE k \in (n + 1)..(n + m)
    <3>1. k - n \in 1..m
      BY <2>2
    <3> QED BY <2>2, <3>1, <1>1, <1>2, <1>3, <1>4
  <2>3. k \in 1..n \/ k \in (n + 1)..(n + m)
    OBVIOUS
  <2> QED BY <2>1, <2>2, <2>3
<1> QED BY <1>2, <1>3, <1>4, <1>5 DEF SameVals

LEMMA SameStart ==
  ASSUME NEW v, NEW w, SameVals(v, w), NEW n \in 0..Len(v)
  PROVE  SameVals(SubSeq(v, 1, n), SubSeq(w, 1, n)) /\ Len(SubSeq(v, 1, n)) = n
<1>1. /\ v \in Seq(Int) /\ w \in Seq(Int) /\ Len(v) = Len(w) /\ Len(v) \in Nat
      /\ \A i \in 1..Len(v) : SameValue(v[i], w[i])
  BY DEF SameVals
<1>2. n \in Nat /\ n <= Len(v)
  BY <1>1
<1>3. /\ SubSeq(v, 1, n) \in Seq(Int) /\ Len(SubSeq(v, 1, n)) = n
      /\ SubSeq(w, 1, n) \in Seq(Int) /\ Len(SubSeq(w, 1, n)) = n
      /\ \A i \in 1..n : /\ i \in 1..Len(v)
                         /\ SubSeq(v, 1, n)[i] = v[i] /\ SubSeq(w, 1, n)[i] = w[i]
  BY <1>1, <1>2
<1> QED BY <1>1, <1>3 DEF SameVals

-----------------------------------------------------------------------------
(* The operations fit what Go prescribes. *)

\* A new array that holds a slice, new elements, and perhaps room for more.
LEMMA GrowsFit ==
  ASSUME NEW hp, NEW gp, SameHeap(hp, gp), NEW h, Inside(h, hp),
         NEW x, NEW y, SameVals(x, y), NEW n \in Nat, NEW r, SameVals(r, Fill(n, Zero)),
         NEW isBytes \in BOOLEAN,
         NEW c, c = Fresh(hp, isBytes, Contents(hp, h) \o x \o r, h.len + Len(x)),
         NEW g, g = GoAppend(gp, h, y, TRUE, c.hdr.cap)
  PROVE  Fits(hp, c, g)
<1> DEFINE v == Contents(hp, h) \o x \o r
           w == Contents(gp, h) \o y \o Fill(n, Zero)
<1>1. SameVals(Contents(hp, h), Contents(gp, h)) /\ Len(Contents(hp, h)) = h.len
  BY ContentsFit
<1>2. /\ SameVals(Contents(hp, h) \o x, Contents(gp, h) \o y)
      /\ Len(Contents(hp, h) \o x) = h.len + Len(x)
  BY <1>1, SameJoined
<1>3. SameVals(v, w) /\ Len(v) = h.len + Len(x) + Len(r)
  BY <1>2, SameJoined
<1>4. h.len \in Nat /\ Len(x) \in Nat /\ Len(y) = Len(x) /\ Len(r) = n
  BY SameFills DEF SameVals, Inside, Header
<1> HIDE DEF v, w
<1>5. c = Fresh(hp, isBytes, v, h.len + Len(x)) /\ c.hdr.cap = Len(v)
  BY DEF Fresh, Answer, v
<1>6. c.hdr.cap - h.len - Len(y) = n
  <2>1. PICK a \in Nat, b \in Nat : a = h.len /\ b = Len(x)
    BY <1>4
  <2>2. c.hdr.cap = a + b + n /\ Len(y) = b
    BY <2>1, <1>3, <1>4, <1>5
  <2> QED BY <2>1, <2>2
<1>7. g = Fresh(gp, FALSE, w, h.len + Len(x))
  BY <1>4, <1>6 DEF GoAppend, w
<1>8. h.len + Len(x) \in 0..Len(v)
  BY <1>3, <1>4
<1>9. PICK m \in 0..Len(v) : m = h.len + Len(x)
  BY <1>8
<1>10. c = Fresh(hp, isBytes, v, m) /\ g = Fresh(gp, FALSE, w, m)
  BY <1>5, <1>7, <1>9
<1>11. Fits(hp, Fresh(hp, isBytes, v, m), Fresh(gp, FALSE, w, m))
  <2>1. SameVals(v, w) /\ FALSE \in BOOLEAN
    BY <1>3
  <2> QED BY <2>1, FreshFits
<1> QED BY <1>10, <1>11

\* New elements in place.
LEMMA InPlaceFits ==
  ASSUME NEW hp, NEW gp, SameHeap(hp, gp), NEW h, Inside(h, hp), h.b # 0,
         NEW x, NEW y, SameVals(x, y), h.len + Len(x) <= h.cap, NEW cap,
         NEW np, SameHeap(np, Store(gp, h.b, h.off + h.len, y)), Extends(hp, np),
         NEW c, c = Answer(np, [h EXCEPT !.len = @ + Len(x)]),
         NEW g, g = GoAppend(gp, h, y, FALSE, cap)
  PROVE  Fits(hp, c, g)
<1>1. Len(x) \in Nat /\ Len(x) = Len(y)
  BY DEF SameVals
<1>2. /\ c.heap = np /\ c.hdr = [h EXCEPT !.len = @ + Len(x)]
      /\ g.heap = Store(gp, h.b, h.off + h.len, y) /\ g.hdr = [h EXCEPT !.len = @ + Len(y)]
  BY DEF Answer, GoAppend
<1>3. PICK k \in Nat : k = h.len + Len(x) /\ c.hdr = [h EXCEPT !.len = k]
  <2>1. h.len \in Nat
    BY DEF Inside, Header
  <2>2. h.len + Len(x) \in Nat
    BY <1>1, <2>1
  <2> QED BY <1>2, <2>2
<1>4. /\ [h EXCEPT !.len = k] \in Header /\ [h EXCEPT !.len = k].b = h.b
      /\ [h EXCEPT !.len = k].off = h.off /\ [h EXCEPT !.len = k].cap = h.cap
      /\ [h EXCEPT !.len = k].len = k
  BY DEF Inside, Header
<1>5. Inside(h, np)
  BY InsideStays DEF SameHeap
<1>6. Inside(c.hdr, np)
  BY <1>3, <1>4, <1>5 DEF Inside
<1> QED BY <1>1, <1>2, <1>6 DEF Fits

LEMMA InvFields ==
  ASSUME SliceInv, NEW t \in Slots
  PROVE  /\ SameHeap(heap, goHeap) /\ heap \in Seq(Array) /\ goHeap \in Seq(Array)
         /\ Inside(hdr[t], heap) /\ goHdr[t] = hdr[t]
         /\ hdr[t] \in Header /\ hdr[t].off \in Nat /\ hdr[t].len \in Nat /\ hdr[t].cap \in Nat
         /\ hdr[t].len <= hdr[t].cap
         /\ hdr[t].b # 0 => hdr[t].b \in 1..Len(heap)
<1>1. /\ SameHeap(heap, goHeap) /\ heap \in Seq(Array) /\ goHeap \in Seq(Array)
      /\ Inside(hdr[t], heap) /\ goHdr[t] = hdr[t]
  BY DEF SliceInv, SameHeap
<1> QED BY <1>1 DEF Inside, Header, NilSlice

\* append of one element.
LEMMA AppendFits ==
  ASSUME SliceInv, NEW t \in Slots, NEW x \in Int,
         NEW code, code = AppendElements(heap, hdr[t], <<x>>)
  PROVE  Fits(heap, code, GoAppend(goHeap, goHdr[t], <<x>>, goHdr[t].len = goHdr[t].cap, code.hdr.cap))
<1> DEFINE h == hdr[t]
           xs == <<x>>
<1>1. /\ SameHeap(heap, goHeap) /\ Inside(h, heap) /\ goHdr[t] = h
      /\ h.off \in Nat /\ h.len \in Nat /\ h.cap \in Nat /\ h.len <= h.cap
      /\ h.b # 0 => h.b \in 1..Len(heap)
  BY InvFields
<1>2. xs \in Seq(Int) /\ Len(xs) = 1 /\ SameVals(xs, xs)
  <2>1. xs \in Seq(Int) /\ Len(xs) = 1
    OBVIOUS
  <2> QED BY <2>1, SameSelf
<1> HIDE DEF h, xs
<1>3. CASE h.len # h.cap
  <2>1. h.b # 0 /\ h.len + Len(xs) <= h.cap
    BY <1>1, <1>2, <1>3 DEF Inside, NilSlice
  <2>2. code = Answer(Store(heap, h.b, h.off + h.len, xs), [h EXCEPT !.len = @ + Len(xs)])
    BY <2>1 DEF AppendElements, AppendByteSlice, h, xs
  <2>3. PICK at \in Nat : at = h.off + h.len
    BY <1>1
  <2>4. /\ SameHeap(Store(heap, h.b, at, xs), Store(goHeap, h.b, at, xs))
        /\ Extends(heap, Store(heap, h.b, at, xs))
    BY <1>1, <1>2, <2>1, StoreFits
  <2>5. Fits(heap, code, GoAppend(goHeap, h, xs, FALSE, code.hdr.cap))
    BY <1>1, <1>2, <2>1, <2>2, <2>3, <2>4, InPlaceFits
  <2> QED BY <1>1, <1>3, <2>5 DEF h, xs
<1>4. CASE h.len = h.cap
  <2>1. ~(h.len + Len(xs) <= h.cap)
    BY <1>1, <1>2, <1>4
  <2>2. CASE h.b # 0 /\ heap[h.b].bytes
    <3>1. code = Fresh(heap, TRUE, Contents(heap, h) \o xs, h.len + Len(xs))
      BY <2>1, <2>2 DEF AppendElements, AppendByteSlice, h, xs
    <3>2. Contents(heap, h) \o xs = Contents(heap, h) \o xs \o Fill(0, Zero)
      <4>1. Contents(heap, h) \in Seq(Int)
        BY <1>1, ContentsFit DEF SameVals
      <4> QED BY <4>1, <1>2, NoneJoined
    <3>3. code = Fresh(heap, TRUE, Contents(heap, h) \o xs \o Fill(0, Zero), h.len + Len(xs))
      BY <3>1, <3>2
    <3>4. SameVals(Fill(0, Zero), Fill(0, Zero)) /\ 0 \in Nat /\ TRUE \in BOOLEAN
      BY SameFills
    <3>5. Fits(heap, code, GoAppend(goHeap, h, xs, TRUE, code.hdr.cap))
      BY <1>1, <1>2, <3>3, <3>4, GrowsFit
    <3> QED BY <1>1, <1>4, <3>5 DEF h, xs
  <2>3. CASE ~(h.b # 0 /\ heap[h.b].bytes)
    <3> DEFINE newLen == h.len + Len(xs)
               newCap == IF h.cap = 0 THEN newLen ELSE Most(2 * h.cap, newLen)
    <3>1. PICK n \in Nat : n = newCap - newLen
      BY <1>1, <1>2 DEF Most
    <3>2. code = Fresh(heap, FALSE, Contents(heap, h) \o xs \o Fill(n, Hole), h.len + Len(xs))
      BY <2>1, <2>3, <3>1 DEF AppendElements, h, xs
    <3>3. SameVals(Fill(n, Hole), Fill(n, Zero)) /\ FALSE \in BOOLEAN
      BY SameFills
    <3>4. Fits(heap, code, GoAppend(goHeap, h, xs, TRUE, code.hdr.cap))
      BY <1>1, <1>2, <3>2, <3>3, GrowsFit
    <3> QED BY <1>1, <1>4, <3>4 DEF h, xs
  <2> QED BY <2>2, <2>3
<1> QED BY <1>3, <1>4

\* append of a slice that is not read where it was overwritten.
LEMMA SpreadFits ==
  ASSUME SliceInv, NEW t \in Slots, NEW u \in Slots, ~SharesForward(hdr[t], hdr[u]),
         NEW code, code = AppendSlice(heap, hdr[t], hdr[u]),
         NEW xs, xs = Contents(goHeap, goHdr[u])
  PROVE  Fits(heap, code, IF xs = <<>> THEN Answer(goHeap, goHdr[t])
                          ELSE GoAppend(goHeap, goHdr[t], xs, goHdr[t].len + Len(xs) > goHdr[t].cap,
                                        code.hdr.cap))
<1> DEFINE h == hdr[t]
           e == hdr[u]
           ys == Contents(heap, e)
<1>1. /\ SameHeap(heap, goHeap) /\ Inside(h, heap) /\ goHdr[t] = h
      /\ heap \in Seq(Array) /\ goHeap \in Seq(Array)
      /\ h.off \in Nat /\ h.len \in Nat /\ h.cap \in Nat /\ h.len <= h.cap
      /\ h.b # 0 => h.b \in 1..Len(heap)
  BY InvFields
<1>2. Inside(e, heap) /\ goHdr[u] = e /\ e.len \in Nat
  BY InvFields
<1>3. SameVals(ys, xs) /\ Len(ys) = e.len /\ Len(xs) = e.len /\ xs \in Seq(Int) /\ ys \in Seq(Int)
  <2>1. SameVals(ys, xs) /\ Len(ys) = e.len
    BY <1>1, <1>2, ContentsFit
  <2> QED BY <2>1 DEF SameVals
<1> HIDE DEF h, e, ys
<1>4. xs = <<>> <=> e.len = 0
  BY <1>3
<1>5. CASE e.len = 0
  <2>1. code = Answer(heap, h)
    BY <1>5 DEF AppendSlice, h, e
  <2>2. Extends(heap, heap)
    BY <1>1 DEF Extends
  <2> QED BY <1>1, <1>4, <1>5, <2>1, <2>2 DEF Fits, Answer
<1>6. CASE e.len # 0 /\ h.len + e.len > h.cap
  <2>1. ~(h.len + e.len <= h.cap)
    BY <1>1, <1>2, <1>6
  <2>2. PICK isBytes \in BOOLEAN :
          code = Fresh(heap, isBytes, Contents(heap, h) \o ys, h.len + e.len)
    <3>1. CASE h.b # 0 /\ heap[h.b].bytes
      <4>1. code = Fresh(heap, TRUE, Contents(heap, h) \o ys, h.len + e.len)
        BY <1>3, <1>6, <2>1, <3>1 DEF AppendSlice, AppendByteSlice, h, e, ys
      <4> QED BY <4>1
    <3>2. CASE ~(h.b # 0 /\ heap[h.b].bytes)
      <4>1. code = Fresh(heap, FALSE, Contents(heap, h) \o ys, h.len + e.len)
        BY <1>6, <3>2 DEF AppendSlice, h, e, ys
      <4> QED BY <4>1
    <3> QED BY <3>1, <3>2
  <2>3. Contents(heap, h) \o ys = Contents(heap, h) \o ys \o Fill(0, Zero)
    <3>1. Contents(heap, h) \in Seq(Int)
      BY <1>1, ContentsFit DEF SameVals
    <3> QED BY <3>1, <1>3, NoneJoined
  <2>4. code = Fresh(heap, isBytes, Contents(heap, h) \o ys \o Fill(0, Zero), h.len + Len(ys))
    BY <1>3, <2>2, <2>3
  <2>5. SameVals(Fill(0, Zero), Fill(0, Zero)) /\ 0 \in Nat
    BY SameFills
  <2>6. Fits(heap, code, GoAppend(goHeap, h, xs, TRUE, code.hdr.cap))
    BY <1>1, <1>3, <2>4, <2>5, GrowsFit
  <2> QED BY <1>1, <1>3, <1>4, <1>6, <2>6
<1>7. CASE e.len # 0 /\ h.len + e.len <= h.cap
  <2>1. h.b # 0 /\ e.b # 0
    BY <1>1, <1>2, <1>7 DEF Inside, NilSlice
  <2>2. PICK at \in Nat : at = h.off + h.len
    BY <1>1
  <2>3. PICK np : /\ code = Answer(np, [h EXCEPT !.len = @ + Len(ys)])
                  /\ SameHeap(np, Store(goHeap, h.b, at, xs)) /\ Extends(heap, np)
    <3>1. CASE heap[h.b].bytes
      <4>1. code = Answer(Store(heap, h.b, at, ys), [h EXCEPT !.len = @ + Len(ys)])
        BY <1>3, <1>7, <2>1, <2>2, <3>1 DEF AppendSlice, AppendByteSlice, h, e, ys
      <4>2. /\ SameHeap(Store(heap, h.b, at, ys), Store(goHeap, h.b, at, xs))
            /\ Extends(heap, Store(heap, h.b, at, ys))
        BY <1>1, <1>3, <2>1, StoreFits
      <4> QED BY <4>1, <4>2
    <3>2. CASE ~heap[h.b].bytes
      <4> DEFINE after == CHOOSE f : Copied(f, heap, h, e, e.len)
      <4>1. Copied(after, heap, h, e, e.len)
        <5>1. \E f : Copied(f, heap, h, e, e.len)
          BY <1>2, CopiedExists
        <5> QED BY <5>1, Zenon
      <4>2. code = Answer(after[e.len], [h EXCEPT !.len = h.len + e.len])
        <5>1. ~(h.len + e.len > h.cap)
          BY <1>1, <1>2, <1>7
        <5> QED BY <1>7, <3>2, <5>1, Zenon DEF AppendSlice, Copied, h, e
      <4> HIDE DEF after
      <4>3. PICK n \in Nat : n = e.len
        BY <1>2
      <4>4. Written(heap, after[n], h.b, at, ys, n)
        <5>1. ~SharesForward(h, e)
          BY DEF h, e
        <5>2. \A k \in 0..n : Written(heap, after[k], h.b, h.off + h.len, Contents(heap, e), k)
          BY <1>1, <1>2, <1>7, <2>1, <4>1, <4>3, <5>1, CopiedWrites
        <5> QED BY <2>2, <4>3, <5>2 DEF ys
      <4>5. Written(goHeap, Store(goHeap, h.b, at, xs), h.b, at, xs, n)
        <5>1. h.b \in 1..Len(goHeap)
          BY <1>1, <2>1 DEF SameHeap
        <5> QED BY <1>1, <1>3, <4>3, <5>1, StoreWrites
      <4>6. SameHeap(after[n], Store(goHeap, h.b, at, xs)) /\ Extends(heap, after[n])
        <5>1. n \in 0..Len(ys)
          BY <1>3, <4>3
        <5> QED BY <1>1, <1>3, <4>4, <4>5, <5>1, WritesFit
      <4> QED BY <1>3, <4>2, <4>3, <4>6
    <3> QED BY <3>1, <3>2
  <2>4. h.len + Len(ys) <= h.cap /\ ~(h.len + Len(xs) > h.cap)
    BY <1>1, <1>2, <1>3, <1>7
  <2>5. Fits(heap, code, GoAppend(goHeap, h, xs, FALSE, code.hdr.cap))
    BY <1>1, <1>3, <2>1, <2>2, <2>3, <2>4, InPlaceFits
  <2>6. xs # <<>> /\ goHdr[t] = h
    BY <1>1, <1>4, <1>7
  <2>7. (goHdr[t].len + Len(xs) > goHdr[t].cap) = FALSE
    BY <2>4, <2>6
  <2> QED BY <2>5, <2>6, <2>7, Zenon
<1>8. h.len + e.len > h.cap \/ h.len + e.len <= h.cap
  BY <1>1, <1>2
<1> QED BY <1>5, <1>6, <1>7, <1>8

-----------------------------------------------------------------------------
(* The steps. *)

\* A step that takes an answer into a slot.
LEMMA BothKeeps ==
  ASSUME SliceInv, NEW s \in Slots, NEW code, NEW go, Fits(heap, code, go), Both(s, code, go),
         sliceOps' \in 0..SliceOps
  PROVE  SliceInv'
<1>1. /\ heap' = code.heap /\ hdr' = [hdr EXCEPT ![s] = code.hdr]
      /\ goHeap' = go.heap /\ goHdr' = [hdr EXCEPT ![s] = code.hdr]
      /\ elemRef' = elemRef /\ goRef' = elemRef
  BY DEF Both, Take, Fits, SliceInv
<1>2. /\ SameHeap(heap', goHeap') /\ Extends(heap, heap') /\ Inside(code.hdr, heap')
      /\ heap \in Seq(Array) /\ heap' \in Seq(Array)
  BY <1>1 DEF Fits, SliceInv, SameHeap
<1>3. hdr \in [Slots -> Header] /\ \A t \in Slots : Inside(hdr[t], heap)
  BY DEF SliceInv
<1>4. hdr' \in [Slots -> Header] /\ \A t \in Slots : hdr'[t] = IF t = s THEN code.hdr ELSE hdr[t]
  <2>1. code.hdr \in Header
    BY <1>2 DEF Inside
  <2> QED BY <2>1, <1>1, <1>3
<1>5. \A t \in Slots : Inside(hdr'[t], heap')
  <2> TAKE t \in Slots
  <2>1. Inside(hdr[t], heap')
    BY <1>2, <1>3, InsideStays
  <2> QED BY <2>1, <1>2, <1>4
<1>6. PointsInto(elemRef', heap')
  <2>1. PointsInto(elemRef, heap')
    BY <1>2, PointsStays DEF SliceInv
  <2> QED BY <2>1, <1>1
<1> QED BY <1>1, <1>2, <1>4, <1>5, <1>6 DEF SliceInv

\* A step that writes into the same places.
LEMMA WriteStepKeeps ==
  ASSUME SliceInv, SameHeap(heap', goHeap'), Extends(heap, heap'),
         UNCHANGED <<hdr, goHdr, elemRef, goRef>>, sliceOps' \in 0..SliceOps
  PROVE  SliceInv'
<1>1. heap \in Seq(Array) /\ heap' \in Seq(Array)
  BY DEF SliceInv, SameHeap
<1>2. \A t \in Slots : Inside(hdr[t], heap')
  BY <1>1, InsideStays DEF SliceInv
<1>3. PointsInto(elemRef, heap')
  BY <1>1, PointsStays DEF SliceInv
<1> QED BY <1>2, <1>3 DEF SliceInv

LEMMA MakeKeeps ==
  ASSUME SliceInv, NEW s \in Slots, Make(s), sliceOps' \in 0..SliceOps
  PROVE  SliceInv'
<1>1. PICK cap \in 0..SliceRoom, isBytes \in BOOLEAN : \E len \in 0..cap :
        Both(s, MakeSlice(heap, isBytes, len, cap), Fresh(goHeap, FALSE, Fill(cap, Zero), len))
  BY DEF Make
<1>2. PICK len \in 0..cap :
        Both(s, MakeSlice(heap, isBytes, len, cap), Fresh(goHeap, FALSE, Fill(cap, Zero), len))
  BY <1>1
<1>3. cap \in Nat
  BY SliceBounds
<1>4. SameVals(Fill(cap, Zero), Fill(cap, Zero)) /\ len \in 0..Len(Fill(cap, Zero)) /\ FALSE \in BOOLEAN
  BY <1>3, SameFills
<1>5. Fits(heap, Fresh(heap, isBytes, Fill(cap, Zero), len), Fresh(goHeap, FALSE, Fill(cap, Zero), len))
  BY <1>4, FreshFits DEF SliceInv
<1> QED BY <1>2, <1>5, BothKeeps DEF MakeSlice

LEMMA LiteralKeeps ==
  ASSUME SliceInv, NEW s \in Slots, Literal(s), sliceOps' \in 0..SliceOps
  PROVE  SliceInv'
<1> DEFINE xs == [i \in 1..SliceRoom |-> SliceOps + i]
<1>1. xs \in [1..SliceRoom -> Int] /\ SliceRoom \in Nat
  BY SliceBounds
<1>2. xs \in Seq(Int) /\ Len(xs) = SliceRoom
  BY <1>1, FunctionIsSeq
<1>3. Both(s, ArrayToSlice(heap, xs), Fresh(goHeap, FALSE, xs, SliceRoom))
  BY DEF Literal
<1> HIDE DEF xs
<1>4. SameVals(xs, xs) /\ SliceRoom \in 0..Len(xs) /\ FALSE \in BOOLEAN
  BY <1>1, <1>2, SameSelf
<1>5. Fits(heap, Fresh(heap, FALSE, xs, SliceRoom), Fresh(goHeap, FALSE, xs, SliceRoom))
  BY <1>4, FreshFits DEF SliceInv
<1>6. ArrayToSlice(heap, xs) = Fresh(heap, FALSE, xs, SliceRoom)
  BY <1>2 DEF ArrayToSlice
<1> QED BY <1>3, <1>5, <1>6, BothKeeps

LEMMA ResliceKeeps ==
  ASSUME SliceInv, NEW s \in Slots, NEW t \in Slots, Reslice(s, t), sliceOps' \in 0..SliceOps
  PROVE  SliceInv'
<1>1. PICK h : h = hdr[t]
  OBVIOUS
<1>2. /\ Inside(h, heap) /\ goHdr[t] = h /\ h \in Header /\ SameHeap(heap, goHeap)
      /\ heap \in Seq(Array) /\ h.b \in Nat /\ h.off \in Nat /\ h.len \in Nat /\ h.cap \in Nat
  BY <1>1, InvFields DEF Header
<1>3. PICK low \in 0..h.cap : \E high \in low..h.cap : \E max \in {high, h.cap}, given \in BOOLEAN :
        /\ given \/ max = h.cap
        /\ Both(s, Answer(heap, GoSlice(h, low, high, max, given)),
                Answer(goHeap, IF h.b = 0 THEN NilSlice
                               ELSE [b |-> h.b, off |-> h.off + low, len |-> high - low, cap |-> max - low]))
  BY <1>1, <1>2 DEF Reslice
<1>4. PICK high \in low..h.cap : \E max \in {high, h.cap}, given \in BOOLEAN :
        /\ given \/ max = h.cap
        /\ Both(s, Answer(heap, GoSlice(h, low, high, max, given)),
                Answer(goHeap, IF h.b = 0 THEN NilSlice
                               ELSE [b |-> h.b, off |-> h.off + low, len |-> high - low, cap |-> max - low]))
  BY <1>3
<1>5. PICK max \in {high, h.cap}, given \in BOOLEAN :
        /\ given \/ max = h.cap
        /\ Both(s, Answer(heap, GoSlice(h, low, high, max, given)),
                Answer(goHeap, IF h.b = 0 THEN NilSlice
                               ELSE [b |-> h.b, off |-> h.off + low, len |-> high - low, cap |-> max - low]))
  BY <1>4
<1> DEFINE go == IF h.b = 0 THEN NilSlice
                 ELSE [b |-> h.b, off |-> h.off + low, len |-> high - low, cap |-> max - low]
<1>6. /\ low \in Nat /\ high \in Nat /\ max \in Nat
      /\ low <= high /\ high <= max /\ max <= h.cap
  BY <1>2
<1>7. GoSlice(h, low, high, max, given) = go
  <2>1. ~BoundsPanic(h, low, high, max, given)
    BY <1>2, <1>6 DEF BoundsPanic
  <2>2. CASE h.b = 0
    BY <2>1, <2>2 DEF GoSlice
  <2>3. CASE h.b # 0
    <3>1. GoSlice(h, low, high, max, given) = [h EXCEPT !.off = h.off + low, !.len = high - low,
                                                        !.cap = max - low]
      BY <1>5, <2>1, <2>3 DEF GoSlice
    <3>2. h = [b |-> h.b, off |-> h.off, len |-> h.len, cap |-> h.cap]
      BY <1>2 DEF Header
    <3> QED BY <2>3, <3>1, <3>2
  <2> QED BY <2>2, <2>3
<1>8. Inside(go, heap)
  <2>1. CASE h.b = 0
    BY <2>1 DEF Inside, Header, NilSlice
  <2>2. CASE h.b # 0
    <3>1. PICK l \in Nat : l = Len(heap[h.b].vals) /\ h.off + h.cap <= l /\ h.b \in 1..Len(heap)
      <4>1. h.b \in 1..Len(heap) /\ h.off + h.cap <= Len(heap[h.b].vals)
        BY <1>2, <2>2 DEF Inside
      <4>2. heap[h.b] \in Array
        BY <1>2, <4>1
      <4>3. heap[h.b].vals \in Seq(Int)
        BY <4>2 DEF Array
      <4> QED BY <4>1, <4>3
    <3>2. /\ h.off + low \in Nat /\ high - low \in Nat /\ max - low \in Nat
          /\ high - low <= max - low /\ (h.off + low) + (max - low) <= l
      <4>1. PICK o \in Nat, c \in Nat : o = h.off /\ c = h.cap
        BY <1>2
      <4>2. low \in Nat /\ high \in Nat /\ max \in Nat /\ low <= high /\ high <= max /\ max <= c /\ o + c <= l
        BY <1>6, <3>1, <4>1
      <4>3. /\ o + low \in Nat /\ high - low \in Nat /\ max - low \in Nat
            /\ high - low <= max - low /\ (o + low) + (max - low) <= l
        BY <4>2
      <4> QED BY <4>1, <4>3
    <3>3. go \in Header
      BY <1>2, <2>2, <3>2 DEF Header
    <3>4. /\ go.b = h.b /\ go.off = h.off + low /\ go.len = high - low /\ go.cap = max - low
      BY <2>2
    <3> HIDE DEF go
    <3> QED BY <2>2, <3>1, <3>2, <3>3, <3>4 DEF Inside
  <2> QED BY <2>1, <2>2
<1>9. Both(s, Answer(heap, GoSlice(h, low, high, max, given)), Answer(goHeap, go))
  BY <1>5
<1> HIDE DEF go
<1>10. Extends(heap, heap)
  BY <1>2 DEF Extends
<1>11. Fits(heap, Answer(heap, go), Answer(goHeap, go))
  BY <1>2, <1>8, <1>10 DEF Fits, Answer
<1> QED BY <1>7, <1>9, <1>11, BothKeeps

LEMMA AppendOneKeeps ==
  ASSUME SliceInv, NEW s \in Slots, NEW t \in Slots, AppendOne(s, t),
         sliceOps < SliceOps, sliceOps' = sliceOps + 1
  PROVE  SliceInv'
<1>1. sliceOps + 1 \in Int /\ sliceOps' \in 0..SliceOps
  BY SliceBounds DEF SliceInv
<1>2. PICK code : code = AppendElements(heap, hdr[t], <<sliceOps + 1>>)
  OBVIOUS
<1>3. Fits(heap, code, GoAppend(goHeap, goHdr[t], <<sliceOps + 1>>, goHdr[t].len = goHdr[t].cap, code.hdr.cap))
  BY <1>1, <1>2, AppendFits
<1>4. Both(s, code, GoAppend(goHeap, goHdr[t], <<sliceOps + 1>>, goHdr[t].len = goHdr[t].cap, code.hdr.cap))
  BY <1>2 DEF AppendOne
<1> QED BY <1>1, <1>3, <1>4, BothKeeps

LEMMA SpreadKeeps ==
  ASSUME SliceInv, NEW s \in Slots, NEW t \in Slots, NEW u \in Slots, Overlap = FALSE, Spread(s, t, u),
         sliceOps' \in 0..SliceOps
  PROVE  SliceInv'
<1>1. PICK code, xs : code = AppendSlice(heap, hdr[t], hdr[u]) /\ xs = Contents(goHeap, goHdr[u])
  OBVIOUS
<1> DEFINE go == IF xs = <<>> THEN Answer(goHeap, goHdr[t])
                 ELSE GoAppend(goHeap, goHdr[t], xs, goHdr[t].len + Len(xs) > goHdr[t].cap, code.hdr.cap)
<1>2. ~SharesForward(hdr[t], hdr[u]) /\ Both(s, code, go)
  BY <1>1 DEF Spread
<1>3. Fits(heap, code, go)
  BY <1>1, <1>2, SpreadFits
<1> HIDE DEF go
<1> QED BY <1>2, <1>3, BothKeeps

LEMMA CopyKeeps ==
  ASSUME SliceInv, NEW s \in Slots, NEW t \in Slots, Copy(s, t), sliceOps' \in 0..SliceOps
  PROVE  SliceInv'
<1> DEFINE h == hdr[s]
           e == hdr[t]
           n == Least(h.len, e.len)
           v == SubSeq(Contents(heap, e), 1, n)
           w == SubSeq(Contents(goHeap, e), 1, n)
<1>1. /\ SameHeap(heap, goHeap) /\ Inside(h, heap) /\ goHdr[s] = h
      /\ h.off \in Nat /\ h.len \in Nat
      /\ h.b # 0 => h.b \in 1..Len(heap)
  BY InvFields
<1>2. Inside(e, heap) /\ goHdr[t] = e /\ e.len \in Nat
  BY InvFields
<1>3. /\ n > 0 /\ heap' = CopyBetweenSlices(heap, h, e)
      /\ goHeap' = Store(goHeap, h.b, h.off, w)
      /\ UNCHANGED <<hdr, goHdr, elemRef, goRef>>
  BY <1>1, <1>2, Zenon DEF Copy
<1>4. heap' = Store(heap, h.b, h.off, v)
  BY <1>3 DEF CopyBetweenSlices, CopySliceValues
<1> HIDE DEF h, e, v, w
<1>5. n \in Nat /\ n <= h.len /\ n <= e.len
  <2>1. PICK a \in Nat, b \in Nat : a = h.len /\ b = e.len
    BY <1>1, <1>2
  <2>2. n = IF a < b THEN a ELSE b
    BY <2>1 DEF Least
  <2> QED BY <2>1, <2>2
<1> HIDE DEF n
<1>6. SameVals(v, w)
  <2>1. SameVals(Contents(heap, e), Contents(goHeap, e)) /\ Len(Contents(heap, e)) = e.len
    BY <1>1, <1>2, ContentsFit
  <2>2. n \in 0..Len(Contents(heap, e))
    BY <1>2, <1>5, <2>1
  <2> QED BY <2>1, <2>2, SameStart DEF v, w
<1>7. h.b \in 1..Len(heap)
  BY <1>1, <1>3, <1>5 DEF Inside, NilSlice
<1>8. SameHeap(heap', goHeap') /\ Extends(heap, heap')
  <2>1. PICK at \in Nat : at = h.off
    BY <1>1
  <2>2. /\ SameHeap(Store(heap, h.b, at, v), Store(goHeap, h.b, at, w))
        /\ Extends(heap, Store(heap, h.b, at, v))
    BY <1>1, <1>6, <1>7, StoreFits
  <2> QED BY <1>3, <1>4, <2>1, <2>2
<1> QED BY <1>3, <1>8, WriteStepKeeps

LEMMA ToArrayKeeps ==
  ASSUME SliceInv, NEW s \in Slots, NEW t \in Slots, ToArray(s, t), sliceOps' \in 0..SliceOps
  PROVE  SliceInv'
<1>1. PICK h : h = hdr[t]
  OBVIOUS
<1>2. /\ SameHeap(heap, goHeap) /\ Inside(h, heap) /\ goHdr[t] = h /\ heap \in Seq(Array)
      /\ h.len \in Nat
      /\ h.b # 0 => h.b \in 1..Len(heap)
  BY <1>1, InvFields
<1>3. PICK n \in 0..h.len :
        /\ h.b # 0
        /\ Both(s, SliceToArray(heap, h, n), Fresh(goHeap, FALSE, SubSeq(Contents(goHeap, h), 1, n), n))
  BY <1>1, <1>2 DEF ToArray
<1> DEFINE v == SubSeq(Contents(heap, h), 1, n)
           w == SubSeq(Contents(goHeap, h), 1, n)
<1>4. SameVals(v, w) /\ Len(v) = n
  <2>1. SameVals(Contents(heap, h), Contents(goHeap, h)) /\ Len(Contents(heap, h)) = h.len
    BY <1>2, ContentsFit
  <2>2. n \in 0..Len(Contents(heap, h))
    BY <2>1
  <2> QED BY <2>1, <2>2, SameStart
<1>5. PICK isBytes \in BOOLEAN : SliceToArray(heap, h, n) = Fresh(heap, isBytes, v, n)
  <2>0. h.b \in 1..Len(heap)
    BY <1>2, <1>3
  <2>1. heap[h.b] \in Array
    BY <1>2, <2>0
  <2>2. heap[h.b].bytes \in BOOLEAN
    BY <2>1 DEF Array
  <2> QED BY <2>2 DEF SliceToArray
<1> HIDE DEF v, w
<1>6. n \in 0..Len(v) /\ FALSE \in BOOLEAN
  BY <1>2, <1>4
<1>7. Fits(heap, Fresh(heap, isBytes, v, n), Fresh(goHeap, FALSE, w, n))
  BY <1>2, <1>4, <1>6, FreshFits
<1>8. Both(s, Fresh(heap, isBytes, v, n), Fresh(goHeap, FALSE, w, n))
  BY <1>3, <1>5 DEF w
<1> QED BY <1>7, <1>8, BothKeeps

LEMMA AddressKeeps ==
  ASSUME SliceInv, NEW s \in Slots, Address(s), sliceOps' \in 0..SliceOps
  PROVE  SliceInv'
<1>1. PICK h : h = hdr[s]
  OBVIOUS
<1>2. /\ Inside(h, heap) /\ goHdr[s] = h /\ heap \in Seq(Array)
      /\ h.b \in Nat /\ h.off \in Nat /\ h.len \in Nat /\ h.cap \in Nat /\ h.len <= h.cap
  BY <1>1, InvFields DEF Header
<1>3. PICK i \in 1..h.len : /\ elemRef' = IndexRef(h, i) /\ goRef' = [b |-> h.b, at |-> h.off + i]
                            /\ UNCHANGED <<heap, hdr, goHeap, goHdr>>
  BY <1>1, <1>2 DEF Address
<1>4. h.b # 0 /\ h.b \in 1..Len(heap) /\ h.off + h.cap <= Len(heap[h.b].vals)
  BY <1>2, <1>3 DEF Inside, NilSlice
<1>5. PICK l \in Nat : l = Len(heap[h.b].vals)
  <2>1. heap[h.b] \in Array
    BY <1>2, <1>4
  <2>2. heap[h.b].vals \in Seq(Int)
    BY <2>1 DEF Array
  <2> QED BY <2>2
<1>6. h.off + i \in 1..l /\ h.off + i \in Nat
  <2>1. PICK o \in Nat, m \in Nat, c \in Nat : o = h.off /\ m = h.len /\ c = h.cap
    BY <1>2
  <2>2. m <= c /\ o + c <= l /\ i \in Nat /\ 1 <= i /\ i <= m
    BY <1>2, <1>4, <1>5, <2>1
  <2>3. o + i \in 1..l /\ o + i \in Nat
    BY <2>2
  <2> QED BY <2>1, <2>3
<1>7. PointsInto(elemRef', heap') /\ goRef' = elemRef'
  BY <1>2, <1>3, <1>4, <1>5, <1>6 DEF PointsInto, IndexRef
<1> QED BY <1>3, <1>7 DEF SliceInv

\* One element is written.
LEMMA ElementFits ==
  ASSUME SliceInv, NEW b \in 1..Len(heap), NEW at \in Nat, sliceOps \in Nat
  PROVE  /\ SameHeap(Store(heap, b, at, <<sliceOps + 1>>), Store(goHeap, b, at, <<sliceOps + 1>>))
         /\ Extends(heap, Store(heap, b, at, <<sliceOps + 1>>))
<1>1. PICK v \in Seq(Int) : v = <<sliceOps + 1>>
  <2>1. <<sliceOps + 1>> \in Seq(Int)
    OBVIOUS
  <2> QED BY <2>1
<1>2. SameHeap(heap, goHeap) /\ SameVals(v, v)
  BY SameSelf DEF SliceInv
<1> QED BY <1>1, <1>2, StoreFits

LEMMA SetElementKeeps ==
  ASSUME SliceInv, NEW s \in Slots, SetElement(s), sliceOps' \in 0..SliceOps
  PROVE  SliceInv'
<1>1. PICK h : h = hdr[s]
  OBVIOUS
<1>2. /\ Inside(h, heap) /\ goHdr[s] = h /\ sliceOps \in Nat
      /\ h.off \in Nat /\ h.len \in Nat
      /\ h.b # 0 => h.b \in 1..Len(heap)
  BY <1>1, InvFields, SliceBounds DEF SliceInv
<1>3. PICK i \in 1..h.len :
        /\ heap' = Store(heap, h.b, h.off + i - 1, <<sliceOps + 1>>)
        /\ goHeap' = Store(goHeap, h.b, h.off + i - 1, <<sliceOps + 1>>)
        /\ UNCHANGED <<hdr, goHdr, elemRef, goRef>>
  BY <1>1, <1>2 DEF SetElement
<1>4. PICK at \in Nat : at = h.off + i - 1
  <2>1. PICK o \in Nat, m \in Nat : o = h.off /\ m = h.len
    BY <1>2
  <2>2. i \in Nat /\ i >= 1
    BY <2>1
  <2>3. o + i - 1 \in Nat
    BY <2>2
  <2> QED BY <2>1, <2>3
<1>5. h.b \in 1..Len(heap)
  BY <1>2, <1>3 DEF Inside, NilSlice
<1>6. SameHeap(heap', goHeap') /\ Extends(heap, heap')
  BY <1>2, <1>3, <1>4, <1>5, ElementFits
<1> QED BY <1>3, <1>6, WriteStepKeeps

LEMMA SetThroughRefKeeps ==
  ASSUME SliceInv, SetThroughRef, sliceOps' \in 0..SliceOps
  PROVE  SliceInv'
<1>1. /\ PointsInto(elemRef, heap) /\ goRef = elemRef /\ elemRef.b # 0 /\ sliceOps \in Nat
      /\ heap' = Store(heap, elemRef.b, elemRef.at - 1, <<sliceOps + 1>>)
      /\ goHeap' = Store(goHeap, elemRef.b, elemRef.at - 1, <<sliceOps + 1>>)
      /\ UNCHANGED <<hdr, goHdr, elemRef, goRef>>
  BY SliceBounds DEF SliceInv, SetThroughRef
<1>2. elemRef.b \in 1..Len(heap) /\ elemRef.at \in 1..Len(heap[elemRef.b].vals)
  BY <1>1 DEF PointsInto
<1>3. PICK at \in Nat : at = elemRef.at - 1
  <2>1. elemRef.at \in Nat /\ elemRef.at >= 1
    BY <1>1, <1>2 DEF PointsInto
  <2> QED BY <2>1
<1>4. SameHeap(heap', goHeap') /\ Extends(heap, heap')
  BY <1>1, <1>2, <1>3, ElementFits
<1> QED BY <1>1, <1>4, WriteStepKeeps

LEMMA SliceInvKept ==
  ASSUME SliceInv, [SliceNext]_sliceVars, Overlap = FALSE
  PROVE  SliceInv'
<1>1. CASE UNCHANGED sliceVars
  BY <1>1 DEF SliceInv, sliceVars
<1>2. CASE SliceNext
  <2>1. sliceOps < SliceOps /\ sliceOps' = sliceOps + 1 /\ sliceOps' \in 0..SliceOps
    BY <1>2, SliceBounds DEF SliceNext, SliceInv
  <2>2. ASSUME NEW s \in Slots, Make(s) \/ Literal(s) \/ Address(s) \/ SetElement(s) PROVE SliceInv'
    BY <2>1, <2>2, MakeKeeps, LiteralKeeps, AddressKeeps, SetElementKeeps
  <2>3. ASSUME NEW s \in Slots, NEW t \in Slots,
               Reslice(s, t) \/ AppendOne(s, t) \/ Copy(s, t) \/ ToArray(s, t)
        PROVE  SliceInv'
    BY <2>1, <2>3, ResliceKeeps, AppendOneKeeps, CopyKeeps, ToArrayKeeps
  <2>4. ASSUME NEW s \in Slots, NEW t \in Slots, NEW u \in Slots, Spread(s, t, u) PROVE SliceInv'
    BY <2>1, <2>4, SpreadKeeps
  <2>5. CASE SetThroughRef
    BY <2>1, <2>5, SetThroughRefKeeps
  <2> QED BY <1>2, <2>2, <2>3, <2>4, <2>5 DEF SliceNext
<1> QED BY <1>1, <1>2

LEMMA InvAgrees ==
  ASSUME SliceInv
  PROVE  SlicesAgree
<1>1. ASSUME NEW s \in Slots PROVE SameWindow(hdr[s], goHdr[s])
  <2>1. /\ SameVals(Contents(heap, hdr[s]), Contents(goHeap, hdr[s]))
        /\ Len(Contents(heap, hdr[s])) = hdr[s].len /\ goHdr[s] = hdr[s]
    BY InvFields, ContentsFit
  <2> QED BY <2>1 DEF SameWindow, SameVals, SliceLen, SliceCap
<1>2. \A s \in Slots : goHdr[s] = hdr[s]
  BY InvFields
<1> QED BY <1>1, <1>2 DEF SlicesAgree

\* Slices of the runtime (gs/builtin/slice.ts) behave as Go's for any number of
\* variables, capacities and operations, as long as no append(s, t...) reads t
\* in the array it writes, behind the place where it began.
THEOREM SlicesAreGos ==
  ASSUME Overlap = FALSE
  PROVE  SliceSpec => []SlicesAgree
<1>1. SliceInit => SliceInv
  <2> SUFFICES ASSUME SliceInit PROVE SliceInv
    OBVIOUS
  <2>1. SameHeap(<<>>, <<>>)
    BY DEF SameHeap
  <2>2. NilSlice \in Header /\ Inside(NilSlice, <<>>)
    BY DEF NilSlice, Header, Inside
  <2>3. PointsInto([b |-> 0, at |-> 0], <<>>)
    BY DEF PointsInto
  <2> QED BY <2>1, <2>2, <2>3, SliceBounds DEF SliceInit, SliceInv
<1>2. SliceInv /\ [SliceNext]_sliceVars => SliceInv'
  BY SliceInvKept
<1>3. SliceInv => SlicesAgree
  BY InvAgrees
<1> QED BY <1>1, <1>2, <1>3, PTL DEF SliceSpec

-----------------------------------------------------------------------------
(* sync.Map.  Every entry has a class of its own, and the classes and       *)
(* values are those of Go's map.                                            *)

Classes == {Class(k) : k \in Keys}
Entries == [key : Keys, val : MapVals]

Apart(d) == \A i, j \in 1..Len(d) : Class(d[i].key) = Class(d[j].key) => i = j

Holds(d, m) ==
  /\ d \in Seq(Entries) /\ Apart(d)
  /\ \A c : c \in DOMAIN m <=> \E i \in 1..Len(d) : Class(d[i].key) = c
  /\ \A i \in 1..Len(d) : m[Class(d[i].key)] = d[i].val

\* No number stands in the list twice.
Once(s) == \A i, j \in 1..Len(s) : s[i] = s[j] => i = j

\* A Range has met each class at most once, and meets what is left of the map
\* it began with; what stayed in the map is among them.
RangeInv ==
  /\ rng \in [on : BOOLEAN, left : Seq(Entries), seen : Seq(Classes), stay : SUBSET Classes]
  /\ Apart(rng.left) /\ Once(rng.seen)
  /\ \A i \in 1..Len(rng.left), j \in 1..Len(rng.seen) : Class(rng.left[i].key) # rng.seen[j]
  /\ \A c \in rng.stay : \/ \E j \in 1..Len(rng.seen) : rng.seen[j] = c
                         \/ \E i \in 1..Len(rng.left) : Class(rng.left[i].key) = c

PoolInv ==
  /\ pool \in Seq(PoolItems) /\ Once(pool)
  /\ \A i \in 1..Len(pool) : pool[i] \notin held

OnceInv ==
  /\ once \in [called : BOOLEAN, panicked : BOOLEAN, runs : Nat, told : SUBSET BOOLEAN]
  /\ ~once.called => once.runs = 0 /\ once.told = {}
  /\ once.called => once.runs = 1 /\ once.told \subseteq {once.panicked}

MapInv == Holds(mapData, goMap) /\ mapRet.js = mapRet.go /\ RangeInv /\ PoolInv /\ OnceInv

-----------------------------------------------------------------------------
(* Lists and their members. *)

\* A list that names each member of T once is as long as T is large.
LEMMA CountedOnce ==
  ASSUME NEW n \in Nat, NEW T, NEW f \in [1..n -> T],
         \A i, j \in 1..n : f[i] = f[j] => i = j, \A c \in T : \E i \in 1..n : f[i] = c
  PROVE  Cardinality(T) = n
<1>1. f \in Bijection(1..n, T)
  <2>1. f \in Injection(1..n, T)
    BY DEF Injection, IsInjective
  <2>2. f \in Surjection(1..n, T)
    BY DEF Surjection
  <2> QED BY <2>1, <2>2 DEF Bijection
<1>2. IsFiniteSet(1..n) /\ Cardinality(1..n) = n
  BY FS_Interval
<1>3. ExistsBijection(1..n, T)
  BY <1>1 DEF ExistsBijection
<1> QED BY <1>2, <1>3, FS_Bijection

LEMMA OnceCounts ==
  ASSUME NEW R, NEW s \in Seq(R), Once(s)
  PROVE  Cardinality(ToSet(s)) = Len(s)
<1>1. Len(s) \in Nat /\ s \in [1..Len(s) -> ToSet(s)]
  BY SetOfSeq
<1>2. \A c \in ToSet(s) : \E i \in 1..Len(s) : s[i] = c
  BY SetOfSeq
<1> QED BY <1>1, <1>2, CountedOnce DEF Once

LEMMA RemoveAtParts ==
  ASSUME NEW R, NEW d \in Seq(R), NEW i \in 1..Len(d)
  PROVE  /\ RemoveAt(d, i) \in Seq(R) /\ Len(RemoveAt(d, i)) = Len(d) - 1
         /\ \A j \in 1..(Len(d) - 1) : RemoveAt(d, i)[j] = IF j < i THEN d[j] ELSE d[j + 1]
<1> DEFINE a == SubSeq(d, 1, i - 1)
           b == SubSeq(d, i + 1, Len(d))
<1>1. PICK n \in Nat : n = Len(d) /\ i \in Nat /\ 1 <= i /\ i <= n
  OBVIOUS
<1>2. /\ a \in Seq(R) /\ Len(a) = i - 1 /\ \A j \in 1..(i - 1) : a[j] = d[j]
  BY <1>1
<1>3. /\ b \in Seq(R) /\ Len(b) = n - i /\ \A j \in 1..(n - i) : b[j] = d[i + j]
  <2>1. PICK k \in Nat : k = n - i /\ i + k = n
    <3>1. n - i \in Nat /\ i + (n - i) = n
      BY <1>1
    <3> QED BY <3>1
  <2>2. /\ SubSeq(d, i + 1, i + k) \in Seq(R) /\ Len(SubSeq(d, i + 1, i + k)) = k
        /\ \A j \in 1..k : SubSeq(d, i + 1, i + k)[j] = d[i + j]
    <3>1. i + k <= Len(d) /\ i \in Nat
      BY <1>1, <2>1
    <3> QED BY <3>1, PartElements
  <2> QED BY <1>1, <2>1, <2>2
<1>4. RemoveAt(d, i) = a \o b
  BY DEF RemoveAt
<1> HIDE DEF a, b
<1>5. /\ a \o b \in Seq(R) /\ Len(a \o b) = Len(a) + Len(b)
      /\ \A j \in 1..Len(a) : (a \o b)[j] = a[j]
      /\ \A j \in (Len(a) + 1)..(Len(a) + Len(b)) : (a \o b)[j] = b[j - Len(a)]
  BY <1>2, <1>3, ConcatParts, ZenonT(30)
<1>6. PICK x : x = a \o b
  OBVIOUS
<1>7. /\ x \in Seq(R) /\ Len(x) = n - 1
      /\ \A j \in 1..(i - 1) : x[j] = a[j]
      /\ \A j \in i..(n - 1) : x[j] = b[j - (i - 1)]
  <2>1. (i - 1) + (n - i) = n - 1 /\ (i - 1) + 1 = i
    BY <1>1
  <2>2. Len(a) = i - 1 /\ Len(b) = n - i
    BY <1>2, <1>3
  <2> QED BY <1>5, <1>6, <2>1, <2>2, Zenon
<1>8. ASSUME NEW j \in 1..(n - 1) PROVE x[j] = IF j < i THEN d[j] ELSE d[j + 1]
  <2>1. CASE j < i
    <3>1. j \in 1..(i - 1)
      BY <2>1, <1>1
    <3> QED BY <2>1, <3>1, <1>2, <1>7
  <2>2. CASE ~(j < i)
    <3>1. j \in i..(n - 1) /\ j - (i - 1) \in 1..(n - i) /\ i + (j - (i - 1)) = j + 1
      BY <2>2, <1>1
    <3> QED BY <2>2, <3>1, <1>3, <1>7
  <2> QED BY <2>1, <2>2
<1> QED BY <1>1, <1>4, <1>6, <1>7, <1>8

-----------------------------------------------------------------------------
(* What the operations do to the entries. *)

LEMMA ClassOf == \A k \in Keys : Class(k) \in Classes
BY DEF Classes

Revalued(d, i, v) == [d EXCEPT ![i].val = v]
With(m, c, v) == [x \in DOMAIN m \cup {c} |-> IF x = c THEN v ELSE m[x]]

\* An entry gets another value.
LEMMA ValueSet ==
  ASSUME NEW d, NEW m, Holds(d, m), NEW i \in 1..Len(d), NEW v \in MapVals,
         NEW c, c = Class(d[i].key)
  PROVE  Holds(Revalued(d, i, v), With(m, c, v))
<1>1. /\ d \in Seq(Entries) /\ Apart(d)
      /\ \A x : x \in DOMAIN m <=> \E j \in 1..Len(d) : Class(d[j].key) = x
      /\ \A j \in 1..Len(d) : m[Class(d[j].key)] = d[j].val
  BY DEF Holds
<1>2. PICK e \in Entries : e = d[i]
  BY <1>1
<1>3. PICK y \in Entries : y = [e EXCEPT !.val = v] /\ y.key = e.key /\ y.val = v
  <2>1. [e EXCEPT !.val = v] \in Entries /\ [e EXCEPT !.val = v].key = e.key /\ [e EXCEPT !.val = v].val = v
    BY DEF Entries
  <2> QED BY <2>1
<1> DEFINE p == [d EXCEPT ![i] = y]
           g == [x \in DOMAIN m \cup {c} |-> IF x = c THEN v ELSE m[x]]
<1>4. p \in Seq(Entries) /\ Len(p) = Len(d) /\ \A j \in 1..Len(d) : p[j] = IF j = i THEN y ELSE d[j]
  BY <1>1
<1>5. Revalued(d, i, v) = p
  BY <1>2, <1>3 DEF Revalued
<1>6. DOMAIN g = DOMAIN m /\ \A x \in DOMAIN m : g[x] = IF x = c THEN v ELSE m[x]
  BY <1>1
<1> HIDE DEF p, g
<1>7. \A j \in 1..Len(d) : Class(p[j].key) = Class(d[j].key)
  BY <1>2, <1>3, <1>4
<1>8. Apart(p)
  BY <1>1, <1>4, <1>7 DEF Apart
<1>9. \A x : x \in DOMAIN g <=> \E j \in 1..Len(p) : Class(p[j].key) = x
  BY <1>1, <1>4, <1>6, <1>7
<1>10. \A j \in 1..Len(p) : g[Class(p[j].key)] = p[j].val
  <2> TAKE j \in 1..Len(p)
  <2>1. Class(d[j].key) \in DOMAIN m /\ g[Class(p[j].key)] = IF Class(d[j].key) = c THEN v ELSE m[Class(d[j].key)]
    BY <1>1, <1>4, <1>6, <1>7
  <2>2. Class(d[j].key) = c <=> j = i
    BY <1>1, <1>4 DEF Apart
  <2> QED BY <1>1, <1>3, <1>4, <2>1, <2>2
<1>11. Holds(p, g)
  BY <1>4, <1>8, <1>9, <1>10 DEF Holds
<1> QED BY <1>5, <1>11 DEF g, With

\* A new class.
LEMMA EntryAdded ==
  ASSUME NEW d, NEW m, Holds(d, m), NEW k \in Keys, NEW v \in MapVals, Class(k) \notin DOMAIN m
  PROVE  Holds(Append(d, [key |-> k, val |-> v]),
               [x \in DOMAIN m \cup {Class(k)} |-> IF x = Class(k) THEN v ELSE m[x]])
<1>1. /\ d \in Seq(Entries) /\ Apart(d)
      /\ \A x : x \in DOMAIN m <=> \E j \in 1..Len(d) : Class(d[j].key) = x
      /\ \A j \in 1..Len(d) : m[Class(d[j].key)] = d[j].val
  BY DEF Holds
<1>2. PICK y \in Entries : y = [key |-> k, val |-> v] /\ y.key = k /\ y.val = v
  <2>1. [key |-> k, val |-> v] \in Entries
    BY DEF Entries
  <2> QED BY <2>1
<1>3. PICK c : c = Class(k)
  OBVIOUS
<1> DEFINE p == Append(d, y)
           g == [x \in DOMAIN m \cup {c} |-> IF x = c THEN v ELSE m[x]]
<1>4. /\ p \in Seq(Entries) /\ Len(d) \in Nat /\ Len(p) = Len(d) + 1
      /\ \A j \in 1..Len(p) : \/ j \in 1..Len(d) /\ p[j] = d[j]
                              \/ j = Len(d) + 1 /\ p[j] = y
      /\ \A j \in 1..Len(d) : j \in 1..Len(p) /\ p[j] = d[j]
      /\ Len(d) + 1 \in 1..Len(p) /\ p[Len(d) + 1] = y
  BY <1>1
<1>5. DOMAIN g = DOMAIN m \cup {c} /\ \A x \in DOMAIN m \cup {c} : g[x] = IF x = c THEN v ELSE m[x]
  OBVIOUS
<1> HIDE DEF p, g
<1>6. \A j \in 1..Len(d) : Class(d[j].key) \in DOMAIN m /\ Class(d[j].key) # c
  BY <1>1, <1>3
<1>7. Apart(p)
  BY <1>1, <1>2, <1>3, <1>4, <1>6 DEF Apart
<1>8. \A x : x \in DOMAIN g <=> \E j \in 1..Len(p) : Class(p[j].key) = x
  BY <1>1, <1>2, <1>3, <1>4, <1>5
<1>9. \A j \in 1..Len(p) : g[Class(p[j].key)] = p[j].val
  BY <1>1, <1>2, <1>3, <1>4, <1>5, <1>6
<1>10. Holds(p, g)
  BY <1>4, <1>7, <1>8, <1>9 DEF Holds
<1> QED BY <1>2, <1>3, <1>10 DEF p, g

\* An entry leaves.
LEMMA EntryRemoved ==
  ASSUME NEW d, NEW m, Holds(d, m), NEW i \in 1..Len(d), NEW c, c = Class(d[i].key)
  PROVE  Holds(RemoveAt(d, i), [x \in DOMAIN m \ {c} |-> m[x]])
<1>1. /\ d \in Seq(Entries) /\ Apart(d)
      /\ \A x : x \in DOMAIN m <=> \E j \in 1..Len(d) : Class(d[j].key) = x
      /\ \A j \in 1..Len(d) : m[Class(d[j].key)] = d[j].val
  BY DEF Holds
<1>2. PICK n \in Nat : n = Len(d) /\ i \in 1..n
  BY <1>1
<1>3. PICK p : p = RemoveAt(d, i)
  OBVIOUS
<1>4. /\ p \in Seq(Entries) /\ Len(p) = n - 1
      /\ \A j \in 1..(n - 1) : p[j] = IF j < i THEN d[j] ELSE d[j + 1]
  BY <1>1, <1>2, <1>3, RemoveAtParts
<1> DEFINE Place(j) == IF j < i THEN j ELSE j + 1
<1>5. \A j \in 1..(n - 1) : Place(j) \in 1..n /\ Place(j) # i /\ p[j] = d[Place(j)]
  BY <1>2, <1>4
<1>6. \A j, l \in 1..(n - 1) : Place(j) = Place(l) => j = l
  BY <1>2
<1>7. \A j \in 1..n : j # i => \E l \in 1..(n - 1) : Place(l) = j
  <2> SUFFICES ASSUME NEW j \in 1..n, j # i PROVE \E l \in 1..(n - 1) : Place(l) = j
    OBVIOUS
  <2>1. CASE j < i
    <3>1. j \in 1..(n - 1) /\ Place(j) = j
      BY <2>1, <1>2
    <3> QED BY <3>1
  <2>2. CASE ~(j < i)
    <3>1. j - 1 \in 1..(n - 1) /\ Place(j - 1) = j
      BY <2>2, <1>2
    <3> QED BY <3>1
  <2> QED BY <2>1, <2>2
<1> DEFINE g == [x \in DOMAIN m \ {c} |-> m[x]]
<1>8. DOMAIN g = DOMAIN m \ {c} /\ \A x \in DOMAIN m \ {c} : g[x] = m[x]
  OBVIOUS
<1> HIDE DEF Place, g
<1>9. \A j \in 1..n : Class(d[j].key) = c <=> j = i
  BY <1>1, <1>2 DEF Apart
<1>10. Apart(p)
  BY <1>1, <1>2, <1>4, <1>5, <1>6 DEF Apart
<1>11. \A x : x \in DOMAIN g <=> \E j \in 1..Len(p) : Class(p[j].key) = x
  <2> TAKE x
  <2>1. ASSUME x \in DOMAIN g PROVE \E j \in 1..(n - 1) : Class(p[j].key) = x
    <3>1. PICK j \in 1..n : Class(d[j].key) = x
      BY <1>1, <1>2, <1>8, <2>1
    <3>2. j # i
      BY <1>8, <1>9, <2>1, <3>1
    <3>3. PICK l \in 1..(n - 1) : Place(l) = j
      BY <1>7, <3>2
    <3> QED BY <1>5, <3>1, <3>3
  <2>2. ASSUME NEW j \in 1..(n - 1), Class(p[j].key) = x PROVE x \in DOMAIN g
    <3>1. Place(j) \in 1..n /\ Place(j) # i /\ p[j] = d[Place(j)]
      BY <1>5
    <3>2. x # c /\ x \in DOMAIN m
      BY <1>1, <1>2, <1>9, <2>2, <3>1
    <3> QED BY <1>8, <3>2
  <2> QED BY <1>4, <2>1, <2>2
<1>12. \A j \in 1..Len(p) : g[Class(p[j].key)] = p[j].val
  <2> SUFFICES ASSUME NEW j \in 1..(n - 1) PROVE g[Class(p[j].key)] = p[j].val
    BY <1>4
  <2>1. Place(j) \in 1..n /\ Place(j) # i /\ p[j] = d[Place(j)]
    BY <1>5
  <2>2. Class(p[j].key) # c
    BY <1>9, <2>1
  <2>3. Class(p[j].key) \in DOMAIN m /\ m[Class(p[j].key)] = p[j].val
    BY <1>1, <1>2, <2>1
  <2> QED BY <1>8, <2>2, <2>3
<1>13. Holds(p, g)
  BY <1>4, <1>10, <1>11, <1>12 DEF Holds
<1> QED BY <1>3, <1>13 DEF g

\* A key is found where its class stands.
LEMMA FindIs ==
  ASSUME Holds(mapData, goMap), NEW k \in Keys
  PROVE  /\ FindEntry(k) = {} => Class(k) \notin DOMAIN goMap
         /\ FindEntry(k) # {} => /\ Entry(k) \in 1..Len(mapData)
                                 /\ Class(mapData[Entry(k)].key) = Class(k)
                                 /\ Class(k) \in DOMAIN goMap
                                 /\ goMap[Class(k)] = mapData[Entry(k)].val
<1>1. /\ mapData \in Seq(Entries) /\ Apart(mapData) /\ DOMAIN mapData = 1..Len(mapData)
      /\ \A x : x \in DOMAIN goMap <=> \E j \in 1..Len(mapData) : Class(mapData[j].key) = x
      /\ \A j \in 1..Len(mapData) : goMap[Class(mapData[j].key)] = mapData[j].val
  BY DEF Holds
<1>2. \A i \in 1..Len(mapData) : Class(mapData[i].key) = Class(k) => i \in FindEntry(k)
  <2> SUFFICES ASSUME NEW i \in 1..Len(mapData), Class(mapData[i].key) = Class(k)
               PROVE  i \in FindEntry(k)
    OBVIOUS
  <2>1. \A j \in 1..Len(mapData) : Class(mapData[j].key) = Class(k) => j = i
    BY <1>1 DEF Apart
  <2>2. \A j \in 1..Len(mapData) : mapData[j].key = k => j = i
    BY <2>1
  <2>3. i <= i
    BY <1>1
  <2> QED BY <1>1, <2>1, <2>2, <2>3 DEF FindEntry
<1>3. \A i \in FindEntry(k) : i \in 1..Len(mapData) /\ Class(mapData[i].key) = Class(k)
  BY <1>1 DEF FindEntry
<1>4. FindEntry(k) # {} => Entry(k) \in FindEntry(k)
  BY Zenon DEF Entry
<1> QED BY <1>1, <1>2, <1>3, <1>4

LEMMA LookupIs ==
  ASSUME Holds(mapData, goMap), NEW k \in Keys
  PROVE  Lookup(k) = GoLookup(Class(k)) /\ (Lookup(k).found <=> FindEntry(k) # {})
<1>1. CASE FindEntry(k) = {}
  BY <1>1, FindIs DEF Lookup, GoLookup, Absent
<1>2. CASE FindEntry(k) # {}
  <2>1. Lookup(k) = Found(mapData[Entry(k)].val)
    BY <1>2 DEF Lookup
  <2>2. GoLookup(Class(k)) = Found(mapData[Entry(k)].val)
    BY <1>2, FindIs DEF GoLookup
  <2> QED BY <1>2, <2>1, <2>2 DEF Found
<1> QED BY <1>1, <1>2

LEMMA PutHolds ==
  ASSUME Holds(mapData, goMap), NEW k \in Keys, NEW v \in MapVals
  PROVE  Holds(Put(k, v), GoPut(Class(k), v))
<1>1. CASE FindEntry(k) = {}
  BY <1>1, FindIs, EntryAdded DEF Put, GoPut
<1>2. CASE FindEntry(k) # {}
  <2>1. PICK i \in 1..Len(mapData) : i = Entry(k) /\ Class(k) = Class(mapData[i].key)
    BY <1>2, FindIs
  <2>2. Holds(Revalued(mapData, i, v), With(goMap, Class(k), v))
    BY <2>1, ValueSet
  <2>3. Put(k, v) = Revalued(mapData, i, v) /\ GoPut(Class(k), v) = With(goMap, Class(k), v)
    BY <1>2, <2>1 DEF Put, GoPut, Revalued, With
  <2> QED BY <2>2, <2>3
<1> QED BY <1>1, <1>2

LEMMA WithoutHolds ==
  ASSUME Holds(mapData, goMap), NEW k \in Keys
  PROVE  Holds(Without(k), GoRemove(Class(k)))
<1>1. CASE FindEntry(k) = {}
  <2>1. /\ DOMAIN GoRemove(Class(k)) = DOMAIN goMap
        /\ \A x \in DOMAIN goMap : GoRemove(Class(k))[x] = goMap[x]
    BY <1>1, FindIs DEF GoRemove
  <2>2. Without(k) = mapData
    BY <1>1 DEF Without
  <2> QED BY <2>1, <2>2 DEF Holds
<1>2. CASE FindEntry(k) # {}
  BY <1>2, FindIs, EntryRemoved DEF Without, GoRemove
<1> QED BY <1>1, <1>2

-----------------------------------------------------------------------------
(* The steps. *)

\* An operation that leaves the same on both sides and answers the same.
LEMMA OperationKeeps ==
  ASSUME MapInv, NEW d, NEW m, Holds(d, m), NEW js, NEW go, js = go, Operation(d, m, js, go)
  PROVE  MapInv'
<1>1. mapData' = d /\ goMap' = m /\ mapRet'.js = mapRet'.go /\ UNCHANGED <<pool, held, once>>
  BY DEF Operation
<1>2. PICK X : rng' = IF rng.on THEN [rng EXCEPT !.stay = {c \in rng.stay : c \in X}] ELSE rng
  BY DEF Operation
<1>3. RangeInv'
  <2>1. CASE ~rng.on
    BY <1>2, <2>1 DEF MapInv, RangeInv
  <2>2. CASE rng.on
    <3>1. rng \in [on : BOOLEAN, left : Seq(Entries), seen : Seq(Classes), stay : SUBSET Classes]
      BY DEF MapInv, RangeInv
    <3>2. PICK Y : Y = {c \in rng.stay : c \in X}
      OBVIOUS
    <3>3. rng' = [rng EXCEPT !.stay = Y] /\ Y \subseteq rng.stay /\ Y \in SUBSET Classes
      BY <1>2, <2>2, <3>1, <3>2
    <3>4. /\ rng' \in [on : BOOLEAN, left : Seq(Entries), seen : Seq(Classes), stay : SUBSET Classes]
          /\ rng'.left = rng.left /\ rng'.seen = rng.seen /\ rng'.stay = Y
      BY <3>1, <3>3
    <3> QED BY <3>3, <3>4 DEF MapInv, RangeInv
  <2> QED BY <2>1, <2>2
<1>4. PoolInv' /\ OnceInv'
  BY <1>1 DEF MapInv, PoolInv, OnceInv
<1> QED BY <1>1, <1>3, <1>4 DEF MapInv

LEMMA InvHolds == MapInv => Holds(mapData, goMap)
BY DEF MapInv

LEMMA LoadKeeps ==
  ASSUME MapInv, NEW k \in Keys, Load(k)
  PROVE  MapInv'
BY InvHolds, LookupIs, OperationKeeps DEF Load

LEMMA StoreKeeps ==
  ASSUME MapInv, NEW k \in Keys, NEW v \in MapVals, MapStore(k, v)
  PROVE  MapInv'
BY InvHolds, PutHolds, OperationKeeps DEF MapStore

LEMMA DeleteKeeps ==
  ASSUME MapInv, NEW k \in Keys, Delete(k)
  PROVE  MapInv'
BY InvHolds, WithoutHolds, OperationKeeps DEF Delete

LEMMA LoadAndDeleteKeeps ==
  ASSUME MapInv, NEW k \in Keys, LoadAndDelete(k)
  PROVE  MapInv'
BY InvHolds, LookupIs, WithoutHolds, OperationKeeps DEF LoadAndDelete

LEMMA NothingHolds == Holds(<<>>, [c \in {} |-> "none"])
BY DEF Holds, Apart

LEMMA ClearKeeps ==
  ASSUME MapInv, Clear
  PROVE  MapInv'
BY NothingHolds, OperationKeeps DEF Clear

LEMMA LoadOrStoreKeeps ==
  ASSUME MapInv, NEW k \in Keys, NEW v \in MapVals, LoadOrStore(k, v)
  PROVE  MapInv'
<1>1. Holds(mapData, goMap)
  BY InvHolds
<1>2. Lookup(k) = GoLookup(Class(k)) /\ (Lookup(k).found <=> FindEntry(k) # {})
  BY <1>1, LookupIs
<1>3. CASE Lookup(k).found
  <2>1. Operation(mapData, goMap, Lookup(k), Lookup(k))
    BY <1>2, <1>3 DEF LoadOrStore
  <2> QED BY <1>1, <2>1, OperationKeeps
<1>4. CASE ~Lookup(k).found
  <2>1. Put(k, v) = Append(mapData, [key |-> k, val |-> v])
    BY <1>2, <1>4 DEF Put
  <2>2. Operation(Put(k, v), GoPut(Class(k), v), [found |-> FALSE, val |-> v], [found |-> FALSE, val |-> v])
    BY <1>2, <1>4, <2>1 DEF LoadOrStore
  <2> QED BY <1>1, <2>2, PutHolds, OperationKeeps
<1> QED BY <1>3, <1>4

LEMMA CompareAndSwapKeeps ==
  ASSUME MapInv, NEW k \in Keys, NEW old, NEW v \in MapVals, CompareAndSwap(k, old, v)
  PROVE  MapInv'
<1>1. Holds(mapData, goMap) /\ Lookup(k) = GoLookup(Class(k))
  BY InvHolds, LookupIs
<1>2. CASE Lookup(k) = Found(old)
  <2>1. Operation(Put(k, v), GoPut(Class(k), v), [found |-> TRUE, val |-> "none"], [found |-> TRUE, val |-> "none"])
    BY <1>1, <1>2 DEF CompareAndSwap
  <2> QED BY <1>1, <2>1, PutHolds, OperationKeeps
<1>3. CASE Lookup(k) # Found(old)
  <2>1. Operation(mapData, goMap, [found |-> FALSE, val |-> "none"], [found |-> FALSE, val |-> "none"])
    BY <1>1, <1>3 DEF CompareAndSwap
  <2> QED BY <1>1, <2>1, OperationKeeps
<1> QED BY <1>2, <1>3

LEMMA CompareAndDeleteKeeps ==
  ASSUME MapInv, NEW k \in Keys, NEW old, CompareAndDelete(k, old)
  PROVE  MapInv'
<1>1. Holds(mapData, goMap) /\ Lookup(k) = GoLookup(Class(k))
  BY InvHolds, LookupIs
<1>2. CASE Lookup(k) = Found(old)
  <2>1. Operation(Without(k), GoRemove(Class(k)), [found |-> TRUE, val |-> "none"], [found |-> TRUE, val |-> "none"])
    BY <1>1, <1>2 DEF CompareAndDelete
  <2> QED BY <1>1, <2>1, WithoutHolds, OperationKeeps
<1>3. CASE Lookup(k) # Found(old)
  <2>1. Operation(mapData, goMap, [found |-> FALSE, val |-> "none"], [found |-> FALSE, val |-> "none"])
    BY <1>1, <1>3 DEF CompareAndDelete
  <2> QED BY <1>1, <2>1, OperationKeeps
<1> QED BY <1>2, <1>3

\* Swap looks for the key itself: an equal one is not given.
LEMMA SwapKeeps ==
  ASSUME MapInv, SwapEqual = FALSE, NEW k \in Keys, NEW v \in MapVals, Swap(k, v)
  PROVE  MapInv'
<1> DEFINE same == {i \in DOMAIN mapData : mapData[i].key = k}
           at == CHOOSE i \in same : TRUE
<1>1. Holds(mapData, goMap) /\ mapData \in Seq(Entries)
  BY InvHolds DEF Holds
<1>2. /\ same # {} \/ FindEntry(k) = {}
      /\ Operation(IF same = {} THEN Append(mapData, [key |-> k, val |-> v])
                   ELSE [mapData EXCEPT ![at].val = v],
                   GoPut(Class(k), v),
                   IF same = {} THEN Absent ELSE Found(mapData[at].val),
                   GoLookup(Class(k)))
  BY Zenon DEF Swap
<1>3. CASE same = {}
  <2>1. Put(k, v) = Append(mapData, [key |-> k, val |-> v]) /\ Absent = GoLookup(Class(k))
    <3>1. FindEntry(k) = {}
      BY <1>2, <1>3
    <3> QED BY <1>1, <3>1, FindIs DEF Put, GoLookup
  <2>2. Operation(Put(k, v), GoPut(Class(k), v), Absent, GoLookup(Class(k)))
    BY <1>2, <1>3, <2>1
  <2> QED BY <1>1, <2>1, <2>2, PutHolds, OperationKeeps
<1>4. CASE same # {}
  <2>1. at \in DOMAIN mapData /\ mapData[at].key = k
    BY <1>4
  <2>2. Operation([mapData EXCEPT ![at].val = v], GoPut(Class(k), v), Found(mapData[at].val), GoLookup(Class(k)))
    BY <1>2, <1>4, Zenon
  <2> HIDE DEF same, at
  <2>3. PICK i \in 1..Len(mapData) : i = at /\ mapData[i].key = k
    BY <1>1, <2>1
  <2>4. Holds([mapData EXCEPT ![i].val = v], GoPut(Class(k), v))
    <3>1. Holds(Revalued(mapData, i, v), With(goMap, Class(k), v))
      BY <1>1, <2>3, ValueSet
    <3> QED BY <3>1 DEF GoPut, Revalued, With
  <2>5. Found(mapData[i].val) = GoLookup(Class(k))
    BY <1>1, <2>3 DEF GoLookup, Holds
  <2> QED BY <2>2, <2>3, <2>4, <2>5, OperationKeeps
<1> QED BY <1>3, <1>4

-----------------------------------------------------------------------------
(* Range. *)

LEMMA RangeBeginKeeps ==
  ASSUME MapInv, RangeBegin
  PROVE  MapInv'
<1>1. /\ mapData \in Seq(Entries) /\ Apart(mapData)
      /\ \A x : x \in DOMAIN goMap <=> \E j \in 1..Len(mapData) : Class(mapData[j].key) = x
  BY DEF MapInv, Holds
<1>2. rng' = [on |-> TRUE, left |-> mapData, seen |-> <<>>, stay |-> DOMAIN goMap]
  BY DEF RangeBegin
<1>3. DOMAIN goMap \subseteq Classes
  <2>1. \A j \in 1..Len(mapData) : mapData[j].key \in Keys
    <3>1. \A j \in 1..Len(mapData) : mapData[j] \in Entries
      BY <1>1
    <3> QED BY <3>1 DEF Entries
  <2> QED BY <1>1, <2>1 DEF Classes
<1>4. <<>> \in Seq(Classes) /\ Len(<<>>) = 0
  OBVIOUS
<1>5. /\ rng' \in [on : BOOLEAN, left : Seq(Entries), seen : Seq(Classes), stay : SUBSET Classes]
      /\ rng'.left = mapData /\ rng'.seen = <<>> /\ rng'.stay = DOMAIN goMap
  BY <1>1, <1>2, <1>3, <1>4
<1>6. RangeInv'
  BY <1>1, <1>4, <1>5 DEF RangeInv, Once
<1> QED BY <1>6 DEF MapInv, RangeBegin, PoolInv, OnceInv, Holds

LEMMA RangeVisitKeeps ==
  ASSUME MapInv, RangeVisit
  PROVE  MapInv'
<1>1. RangeInv /\ rng.left # <<>>
  BY DEF MapInv, RangeVisit
<1>2. PICK q \in Seq(Entries), s \in Seq(Classes), stay \in SUBSET Classes :
        q = rng.left /\ s = rng.seen /\ stay = rng.stay /\ q # <<>>
  BY <1>1 DEF RangeInv
<1>3. PICK n \in Nat, m \in Nat : n = Len(q) /\ m = Len(s) /\ n >= 1
  <2>1. Len(q) \in Nat /\ Len(s) \in Nat /\ Len(q) >= 1
    BY <1>2
  <2> QED BY <2>1
<1>4. PICK c \in Classes : c = Class(q[1].key)
  <2>1. q[1] \in Entries
    BY <1>2, <1>3
  <2> QED BY <2>1 DEF Entries, Classes
<1>5. PICK t \in Seq(Entries) : /\ t = Tail(q) /\ Len(t) = n - 1
                                /\ \A i \in 1..(n - 1) : t[i] = q[i + 1]
  <2>1. /\ Tail(q) \in Seq(Entries) /\ Len(Tail(q)) = Len(q) - 1
        /\ \A i \in 1..(Len(q) - 1) : Tail(q)[i] = q[i + 1]
    BY <1>2
  <2> QED BY <1>3, <2>1
<1>6. PICK z \in Seq(Classes) : /\ z = Append(s, c) /\ Len(z) = m + 1 /\ z[m + 1] = c
                                /\ \A j \in 1..m : z[j] = s[j]
  <2>1. /\ Append(s, c) \in Seq(Classes) /\ Len(Append(s, c)) = m + 1 /\ Append(s, c)[m + 1] = c
        /\ \A j \in 1..m : Append(s, c)[j] = s[j]
    BY <1>3
  <2> QED BY <2>1
<1>7. rng' = [rng EXCEPT !.left = t, !.seen = z]
  <2>1. Head(q) = q[1]
    BY <1>2
  <2> QED BY <1>2, <1>4, <1>5, <1>6, <2>1 DEF RangeVisit
<1>8. /\ rng' \in [on : BOOLEAN, left : Seq(Entries), seen : Seq(Classes), stay : SUBSET Classes]
      /\ rng'.left = t /\ rng'.seen = z /\ rng'.stay = stay
  BY <1>1, <1>2, <1>7 DEF RangeInv
<1>9. /\ \A i, j \in 1..n : Class(q[i].key) = Class(q[j].key) => i = j
      /\ \A i, j \in 1..m : s[i] = s[j] => i = j
      /\ \A i \in 1..n, j \in 1..m : Class(q[i].key) # s[j]
      /\ \A x \in stay : (\E j \in 1..m : s[j] = x) \/ (\E i \in 1..n : Class(q[i].key) = x)
  BY <1>1, <1>2, <1>3 DEF RangeInv, Apart, Once
<1>10. \A i \in 1..(n - 1) : i + 1 \in 1..n /\ i + 1 # 1 /\ t[i] = q[i + 1]
  BY <1>5
<1>11. Apart(t)
  <2> SUFFICES ASSUME NEW i \in 1..(n - 1), NEW j \in 1..(n - 1), Class(t[i].key) = Class(t[j].key)
               PROVE  i = j
    BY <1>5 DEF Apart
  <2>1. i + 1 = j + 1
    BY <1>9, <1>10
  <2> QED BY <2>1
<1>12. \A j \in 1..(m + 1) : j \in 1..m \/ j = m + 1
  OBVIOUS
<1>13. 1 \in 1..n
  BY <1>3
<1>14. Once(z)
  <2>1. \A j \in 1..m : z[j] # c
    BY <1>4, <1>6, <1>9, <1>13
  <2> QED BY <1>6, <1>9, <1>12, <2>1 DEF Once
<1>15. \A i \in 1..(n - 1), j \in 1..(m + 1) : Class(t[i].key) # z[j]
  <2> TAKE i \in 1..(n - 1), j \in 1..(m + 1)
  <2>1. CASE j \in 1..m
    BY <2>1, <1>6, <1>9, <1>10
  <2>2. CASE j = m + 1
    BY <2>2, <1>4, <1>6, <1>9, <1>10, <1>13
  <2> QED BY <1>12, <2>1, <2>2
<1>16. \A x \in stay : (\E j \in 1..(m + 1) : z[j] = x) \/ (\E i \in 1..(n - 1) : Class(t[i].key) = x)
  <2> TAKE x \in stay
  <2>1. CASE \E j \in 1..m : s[j] = x
    <3>1. PICK j \in 1..m : s[j] = x
      BY <2>1
    <3>2. j \in 1..(m + 1) /\ z[j] = x
      BY <3>1, <1>6
    <3> QED BY <3>2
  <2>2. CASE \E i \in 1..n : Class(q[i].key) = x
    <3>1. PICK i \in 1..n : Class(q[i].key) = x
      BY <2>2
    <3>2. CASE i = 1
      <4>1. m + 1 \in 1..(m + 1) /\ z[m + 1] = x
        BY <3>1, <3>2, <1>4, <1>6
      <4> QED BY <4>1
    <3>3. CASE i # 1
      <4>1. i - 1 \in 1..(n - 1) /\ (i - 1) + 1 = i
        BY <3>3
      <4>2. t[i - 1] = q[i]
        BY <4>1, <1>10
      <4> QED BY <3>1, <4>1, <4>2
    <3> QED BY <3>2, <3>3
  <2> QED BY <1>9, <2>1, <2>2
<1>17. RangeInv'
  BY <1>5, <1>6, <1>8, <1>11, <1>14, <1>15, <1>16 DEF RangeInv
<1> QED BY <1>17 DEF MapInv, RangeVisit, PoolInv, OnceInv, Holds

LEMMA NoRangeFits ==
  /\ NoRange \in [on : BOOLEAN, left : Seq(Entries), seen : Seq(Classes), stay : SUBSET Classes]
  /\ Apart(NoRange.left) /\ Once(NoRange.seen) /\ Len(NoRange.left) = 0 /\ NoRange.stay = {}
BY DEF NoRange, Apart, Once

LEMMA RangeEndKeeps ==
  ASSUME MapInv, RangeEnd
  PROVE  MapInv'
<1>1. rng' = NoRange
  BY DEF RangeEnd
<1>2. RangeInv'
  BY <1>1, NoRangeFits DEF RangeInv
<1> QED BY <1>2 DEF MapInv, RangeEnd, PoolInv, OnceInv, Holds

-----------------------------------------------------------------------------
(* sync.Pool and OnceFunc. *)

LEMMA PoolGetKeeps ==
  ASSUME MapInv, NEW new \in PoolItems, PoolGet(new)
  PROVE  MapInv'
<1>1. pool \in Seq(PoolItems) /\ Once(pool) /\ \A i \in 1..Len(pool) : pool[i] \notin held
  BY DEF MapInv, PoolInv
<1>2. PoolInv'
  <2>1. CASE pool = <<>>
    BY <1>1, <2>1 DEF PoolGet, PoolInv
  <2>2. CASE pool # <<>>
    <3>1. PICK n \in Nat : n = Len(pool) /\ n >= 1
      <4>1. Len(pool) \in Nat /\ Len(pool) >= 1
        BY <1>1, <2>2
      <4> QED BY <4>1
    <3>2. pool' = SubSeq(pool, 1, n - 1) /\ held' = held \cup {pool[n]}
      BY <2>2, <3>1 DEF PoolGet, Front, Last
    <3>3. /\ pool' \in Seq(PoolItems) /\ Len(pool') = n - 1
          /\ \A i \in 1..(n - 1) : pool'[i] = pool[i] /\ i \in 1..n /\ i # n
      BY <1>1, <3>1, <3>2
    <3>4. n \in 1..n
      BY <3>1
    <3>5. Once(pool')
      BY <1>1, <3>1, <3>3 DEF Once
    <3>6. \A i \in 1..(n - 1) : pool[i] # pool[n]
      BY <1>1, <3>1, <3>3, <3>4 DEF Once
    <3>7. \A i \in 1..Len(pool') : pool'[i] \notin held'
      BY <1>1, <3>1, <3>2, <3>3, <3>6
    <3> QED BY <3>3, <3>5, <3>7 DEF PoolInv
  <2> QED BY <2>1, <2>2
<1> QED BY <1>2 DEF MapInv, PoolGet, RangeInv, OnceInv, Holds

LEMMA PoolPutKeeps ==
  ASSUME MapInv, NEW x \in PoolItems, PoolPut(x)
  PROVE  MapInv'
<1>1. pool \in Seq(PoolItems) /\ Once(pool) /\ \A i \in 1..Len(pool) : pool[i] \notin held
  BY DEF MapInv, PoolInv
<1>2. x \in held /\ pool' = Append(pool, x) /\ held' = held \ {x}
  BY DEF PoolPut
<1>3. /\ pool' \in Seq(PoolItems)
      /\ \A i \in 1..Len(pool') : \/ i \in 1..Len(pool) /\ pool'[i] = pool[i]
                                  \/ i = Len(pool) + 1 /\ pool'[i] = x
  BY <1>1, <1>2
<1>4. PoolInv'
  BY <1>1, <1>2, <1>3 DEF PoolInv, Once
<1> QED BY <1>4 DEF MapInv, PoolPut, RangeInv, OnceInv, Holds

LEMMA OnceCallKeeps ==
  ASSUME MapInv, NEW fails \in BOOLEAN, OnceCall(fails)
  PROVE  MapInv'
<1>1. OnceInv
  BY DEF MapInv
<1>2. OnceInv'
  <2>1. CASE once.called
    <3>1. PICK told : told = once.told \cup {once.panicked}
      OBVIOUS
    <3>2. told \subseteq {once.panicked} /\ told \in SUBSET BOOLEAN
      BY <1>1, <2>1, <3>1 DEF OnceInv
    <3>3. once' = [once EXCEPT !.told = told]
      BY <2>1, <3>1 DEF OnceCall
    <3> QED BY <1>1, <2>1, <3>2, <3>3 DEF OnceInv
  <2>2. CASE ~once.called
    <3>1. once.runs = 0 /\ once.told = {}
      BY <1>1, <2>2 DEF OnceInv
    <3>2. once' = [called |-> TRUE, panicked |-> fails, runs |-> 1, told |-> {fails}]
      BY <2>2, <3>1 DEF OnceCall
    <3> QED BY <3>2 DEF OnceInv
  <2> QED BY <2>1, <2>2
<1> QED BY <1>2 DEF MapInv, OnceCall, RangeInv, PoolInv, Holds

LEMMA MapInvKept ==
  ASSUME MapInv, [SyncMapNext]_mapVars, SwapEqual = FALSE
  PROVE  MapInv'
<1>1. CASE UNCHANGED mapVars
  BY <1>1 DEF mapVars, MapInv, RangeInv, PoolInv, OnceInv, Holds
<1>2. ASSUME NEW k \in Keys, Load(k) \/ Delete(k) \/ LoadAndDelete(k) PROVE MapInv'
  BY <1>2, LoadKeeps, DeleteKeeps, LoadAndDeleteKeeps
<1>3. ASSUME NEW k \in Keys, NEW v \in MapVals,
             MapStore(k, v) \/ LoadOrStore(k, v) \/ Swap(k, v) \/ CompareAndDelete(k, v)
      PROVE  MapInv'
  BY <1>3, StoreKeeps, LoadOrStoreKeeps, SwapKeeps, CompareAndDeleteKeeps
<1>4. ASSUME NEW k \in Keys, NEW v \in MapVals, NEW old \in MapVals, CompareAndSwap(k, old, v)
      PROVE  MapInv'
  BY <1>4, CompareAndSwapKeeps
<1>5. CASE Clear \/ RangeBegin \/ RangeVisit \/ RangeEnd
  BY <1>5, ClearKeeps, RangeBeginKeeps, RangeVisitKeeps, RangeEndKeeps
<1>6. ASSUME NEW x \in PoolItems, PoolGet(x) \/ PoolPut(x) PROVE MapInv'
  BY <1>6, PoolGetKeeps, PoolPutKeeps
<1>7. ASSUME NEW b \in BOOLEAN, OnceCall(b) PROVE MapInv'
  BY <1>7, OnceCallKeeps
<1> QED BY <1>1, <1>2, <1>3, <1>4, <1>5, <1>6, <1>7 DEF SyncMapNext

LEMMA MapInvAgrees ==
  ASSUME MapInv
  PROVE  SyncMapAgrees
<1>1. /\ mapData \in Seq(Entries) /\ Apart(mapData)
      /\ \A x : x \in DOMAIN goMap <=> \E j \in 1..Len(mapData) : Class(mapData[j].key) = x
      /\ \A j \in 1..Len(mapData) : goMap[Class(mapData[j].key)] = mapData[j].val
  BY DEF MapInv, Holds
<1>2. Len(mapData) = Cardinality(DOMAIN goMap)
  <2>1. PICK n \in Nat : n = Len(mapData)
    BY <1>1
  <2> DEFINE f == [i \in 1..n |-> Class(mapData[i].key)]
  <2>2. f \in [1..n -> DOMAIN goMap]
    BY <1>1, <2>1
  <2>3. \A i, j \in 1..n : f[i] = f[j] => i = j
    BY <1>1, <2>1 DEF Apart
  <2>4. \A c \in DOMAIN goMap : \E i \in 1..n : f[i] = c
    BY <1>1, <2>1
  <2> HIDE DEF f
  <2> QED BY <2>1, <2>2, <2>3, <2>4, CountedOnce
<1>3. \A i \in DOMAIN mapData : GoLookup(Class(mapData[i].key)) = Found(mapData[i].val)
  BY <1>1 DEF GoLookup
<1>4. Cardinality(ToSet(rng.seen)) = Len(rng.seen)
  <2>1. rng.seen \in Seq(Classes) /\ Once(rng.seen)
    BY DEF MapInv, RangeInv
  <2> QED BY <2>1, OnceCounts
<1>5. rng.on /\ rng.left = <<>> => rng.stay \subseteq ToSet(rng.seen)
  <2>1. rng.seen \in Seq(Classes)
    BY DEF MapInv, RangeInv
  <2>2. \A c : (\E j \in 1..Len(rng.seen) : rng.seen[j] = c) => c \in ToSet(rng.seen)
    BY <2>1, SetOfSeq
  <2>3. rng.left = <<>> => \A c \in rng.stay : \E j \in 1..Len(rng.seen) : rng.seen[j] = c
    BY DEF MapInv, RangeInv
  <2> QED BY <2>2, <2>3
<1>6. ToSet(pool) \cap held = {} /\ Cardinality(ToSet(pool)) = Len(pool)
  <2>1. pool \in Seq(PoolItems) /\ Once(pool) /\ \A i \in 1..Len(pool) : pool[i] \notin held
    BY DEF MapInv, PoolInv
  <2>2. \A x \in ToSet(pool) : x \notin held
    BY <2>1, SetOfSeq
  <2> QED BY <2>1, <2>2, OnceCounts
<1>7. once.runs <= 1 /\ Cardinality(once.told) <= 1
  <2>1. once.runs \in {0, 1} /\ (once.told = {} \/ once.told = {once.panicked})
    BY DEF MapInv, OnceInv
  <2>2. Cardinality({}) = 0 /\ Cardinality({once.panicked}) = 1
    BY FS_EmptySet, FS_Singleton
  <2>3. Cardinality(once.told) \in {0, 1}
    BY <2>1, <2>2
  <2> QED BY <2>1, <2>3
<1>8. mapRet.js = mapRet.go
  BY DEF MapInv
<1> QED BY <1>2, <1>3, <1>4, <1>5, <1>6, <1>7, <1>8 DEF SyncMapAgrees

\* sync.Map answers as Go's map with keys compared by value, a Range meets
\* every key that stays exactly once, a pool has no item twice and a OnceFunc
\* runs once with one outcome (gs/sync/sync.ts), for any values and number of
\* operations, if Swap is never given a key equal to another object's.
THEOREM SyncMapIsAMap ==
  ASSUME SwapEqual = FALSE
  PROVE  SyncMapSpec => []SyncMapAgrees
<1>1. SyncMapInit => MapInv
  <2> SUFFICES ASSUME SyncMapInit PROVE MapInv
    OBVIOUS
  <2>1. Holds(mapData, goMap)
    BY NothingHolds DEF SyncMapInit
  <2>2. RangeInv
    BY NoRangeFits DEF SyncMapInit, RangeInv
  <2>3. PoolInv /\ OnceInv
    BY DEF SyncMapInit, PoolInv, OnceInv, Once
  <2> QED BY <2>1, <2>2, <2>3 DEF SyncMapInit, MapInv
<1>2. MapInv /\ [SyncMapNext]_mapVars => MapInv'
  BY MapInvKept
<1>3. MapInv => SyncMapAgrees
  BY MapInvAgrees
<1> QED BY <1>1, <1>2, <1>3, PTL DEF SyncMapSpec

-----------------------------------------------------------------------------
(* reflect.Value.  A Value that stands for a variable has the kind of the   *)
(* variable; the others are no maps and no byte slices.                     *)

JsWords == [v : Int, big : BOOLEAN]
Kinds == {KindOf[p] : p \in Places} \cup {"invalid", "int"}

Cells ==
  /\ cells \in [Places -> JsWords]
  /\ goCells \in [Places -> Int]
  /\ maps = [o \in MapObjects |-> maps[o]]

Values ==
  /\ vals \in [Handles -> [kind : Kinds, value : JsWords, at : Places \cup {""}]]
  /\ \A h \in Handles : IF vals[h].at = "" THEN vals[h].kind \in {"invalid", "int"}
                        ELSE vals[h].kind = KindOf[vals[h].at]

ReflectInv == Cells /\ Values /\ StoresArrive

LEMMA StoredParts ==
  ASSUME NEW kind, NEW x \in Int
  PROVE  Stored(kind, x) \in JsWords /\ Stored(kind, x).v = x
BY DEF Stored, Word, JsWords

LEMMA ReflectInitHolds == ReflectInit => ReflectInv
<1> SUFFICES ASSUME ReflectInit PROVE ReflectInv
  OBVIOUS
<1>1. NilWord \in JsWords /\ NilWord.v = -1
  BY DEF NilWord, Word, JsWords
<1>2. \A p \in Places : Stored(KindOf[p], 0) \in JsWords /\ Stored(KindOf[p], 0).v = 0
  BY StoredParts
<1>3. /\ cells \in [Places -> JsWords] /\ goCells \in [Places -> Int]
      /\ \A p \in Places : cells[p].v = goCells[p]
  BY <1>1, <1>2 DEF ReflectInit
<1>4. maps = [o \in MapObjects |-> maps[o]] /\ maps = goMaps
  BY DEF ReflectInit
<1>5. Values
  <2>1. InvalidValue \in [kind : Kinds, value : JsWords, at : Places \cup {""}]
    BY <1>1 DEF InvalidValue, Value, Kinds
  <2> QED BY <2>1 DEF ReflectInit, Values, InvalidValue, Value
<1>6. \A h \in Handles : vals[h].at = ""
  BY DEF ReflectInit, InvalidValue, Value
<1> QED BY <1>3, <1>4, <1>5, <1>6 DEF ReflectInv, Cells, StoresArrive

\* A store reaches the variable of the Value on both sides, and the other
\* Values of that variable no longer count.
LEMMA StoreReaches ==
  ASSUME ReflectInv, NEW h \in Handles, NEW x \in JsWords, NEW y \in Int,
         x.v = y \/ vals[h].at = "bytes",
         StoreValue(h, x), GoStore(h, y), UNCHANGED <<maps, goMaps>>
  PROVE  ReflectInv'
<1>1. vals \in [Handles -> [kind : Kinds, value : JsWords, at : Places \cup {""}]]
  BY DEF ReflectInv, Values
<1>2. vals' = [vals EXCEPT ![h].value = x]
  BY DEF StoreValue
<1>3. Values'
  BY <1>2 DEF ReflectInv, Values
<1>4. Cells'
  <2>1. cells' \in [Places -> JsWords]
    BY <1>1 DEF ReflectInv, Cells, StoreValue
  <2>2. goCells' \in [Places -> Int]
    BY <1>1 DEF ReflectInv, Cells, GoStore
  <2> QED BY <2>1, <2>2 DEF ReflectInv, Cells
<1>5. \A p \in Places \ {"bytes"} : cells'[p].v = goCells'[p]
  BY <1>1 DEF ReflectInv, Cells, StoresArrive, StoreValue, GoStore
<1>6. ASSUME NEW k \in Handles, k \notin stale', vals'[k].at \notin {"", "bytes"}
      PROVE  vals'[k].value.v = goCells'[vals'[k].at]
  <2>1. vals'[k].at = vals[k].at /\ vals[k].at \in Places
    BY <1>1, <1>2, <1>6
  <2>2. CASE k = h
    <3>1. vals'[k].value = x /\ x.v = y
      BY <1>1, <1>2, <1>6, <2>1, <2>2
    <3>2. goCells'[vals[h].at] = y
      BY <1>6, <2>1, <2>2 DEF GoStore, ReflectInv, Cells
    <3> QED BY <2>1, <2>2, <3>1, <3>2
  <2>3. CASE k # h
    <3>1. vals'[k] = vals[k]
      BY <1>1, <1>2, <2>3
    <3>2. k \notin stale /\ vals[k].at # vals[h].at
      BY <1>6, <2>1, <2>3 DEF GoStore, Of
    <3>3. goCells'[vals[k].at] = goCells[vals[k].at]
      BY <2>1, <3>2 DEF GoStore, ReflectInv, Cells
    <3>4. vals[k].value.v = goCells[vals[k].at]
      BY <1>6, <2>1, <3>2 DEF ReflectInv, StoresArrive, Read, GoRead
    <3> QED BY <3>1, <3>3, <3>4
  <2> QED BY <2>2, <2>3
<1>7. StoresArrive'
  BY <1>5, <1>6 DEF ReflectInv, StoresArrive, Read, GoRead
<1> QED BY <1>3, <1>4, <1>7 DEF ReflectInv

\* A variable assigned on both sides: the Values of it no longer count.
LEMMA AssignedKeeps ==
  ASSUME ReflectInv, NEW p \in Places, NEW x \in JsWords,
         cells' = [cells EXCEPT ![p] = x], goCells' = [goCells EXCEPT ![p] = x.v],
         WrittenPast(p), UNCHANGED <<maps, vals, goMaps>>
  PROVE  ReflectInv'
<1>1. Cells'
  BY DEF ReflectInv, Cells, JsWords
<1>2. \A q \in Places \ {"bytes"} : cells'[q].v = goCells'[q]
  BY DEF ReflectInv, Cells, StoresArrive
<1>3. ASSUME NEW k \in Handles, k \notin stale', vals[k].at \notin {"", "bytes"}
      PROVE  vals[k].value.v = goCells'[vals[k].at]
  <2>1. vals[k].at \in Places
    BY <1>3 DEF ReflectInv, Values
  <2>2. k \notin stale /\ vals[k].at # p
    BY <1>3 DEF WrittenPast, Of
  <2>3. vals[k].value.v = goCells[vals[k].at]
    BY <1>3, <2>1, <2>2 DEF ReflectInv, StoresArrive, Read, GoRead
  <2> QED BY <2>1, <2>2, <2>3 DEF ReflectInv, Cells
<1>4. StoresArrive'
  BY <1>2, <1>3 DEF ReflectInv, StoresArrive, Read, GoRead
<1> QED BY <1>1, <1>4 DEF ReflectInv, Values

LEMMA AssignKeeps ==
  ASSUME ReflectInv, NEW p \in Places, NEW x \in Data, Assign(p, x)
  PROVE  ReflectInv'
<1>1. x \in Int
  BY DEF Data
<1>2. Stored(KindOf[p], x) \in JsWords /\ Stored(KindOf[p], x).v = x
  BY <1>1, StoredParts
<1>3. /\ cells' = [cells EXCEPT ![p] = Stored(KindOf[p], x)] /\ goCells' = [goCells EXCEPT ![p] = x]
      /\ WrittenPast(p) /\ UNCHANGED <<maps, vals, goMaps>>
  BY DEF Assign
<1> QED BY <1>2, <1>3, AssignedKeeps

LEMMA AssignMapKeeps ==
  ASSUME ReflectInv, NEW o \in MapObjects, AssignMap(o)
  PROVE  ReflectInv'
<1>1. MapRef(o) \in JsWords
  BY DEF MapRef, Word, JsWords
<1>2. /\ cells' = [cells EXCEPT !["m"] = MapRef(o)] /\ goCells' = [goCells EXCEPT !["m"] = MapRef(o).v]
      /\ WrittenPast("m") /\ UNCHANGED <<maps, vals, goMaps>>
  BY DEF AssignMap
<1>3. "m" \in Places
  BY DEF Places
<1> QED BY <1>1, <1>2, <1>3, AssignedKeeps

\* StoresArrive, for the next state, part by part.
LEMMA ArriveNext ==
  ASSUME \A p \in Places \ {"bytes"} : cells'[p].v = goCells'[p], maps' = goMaps',
         \A k \in Handles : k \notin stale' /\ vals'[k].at \notin {"", "bytes"}
                          => vals'[k].value.v = goCells'[vals'[k].at]
  PROVE  StoresArrive'
BY DEF StoresArrive, Read, GoRead

LEMMA NewValueKeeps ==
  ASSUME ReflectInv, NEW h \in Handles,
         NEW v \in [kind : Kinds, value : JsWords, at : Places \cup {""}],
         IF v.at = "" THEN v.kind \in {"invalid", "int"} ELSE v.kind = KindOf[v.at],
         v.at # "" => v.value = cells[v.at],
         vals' = [vals EXCEPT ![h] = v], Made(h), UNCHANGED <<cells, maps, goCells, goMaps>>
  PROVE  ReflectInv'
<1>1. Values'
  BY DEF ReflectInv, Values
<1>2. ASSUME NEW k \in Handles, k \notin stale', vals'[k].at \notin {"", "bytes"}
      PROVE  vals'[k].value.v = goCells[vals'[k].at]
  <2>1. CASE k = h
    <3>1. vals'[k] = v
      BY <2>1 DEF ReflectInv, Values
    <3>2. v.at \in Places \ {"bytes"} /\ v.value = cells[v.at]
      BY <1>2, <3>1
    <3>3. cells[v.at].v = goCells[v.at]
      BY <3>2 DEF ReflectInv, StoresArrive
    <3> QED BY <3>1, <3>2, <3>3
  <2>2. CASE k # h
    <3>1. vals'[k] = vals[k] /\ k \notin stale
      BY <1>2, <2>2 DEF ReflectInv, Values, Made
    <3> QED BY <1>2, <3>1 DEF ReflectInv, StoresArrive, Read, GoRead
  <2> QED BY <2>1, <2>2
<1>3. /\ \A p \in Places \ {"bytes"} : cells'[p].v = goCells'[p]
      /\ maps' = goMaps'
  BY DEF ReflectInv, StoresArrive
<1>4. \A k \in Handles : k \notin stale' /\ vals'[k].at \notin {"", "bytes"}
                      => vals'[k].value.v = goCells'[vals'[k].at]
  BY <1>2
<1>5. StoresArrive'
  BY <1>3, <1>4, ArriveNext
<1> QED BY <1>1, <1>5 DEF ReflectInv, Cells

LEMMA AtKeeps ==
  ASSUME ReflectInv, NEW h \in Handles, NEW p \in Places, At(h, p)
  PROVE  ReflectInv'
<1>1. Value(KindOf[p], cells[p], p) \in [kind : Kinds, value : JsWords, at : Places \cup {""}]
  BY DEF Value, Kinds, ReflectInv, Cells
<1>2. p # ""
  BY DEF Places
<1> QED BY <1>1, <1>2, NewValueKeeps DEF At, Value

LEMMA ValueOfKeeps ==
  ASSUME ReflectInv, NEW h \in Handles, NEW x \in Data, ValueOfWord(h, x)
  PROVE  ReflectInv'
<1>1. Value("int", Word(x, FALSE), "") \in [kind : Kinds, value : JsWords, at : Places \cup {""}]
  BY DEF Value, Kinds, Word, JsWords, Data
<1> QED BY <1>1, NewValueKeeps DEF ValueOfWord, Value

LEMMA SetBasicKeeps ==
  ASSUME ReflectInv, NEW h \in Handles, NEW s \in DOMAIN SetterKinds, NEW x \in Data,
         SetBasic(h, s, x)
  PROVE  ReflectInv'
<1>1. Stored(vals[h].kind, x) \in JsWords /\ Stored(vals[h].kind, x).v = x
  BY StoredParts DEF Data
<1>2. x \in Int
  BY DEF Data
<1> QED BY <1>1, <1>2, StoreReaches DEF SetBasic

\* The Value stored has not been written past: it carries what its variable holds.
LEMMA SetKeeps ==
  ASSUME StaleSet = FALSE, ReflectInv, NEW h \in Handles, NEW g \in Handles, Set(h, g)
  PROVE  ReflectInv'
<1>1. vals[g].value \in JsWords /\ vals[g].at \in Places \cup {""} /\ vals[h].at \in Places \cup {""}
  BY DEF ReflectInv, Values
<1>2. g \notin stale /\ vals[g].kind = vals[h].kind
  BY DEF Set
<1>3. GoRead(g) \in Int
  BY <1>1 DEF GoRead, ReflectInv, Cells, JsWords
<1>4. CASE vals[g].at = "bytes"
  <2>1. vals[h].kind = KindOf["bytes"]
    BY <1>2, <1>4 DEF ReflectInv, Values
  <2>2. vals[h].at \in Places /\ KindOf[vals[h].at] = KindOf["bytes"]
    <3>1. KindOf["bytes"] \notin {"invalid", "int"}
      BY DEF KindOf
    <3> QED BY <1>1, <2>1, <3>1 DEF ReflectInv, Values
  <2>3. vals[h].at = "bytes"
    BY <2>2 DEF Places, KindOf
  <2> QED BY <1>1, <1>3, <2>3, StoreReaches DEF Set
<1>5. CASE vals[g].at # "bytes"
  <2>1. vals[g].value.v = GoRead(g)
    BY <1>2, <1>5 DEF ReflectInv, StoresArrive, Read, GoRead
  <2> QED BY <1>1, <1>3, <2>1, StoreReaches DEF Set
<1> QED BY <1>4, <1>5

LEMMA SetZeroKeeps ==
  ASSUME ReflectInv, NEW h \in Handles, SetZero(h)
  PROVE  ReflectInv'
<1>1. ZeroReflectValue(vals[h].kind) \in JsWords
  BY DEF ZeroReflectValue, NilWord, Word, JsWords
<1>2. ZeroReflectValue(vals[h].kind).v \in Int
  BY <1>1 DEF JsWords
<1> QED BY <1>1, <1>2, StoreReaches DEF SetZero

\* What SetBytes stores in Go and not in the code is the byte slice.
LEMMA SetBytesKeeps ==
  ASSUME ReflectInv, NEW h \in Handles, NEW x \in Data, SetBytes(h, x)
  PROVE  ReflectInv'
<1>1. vals[h].at \in Places /\ KindOf[vals[h].at] = "slice"
  BY DEF ReflectInv, Values, SetBytes
<1>2. vals[h].at = "bytes"
  BY <1>1 DEF Places, KindOf
<1>3. x \in Int /\ Word(x, FALSE) \in JsWords
  BY DEF Data, Word, JsWords
<1>4. goCells' = [goCells EXCEPT !["bytes"] = x] /\ UNCHANGED <<cells, maps, goMaps>>
  BY <1>2 DEF SetBytes, GoStore
<1>5. vals' = [vals EXCEPT ![h].value = Word(x, FALSE)]
  BY DEF SetBytes
<1>6. Cells'
  BY <1>3, <1>4 DEF ReflectInv, Cells
<1>7. Values'
  BY <1>3, <1>5 DEF ReflectInv, Values
<1>8. ASSUME NEW k \in Handles, k \notin stale', vals'[k].at \notin {"", "bytes"}
      PROVE  vals'[k].value.v = goCells'[vals'[k].at]
  <2>1. k # h /\ vals'[k] = vals[k] /\ vals[k].at \in Places
    BY <1>2, <1>5, <1>8 DEF ReflectInv, Values
  <2>2. k \notin stale
    BY <1>2, <1>8, <2>1 DEF SetBytes, GoStore
  <2> QED BY <1>4, <1>8, <2>1, <2>2 DEF ReflectInv, Cells, StoresArrive, Read, GoRead
<1>9. StoresArrive'
  BY <1>4, <1>8 DEF ReflectInv, Cells, StoresArrive, Read, GoRead
<1> QED BY <1>6, <1>7, <1>9 DEF ReflectInv

LEMMA SetMapIndexKeeps ==
  ASSUME ReflectInv, NEW h \in Handles, NEW k, NEW e, SetMapIndex(h, k, e)
  PROVE  ReflectInv'
<1>1. vals[h].at \in Places /\ KindOf[vals[h].at] = "map"
  BY DEF ReflectInv, Values, SetMapIndex
<1>2. vals[h].at = "m"
  BY <1>1 DEF Places, KindOf
<1>3. "m" \in Places /\ "m" # "bytes" /\ "m" # ""
  BY DEF Places
<1>4. PICK o \in MapOf(CurrentValue(vals[h])) : maps' = [maps EXCEPT ![o] = PutEntry(@, k, e)]
  BY DEF SetMapIndex
<1>5. CurrentValue(vals[h]).v = goCells["m"]
  BY <1>2, <1>3 DEF CurrentValue, ReflectInv, StoresArrive
<1>6. MapOf([v |-> goCells[vals[h].at]]) = {o} /\ o \in MapObjects
  BY <1>2, <1>4, <1>5 DEF MapOf, MapObjects
<1>7. goMaps' = [p \in MapObjects |-> IF p = o THEN PutEntry(goMaps[p], k, e) ELSE goMaps[p]]
  BY <1>2, <1>3, <1>6 DEF SetMapIndex
<1>8. maps' = [p \in MapObjects |-> IF p = o THEN PutEntry(maps[p], k, e) ELSE maps[p]]
  BY <1>4, <1>6 DEF ReflectInv, Cells
<1>9. UNCHANGED <<cells, vals, goCells, stale>> /\ maps = goMaps
  BY DEF SetMapIndex, ReflectInv, StoresArrive
<1>10. maps' = goMaps' /\ maps' = [p \in MapObjects |-> maps'[p]]
  BY <1>7, <1>8, <1>9
<1> QED BY <1>9, <1>10 DEF ReflectInv, Cells, Values, StoresArrive, Read, GoRead

LEMMA ReflectStepKeeps ==
  ASSUME StaleSet = FALSE
  PROVE  ReflectInv /\ [ReflectNext]_reflectVars => ReflectInv'
<1> SUFFICES ASSUME ReflectInv, [ReflectNext]_reflectVars PROVE ReflectInv'
  OBVIOUS
<1>1. ASSUME NEW p \in Places, NEW x \in Data, Assign(p, x) PROVE ReflectInv'
  BY <1>1, AssignKeeps
<1>2. ASSUME NEW o \in MapObjects, AssignMap(o) PROVE ReflectInv'
  BY <1>2, AssignMapKeeps
<1>3. ASSUME NEW h \in Handles, NEW p \in Places, At(h, p) PROVE ReflectInv'
  BY <1>3, AtKeeps
<1>4. ASSUME NEW h \in Handles, NEW x \in Data, ValueOfWord(h, x) \/ SetBytes(h, x) PROVE ReflectInv'
  BY <1>4, ValueOfKeeps, SetBytesKeeps
<1>5. ASSUME NEW h \in Handles, NEW s \in DOMAIN SetterKinds, NEW x \in Data, SetBasic(h, s, x)
      PROVE  ReflectInv'
  BY <1>5, SetBasicKeeps
<1>6. ASSUME NEW h \in Handles, NEW g \in Handles, Set(h, g) PROVE ReflectInv'
  BY <1>6, SetKeeps
<1>7. ASSUME NEW h \in Handles, SetZero(h) PROVE ReflectInv'
  BY <1>7, SetZeroKeeps
<1>8. ASSUME NEW h \in Handles, NEW k \in MapKeys, NEW e \in Data \union {-1}, SetMapIndex(h, k, e)
      PROVE  ReflectInv'
  BY <1>8, SetMapIndexKeeps
<1>9. ASSUME NEW h \in Handles, SetMapIndexNil(h) PROVE ReflectInv'
  BY <1>9 DEF SetMapIndexNil, ReflectInv, Cells, Values, StoresArrive, Read, GoRead
<1>10. CASE UNCHANGED reflectVars
  BY <1>10 DEF reflectVars, ReflectInv, Cells, Values, StoresArrive, Read, GoRead
<1> QED BY <1>1, <1>2, <1>3, <1>4, <1>5, <1>6, <1>7, <1>8, <1>9, <1>10 DEF ReflectNext

\* What a program stores through reflect.Values is in the variables and maps
\* where Go puts it, and a Value not written past reads its variable, whatever
\* Values the program holds and whatever it assigns meanwhile (storeValue,
\* currentValue and Set of class Value), if Set takes no Value written past.
THEOREM ReflectStoresArrive ==
  ASSUME StaleSet = FALSE
  PROVE  ReflectSpec => []StoresArrive
<1>1. ReflectInit => ReflectInv
  BY ReflectInitHolds
<1>2. ReflectInv /\ [ReflectNext]_reflectVars => ReflectInv'
  BY ReflectStepKeeps
<1>3. ReflectInv => StoresArrive
  BY DEF ReflectInv
<1> QED BY <1>1, <1>2, <1>3, PTL DEF ReflectSpec

-----------------------------------------------------------------------------
(* bytes.Buffer and the readers. *)

Buf == [arr : Seq(Nat), len : Nat, off : Nat, lastRead : Int, null : BOOLEAN]

\* u stands in arr after the first k bytes.
Stands(arr, k, u) == k + Len(u) <= Len(arr) /\ \A i \in 1..Len(u) : arr[k + i] = u[i]

\* The bytes in use of b are p, which the offset has passed, then u, then n more.
Holding(b, n, p, u) ==
  /\ b \in Buf /\ p \in Seq(Nat) /\ u \in Seq(Nat) /\ n \in Nat
  /\ b.off = Len(p) /\ b.len = Len(p) + Len(u) + n /\ b.len <= Len(b.arr)
  /\ Stands(b.arr, 0, p) /\ Stands(b.arr, Len(p), u)

Tells(b, p, u) == Holding(b, 0, p, u) /\ (b.null => b.len = 0)

BufferInv ==
  /\ Tells(buf, past, unread)
  /\ (buf.lastRead > 0 /\ buf.off > 0) =>
       lastRune = SubSeq(past, Len(past) - buf.lastRead + 1, Len(past))

\* x is the part of s after the first i bytes and up to the first j.
Part(x, s, i, j) ==
  /\ x \in Seq(Nat) /\ s \in Seq(Nat) /\ i \in Nat /\ j \in Nat
  /\ i <= j /\ j <= Len(s) /\ x = SubSeq(s, i + 1, j)

ReaderInv ==
  /\ rd \in [s : Seq(Nat), i : Nat, prevRune : Int] /\ rd.prevRune <= rd.i
  /\ rstart \in Nat
  /\ IF rstart <= Len(rd.s) THEN Part(rout, rd.s, rstart, rd.i) ELSE rd.i = rstart /\ rout = <<>>

-----------------------------------------------------------------------------
(* Parts of sequences. *)

\* x has the m elements of a and then the n of b.
Joins(x, a, m, b, n) ==
  /\ Len(x) = m + n
  /\ \A i \in 1..m : x[i] = a[i]
  /\ \A i \in 1..n : x[m + i] = b[i]

LEMMA Glued ==
  ASSUME NEW a \in Seq(Nat), NEW b \in Seq(Nat), NEW m \in Nat, NEW n \in Nat,
         m = Len(a), n = Len(b)
  PROVE  \E x \in Seq(Nat) : x = a \o b /\ Joins(x, a, m, b, n)
<1>1. /\ a \o b \in Seq(Nat) /\ Len(a \o b) = m + n
      /\ \A i \in 1..m : (a \o b)[i] = a[i]
  BY ConcatParts
<1>2. ASSUME NEW i \in 1..n PROVE (a \o b)[m + i] = b[i]
  <2>1. m + i \in (m + 1)..(m + n) /\ (m + i) - m = i
    OBVIOUS
  <2>2. \A k \in (Len(a) + 1)..(Len(a) + Len(b)) : (a \o b)[k] = b[k - Len(a)]
    BY ConcatParts
  <2> QED BY <2>1, <2>2
<1> QED BY <1>1, <1>2 DEF Joins

\* A sequence cut in two.
LEMMA CutInTwo ==
  ASSUME NEW t \in Seq(Nat), NEW k \in Nat, NEW n \in Nat, Len(t) = k + n
  PROVE  \E a \in Seq(Nat), b \in Seq(Nat) :
           /\ a = SubSeq(t, 1, k) /\ Len(a) = k /\ \A i \in 1..k : a[i] = t[i]
           /\ b = From(t, k) /\ Len(b) = n /\ \A i \in 1..n : b[i] = t[k + i]
<1>1. /\ SubSeq(t, 1, k) \in Seq(Nat) /\ Len(SubSeq(t, 1, k)) = k
      /\ \A i \in 1..k : SubSeq(t, 1, k)[i] = t[i]
  <2>1. k <= Len(t)
    OBVIOUS
  <2> QED BY <2>1
<1>2. /\ SubSeq(t, k + 1, k + n) \in Seq(Nat) /\ Len(SubSeq(t, k + 1, k + n)) = n
      /\ \A i \in 1..n : SubSeq(t, k + 1, k + n)[i] = t[k + i]
  <2>1. k + n <= Len(t)
    OBVIOUS
  <2>2. /\ SubSeq(t, k + 1, k + n) \in Seq(Nat) /\ Len(SubSeq(t, k + 1, k + n)) = n
        /\ \A j \in 1..n : k + j \in 1..Len(t) /\ SubSeq(t, k + 1, k + n)[j] = t[k + j]
    BY <2>1, PartElements
  <2> QED BY <2>2
<1>3. From(t, k) = SubSeq(t, k + 1, k + n)
  BY DEF From
<1> QED BY <1>1, <1>2, <1>3

LEMMA CutJoins ==
  ASSUME NEW t \in Seq(Nat), NEW k \in Nat, NEW n \in Nat, Len(t) = k + n
  PROVE  SubSeq(t, 1, k) \o From(t, k) = t
<1>1. PICK a \in Seq(Nat), b \in Seq(Nat) :
        /\ a = SubSeq(t, 1, k) /\ Len(a) = k /\ \A i \in 1..k : a[i] = t[i]
        /\ b = From(t, k) /\ Len(b) = n /\ \A i \in 1..n : b[i] = t[k + i]
  BY CutInTwo
<1>2. PICK x \in Seq(Nat) : x = a \o b /\ Joins(x, a, k, b, n)
  BY <1>1, Glued
<1>3. ASSUME NEW i \in 1..(k + n) PROVE x[i] = t[i]
  <2>1. CASE i <= k
    BY <1>1, <1>2, <2>1 DEF Joins
  <2>2. CASE ~(i <= k)
    <3>1. i - k \in 1..n /\ k + (i - k) = i
      BY <2>2
    <3>2. x[k + (i - k)] = b[i - k] /\ b[i - k] = t[k + (i - k)]
      BY <1>1, <1>2, <3>1 DEF Joins
    <3> QED BY <3>1, <3>2
  <2> QED BY <2>1, <2>2
<1>4. x = t
  <2>1. Len(x) = k + n
    BY <1>2 DEF Joins
  <2> QED BY <2>1, <1>3, SameElements
<1> QED BY <1>1, <1>2, <1>4

LEMMA JoinAssociates ==
  ASSUME NEW a \in Seq(Nat), NEW b \in Seq(Nat), NEW c \in Seq(Nat)
  PROVE  (a \o b) \o c = a \o (b \o c)
<1>1. PICK m \in Nat, n \in Nat, o \in Nat : m = Len(a) /\ n = Len(b) /\ o = Len(c)
  OBVIOUS
<1>2. PICK x \in Seq(Nat) : x = a \o b /\ Joins(x, a, m, b, n)
  BY <1>1, Glued
<1>3. PICK y \in Seq(Nat) : y = b \o c /\ Joins(y, b, n, c, o)
  BY <1>1, Glued
<1>4. m + n \in Nat /\ n + o \in Nat
  OBVIOUS
<1>5. PICK l \in Seq(Nat) : l = x \o c /\ Joins(l, x, m + n, c, o)
  <2>1. Len(x) = m + n
    BY <1>2 DEF Joins
  <2> QED BY <2>1, <1>1, <1>4, Glued
<1>6. PICK r \in Seq(Nat) : r = a \o y /\ Joins(r, a, m, y, n + o)
  <2>1. Len(y) = n + o
    BY <1>3 DEF Joins
  <2> QED BY <2>1, <1>1, <1>4, Glued
<1>7. ASSUME NEW i \in 1..(m + n + o) PROVE l[i] = r[i]
  <2>1. CASE i <= m
    <3>1. i \in 1..m /\ i \in 1..(m + n)
      BY <2>1
    <3>2. l[i] = x[i]
      BY <3>1, <1>5 DEF Joins
    <3>3. x[i] = a[i]
      BY <3>1, <1>2 DEF Joins
    <3>4. r[i] = a[i]
      BY <3>1, <1>6 DEF Joins
    <3> QED BY <3>2, <3>3, <3>4
  <2>2. CASE m < i /\ i <= m + n
    <3>1. PICK j \in 1..n : i = m + j
      <4>1. i - m \in 1..n /\ i = m + (i - m)
        BY <2>2
      <4> QED BY <4>1
    <3>2. m + j \in 1..(m + n) /\ j \in 1..(n + o)
      OBVIOUS
    <3>3. l[m + j] = x[m + j]
      BY <3>2, <1>5 DEF Joins
    <3>4. x[m + j] = b[j]
      BY <1>2 DEF Joins
    <3>5. r[m + j] = y[j]
      BY <3>2, <1>6 DEF Joins
    <3>6. y[j] = b[j]
      BY <1>3 DEF Joins
    <3> QED BY <3>1, <3>3, <3>4, <3>5, <3>6
  <2>3. CASE m + n < i
    <3>1. PICK j \in 1..o : i = (m + n) + j
      <4>1. i - (m + n) \in 1..o /\ i = (m + n) + (i - (m + n))
        BY <2>3
      <4> QED BY <4>1
    <3>2. i = m + (n + j) /\ n + j \in 1..(n + o)
      BY <3>1
    <3>3. l[(m + n) + j] = c[j]
      BY <1>5 DEF Joins
    <3>4. r[m + (n + j)] = y[n + j]
      BY <3>2, <1>6 DEF Joins
    <3>5. y[n + j] = c[j]
      BY <1>3 DEF Joins
    <3> QED BY <3>1, <3>2, <3>3, <3>4, <3>5
  <2> QED BY <2>1, <2>2, <2>3
<1>8. l = r
  <2>1. Len(l) = m + n + o /\ Len(r) = m + n + o
    BY <1>5, <1>6 DEF Joins
  <2> QED BY <2>1, <1>7, SameElements
<1> QED BY <1>2, <1>3, <1>5, <1>6, <1>8

\* x is a with b behind it.
Glues(x, a, b) == x \in Seq(Nat) /\ a \in Seq(Nat) /\ b \in Seq(Nat) /\ x = a \o b

LEMMA GluesTwice ==
  ASSUME NEW v, NEW w, NEW x, NEW a, NEW b, NEW c,
         Glues(v, a, b), Glues(w, b, c), Glues(x, v, c)
  PROVE  Glues(x, a, w)
<1>1. x = (a \o b) \o c /\ w = b \o c
  BY DEF Glues
<1>2. (a \o b) \o c = a \o (b \o c)
  BY JoinAssociates DEF Glues
<1> QED BY <1>1, <1>2 DEF Glues

\* The end of two sequences joined is the second.
LEMMA EndOfJoined ==
  ASSUME NEW a \in Seq(Nat), NEW b \in Seq(Nat)
  PROVE  SubSeq(a \o b, Len(a \o b) - Len(b) + 1, Len(a \o b)) = b
<1>1. PICK m \in Nat, n \in Nat : m = Len(a) /\ n = Len(b)
  OBVIOUS
<1>2. PICK x \in Seq(Nat) : x = a \o b /\ Joins(x, a, m, b, n)
  BY <1>1, Glued
<1>3. /\ SubSeq(x, m + 1, m + n) \in Seq(Nat) /\ Len(SubSeq(x, m + 1, m + n)) = n
      /\ \A i \in 1..n : SubSeq(x, m + 1, m + n)[i] = x[m + i]
  <2>1. m + n <= Len(x)
    BY <1>2 DEF Joins
  <2> QED BY <2>1, PartElements
<1>4. SubSeq(x, m + 1, m + n) = b
  <2>1. ASSUME NEW i \in 1..n PROVE SubSeq(x, m + 1, m + n)[i] = b[i]
    BY <1>2, <1>3 DEF Joins
  <2> QED BY <1>1, <1>3, <2>1, SameElements
<1>5. Len(x) - n + 1 = m + 1 /\ Len(x) = m + n
  BY <1>2 DEF Joins
<1> QED BY <1>1, <1>2, <1>4, <1>5

-----------------------------------------------------------------------------
(* What stands in an array. *)

LEMMA StandsPart ==
  ASSUME NEW arr \in Seq(Nat), NEW k \in Nat, NEW u \in Seq(Nat), Stands(arr, k, u)
  PROVE  SubSeq(arr, k + 1, k + Len(u)) = u
<1>1. PICK n \in Nat : n = Len(u)
  OBVIOUS
<1>2. k + n <= Len(arr) /\ \A i \in 1..n : arr[k + i] = u[i]
  BY <1>1 DEF Stands
<1>3. /\ SubSeq(arr, k + 1, k + n) \in Seq(Nat) /\ Len(SubSeq(arr, k + 1, k + n)) = n
      /\ \A j \in 1..n : SubSeq(arr, k + 1, k + n)[j] = arr[k + j]
  BY <1>2, PartElements
<1>4. SubSeq(arr, k + 1, k + n) = u
  BY <1>1, <1>2, <1>3, SameElements
<1> QED BY <1>1, <1>4

LEMMA StandsJoined ==
  ASSUME NEW arr \in Seq(Nat), NEW k \in Nat, NEW a \in Seq(Nat), NEW b \in Seq(Nat)
  PROVE  Stands(arr, k, a \o b) <=> Stands(arr, k, a) /\ Stands(arr, k + Len(a), b)
<1>1. PICK m \in Nat, n \in Nat : m = Len(a) /\ n = Len(b)
  OBVIOUS
<1>2. PICK x \in Seq(Nat) : x = a \o b /\ Joins(x, a, m, b, n)
  BY <1>1, Glued
<1>3. /\ Len(x) = m + n
      /\ \A i \in 1..m : x[i] = a[i]
      /\ \A i \in 1..n : x[m + i] = b[i]
  BY <1>2 DEF Joins
<1>4. ASSUME Stands(arr, k, x) PROVE Stands(arr, k, a) /\ Stands(arr, k + m, b)
  <2>1. k + (m + n) <= Len(arr) /\ \A i \in 1..(m + n) : arr[k + i] = x[i]
    BY <1>3, <1>4 DEF Stands
  <2>2. Stands(arr, k, a)
    <3>1. ASSUME NEW i \in 1..m PROVE arr[k + i] = a[i]
      <4>1. i \in 1..(m + n)
        OBVIOUS
      <4> QED BY <4>1, <2>1, <1>3
    <3> QED BY <3>1, <2>1, <1>1 DEF Stands
  <2>3. Stands(arr, k + m, b)
    <3>1. ASSUME NEW i \in 1..n PROVE arr[(k + m) + i] = b[i]
      <4>1. m + i \in 1..(m + n) /\ k + (m + i) = (k + m) + i
        OBVIOUS
      <4>2. arr[k + (m + i)] = x[m + i] /\ x[m + i] = b[i]
        BY <4>1, <2>1, <1>3
      <4> QED BY <4>1, <4>2
    <3>2. (k + m) + n <= Len(arr)
      BY <2>1
    <3> QED BY <3>1, <3>2, <1>1 DEF Stands
  <2> QED BY <2>2, <2>3
<1>5. ASSUME Stands(arr, k, a), Stands(arr, k + m, b) PROVE Stands(arr, k, x)
  <2>1. /\ \A i \in 1..m : arr[k + i] = a[i]
        /\ \A i \in 1..n : arr[(k + m) + i] = b[i]
        /\ (k + m) + n <= Len(arr)
    BY <1>1, <1>5 DEF Stands
  <2>2. ASSUME NEW i \in 1..(m + n) PROVE arr[k + i] = x[i]
    <3>1. CASE i <= m
      <4>1. i \in 1..m
        BY <3>1
      <4> QED BY <4>1, <2>1, <1>3
    <3>2. CASE m < i
      <4>1. PICK j \in 1..n : i = m + j
        <5>1. i - m \in 1..n /\ i = m + (i - m)
          BY <3>2
        <5> QED BY <5>1
      <4>2. arr[(k + m) + j] = b[j] /\ x[m + j] = b[j] /\ (k + m) + j = k + i
        BY <4>1, <2>1, <1>3
      <4> QED BY <4>1, <4>2
    <3> QED BY <3>1, <3>2
  <2>3. k + Len(x) <= Len(arr)
    BY <2>1, <1>3
  <2> QED BY <2>2, <2>3, <1>3 DEF Stands
<1> QED BY <1>1, <1>2, <1>4, <1>5

LEMMA NothingStands ==
  ASSUME NEW arr \in Seq(Nat), NEW k \in Nat, k <= Len(arr)
  PROVE  Stands(arr, k, <<>>)
BY DEF Stands

\* What is at the front of an array that goes on with z.
LEMMA StandsFirst ==
  ASSUME NEW u \in Seq(Nat), NEW z \in Seq(Nat)
  PROVE  /\ u \o z \in Seq(Nat) /\ Len(u \o z) = Len(u) + Len(z)
         /\ Stands(u \o z, 0, u) /\ Stands(u \o z, Len(u), z)
<1>1. u \o z \in Seq(Nat) /\ Len(u \o z) = Len(u) + Len(z)
  BY ConcatParts
<1>2. Stands(u \o z, 0, u \o z)
  BY <1>1 DEF Stands
<1>3. Stands(u \o z, 0, u) /\ Stands(u \o z, 0 + Len(u), z)
  BY <1>1, <1>2, StandsJoined
<1>4. 0 + Len(u) = Len(u)
  OBVIOUS
<1> QED BY <1>1, <1>3, <1>4

\* Writing x over an array leaves what ends before it.
LEMMA OverwriteStands ==
  ASSUME NEW arr \in Seq(Nat), NEW at \in Nat, NEW x \in Seq(Nat), at + Len(x) <= Len(arr)
  PROVE  /\ Overwrite(arr, at, x) \in Seq(Nat) /\ Len(Overwrite(arr, at, x)) = Len(arr)
         /\ Stands(Overwrite(arr, at, x), at, x)
         /\ \A k \in Nat, u \in Seq(Nat) :
              (k + Len(u) <= at /\ Stands(arr, k, u)) => Stands(Overwrite(arr, at, x), k, u)
<1>1. PICK n \in Nat, c \in Nat : n = Len(x) /\ c = Len(arr)
  OBVIOUS
<1>2. /\ \A i \in 1..c : arr[i] \in Nat
      /\ \A i \in 1..n : x[i] \in Nat
      /\ DOMAIN arr = 1..c
  BY <1>1
<1> DEFINE o == [i \in 1..c |-> IF i > at /\ i <= at + n THEN x[i - at] ELSE arr[i]]
<1>3. Overwrite(arr, at, x) = o
  BY <1>1, <1>2 DEF Overwrite
<1>4. o \in [1..c -> Nat]
  <2>1. ASSUME NEW i \in 1..c, i > at, i <= at + n PROVE x[i - at] \in Nat
    <3>1. i - at \in 1..n
      BY <2>1
    <3> QED BY <3>1, <1>2
  <2> QED BY <2>1, <1>2
<1>5. o \in Seq(Nat) /\ Len(o) = c
  BY <1>4, FunctionIsSeq
<1>6. Stands(o, at, x)
  <2>1. ASSUME NEW i \in 1..n PROVE o[at + i] = x[i]
    <3>1. at + i \in 1..c /\ at + i > at /\ at + i <= at + n /\ (at + i) - at = i
      BY <1>1
    <3> QED BY <3>1
  <2> HIDE DEF o
  <2> QED BY <2>1, <1>1, <1>5 DEF Stands
<1>7. ASSUME NEW k \in Nat, NEW u \in Seq(Nat), k + Len(u) <= at, Stands(arr, k, u)
      PROVE  Stands(o, k, u)
  <2>1. PICK l \in Nat : l = Len(u)
    OBVIOUS
  <2>2. ASSUME NEW i \in 1..l PROVE o[k + i] = u[i]
    <3>1. k + i \in 1..c /\ ~(k + i > at)
      BY <1>1, <1>7, <2>1
    <3>2. o[k + i] = arr[k + i]
      BY <3>1
    <3>3. arr[k + i] = u[i]
      BY <1>7, <2>1 DEF Stands
    <3> QED BY <3>2, <3>3
  <2>3. k + l <= c
    BY <1>1, <1>7, <2>1
  <2> HIDE DEF o
  <2> QED BY <2>1, <2>2, <2>3, <1>1, <1>5 DEF Stands
<1> HIDE DEF o
<1> QED BY <1>1, <1>3, <1>5, <1>6, <1>7

LEMMA ZerosIs ==
  ASSUME NEW n \in Nat PROVE Zeros(n) \in Seq(Nat) /\ Len(Zeros(n)) = n
<1>1. Zeros(n) \in [1..n -> Nat]
  BY DEF Zeros
<1> QED BY <1>1, FunctionIsSeq

-----------------------------------------------------------------------------
(* The parts of Buffer. *)

\* g is the buffer with these fields.
Is(g, a, l, o, k, z) ==
  g \in Buf /\ g.arr = a /\ g.len = l /\ g.off = o /\ g.lastRead = k /\ g.null = z

LEMMA Changed ==
  ASSUME NEW b \in Buf, NEW a \in Seq(Nat), NEW l \in Nat, NEW o \in Nat
  PROVE  /\ Is([b EXCEPT !.len = l], b.arr, l, b.off, b.lastRead, b.null)
         /\ Is([b EXCEPT !.off = o], b.arr, b.len, o, b.lastRead, b.null)
         /\ Is([b EXCEPT !.arr = a, !.len = l], a, l, b.off, b.lastRead, b.null)
         /\ Is([b EXCEPT !.arr = a, !.off = o, !.len = l], a, l, o, b.lastRead, b.null)
         /\ Is([b EXCEPT !.off = o, !.len = l], b.arr, l, o, b.lastRead, b.null)
         /\ Is([b EXCEPT !.arr = a, !.len = l, !.null = FALSE], a, l, b.off, b.lastRead, FALSE)
         /\ Is([b EXCEPT !.len = 0, !.off = 0, !.lastRead = 0], b.arr, 0, 0, 0, b.null)
<1>1. Is([b EXCEPT !.len = l], b.arr, l, b.off, b.lastRead, b.null)
  BY DEF Is, Buf
<1>2. Is([b EXCEPT !.off = o], b.arr, b.len, o, b.lastRead, b.null)
  BY DEF Is, Buf
<1>3. Is([b EXCEPT !.arr = a, !.len = l], a, l, b.off, b.lastRead, b.null)
  BY DEF Is, Buf
<1>4. Is([b EXCEPT !.arr = a, !.off = o, !.len = l], a, l, o, b.lastRead, b.null)
  BY DEF Is, Buf
<1>5. Is([b EXCEPT !.off = o, !.len = l], b.arr, l, o, b.lastRead, b.null)
  BY DEF Is, Buf
<1>6. Is([b EXCEPT !.arr = a, !.len = l, !.null = FALSE], a, l, b.off, b.lastRead, FALSE)
  BY DEF Is, Buf
<1>7. Is([b EXCEPT !.len = 0, !.off = 0, !.lastRead = 0], b.arr, 0, 0, 0, b.null)
  <2> DEFINE g == [b EXCEPT !.len = 0, !.off = 0, !.lastRead = 0]
  <2>1. b.arr \in Seq(Nat) /\ b.null \in BOOLEAN /\ 0 \in Nat /\ 0 \in Int
    BY DEF Buf
  <2>2. g.arr = b.arr /\ g.len = 0 /\ g.off = 0 /\ g.lastRead = 0 /\ g.null = b.null
    BY DEF Buf
  <2>3. g \in Buf
    BY <2>1 DEF Buf
  <2> QED BY <2>2, <2>3 DEF Is
<1> QED BY <1>1, <1>2, <1>3, <1>4, <1>5, <1>6, <1>7

\* What the methods read of a buffer: all the bytes, and those to come.
LEMMA BytesAre ==
  ASSUME NEW b, NEW p, NEW u, Tells(b, p, u)
  PROVE  /\ Used(b) = p \o u /\ BufferBytes(b) = u
         /\ (Empty(b) <=> u = <<>>) /\ b.len - b.off = Len(u)
         /\ SubSeq(b.arr, 1, b.len) = p \o u
<1>1. /\ b.arr \in Seq(Nat) /\ p \in Seq(Nat) /\ u \in Seq(Nat)
      /\ b.off = Len(p) /\ b.len = Len(p) + Len(u)
      /\ Stands(b.arr, 0, p) /\ Stands(b.arr, Len(p), u)
  BY DEF Tells, Holding, Buf
<1>2. p \o u \in Seq(Nat) /\ Len(p \o u) = Len(p) + Len(u)
  BY <1>1, ConcatParts
<1>3. Stands(b.arr, 0, p \o u)
  <2>1. 0 + Len(p) = Len(p)
    BY <1>1
  <2> QED BY <2>1, <1>1, StandsJoined
<1>4. SubSeq(b.arr, 1, b.len) = p \o u
  <2>1. SubSeq(b.arr, 0 + 1, 0 + Len(p \o u)) = p \o u
    BY <1>1, <1>2, <1>3, StandsPart
  <2> QED BY <2>1, <1>1, <1>2
<1>5. From(p \o u, Len(p)) = u
  <2>1. SubSeq(p \o u, Len(p \o u) - Len(u) + 1, Len(p \o u)) = u
    BY <1>1, EndOfJoined
  <2>2. Len(p \o u) - Len(u) + 1 = Len(p) + 1
    BY <1>1, <1>2
  <2> QED BY <2>1, <2>2 DEF From
<1>6. (b.len <= b.off <=> u = <<>>) /\ b.len - b.off = Len(u)
  BY <1>1
<1> QED BY <1>1, <1>4, <1>5, <1>6 DEF Used, BufferBytes, Empty

LEMMA ResetTells ==
  ASSUME NEW b \in Buf
  PROVE  Tells(Reset(b), <<>>, <<>>) /\ Reset(b).off = 0 /\ Reset(b).lastRead = 0
<1>1. /\ Reset(b) \in Buf /\ Reset(b).len = 0 /\ Reset(b).off = 0 /\ Reset(b).lastRead = 0
      /\ Reset(b).arr = b.arr /\ Reset(b).null = b.null /\ b.arr \in Seq(Nat)
  <2>1. b.arr \in Seq(Nat) /\ 0 \in Nat
    BY DEF Buf
  <2>2. Is(Reset(b), b.arr, 0, 0, 0, b.null)
    BY <2>1, Changed DEF Reset
  <2> QED BY <2>1, <2>2 DEF Is
<1>2. Stands(Reset(b).arr, 0, <<>>) /\ Len(<<>>) = 0 /\ <<>> \in Seq(Nat)
  BY <1>1, NothingStands
<1> QED BY <1>1, <1>2 DEF Tells, Holding

\* A read offset of zero means that nothing has been passed.
LEMMA PastIs ==
  ASSUME NEW b, NEW n, NEW p, NEW q, NEW u, q = <<>> \/ q = p, Holding(b, n, q, u)
  PROVE  Past(b, p) = q
<1>1. q \in Seq(Nat) /\ b.off = Len(q)
  BY DEF Holding
<1> QED BY <1>1 DEF Past

\* The kind of the last read says nothing of the bytes.
LEMMA TellsAnyRead ==
  ASSUME NEW b, NEW p, NEW u, Tells(b, p, u), NEW k \in Int
  PROVE  /\ Tells([b EXCEPT !.lastRead = k], p, u)
         /\ [b EXCEPT !.lastRead = k].lastRead = k
<1>1. b \in Buf
  BY DEF Tells, Holding
<1>2. /\ [b EXCEPT !.lastRead = k] \in Buf
      /\ [b EXCEPT !.lastRead = k].arr = b.arr /\ [b EXCEPT !.lastRead = k].len = b.len
      /\ [b EXCEPT !.lastRead = k].off = b.off /\ [b EXCEPT !.lastRead = k].null = b.null
      /\ [b EXCEPT !.lastRead = k].lastRead = k
  BY <1>1 DEF Buf
<1> QED BY <1>2 DEF Tells, Holding

\* g has room for n bytes behind the bytes of b, whose front may be gone.
Roomy(g, n, b, p, u) ==
  \E q \in {<<>>, p} :
    Holding(g, n, q, u) /\ ~g.null /\ g.lastRead \in {0, b.lastRead}
      /\ (g.off # 0 => q = p /\ g.lastRead = b.lastRead)

LEMMA Reslices ==
  ASSUME NEW b, NEW p, NEW u, Tells(b, p, u), NEW n \in Nat, ~b.null, n <= Cap(b) - b.len
  PROVE  LET g == [b EXCEPT !.len = @ + n]
         IN Holding(g, n, p, u) /\ ~g.null /\ g.lastRead = b.lastRead /\ g.off = b.off
<1>1. /\ b \in Buf /\ b.len = Len(p) + Len(u) /\ b.len + n <= Len(b.arr)
      /\ b.len \in Nat /\ b.arr \in Seq(Nat)
  BY DEF Tells, Holding, Buf, Cap
<1> DEFINE g == [b EXCEPT !.len = @ + n]
<1>2. /\ g \in Buf /\ g.arr = b.arr /\ g.len = b.len + n /\ g.off = b.off
      /\ g.null = b.null /\ g.lastRead = b.lastRead
  <2>1. b.len + n \in Nat
    BY <1>1
  <2>2. Is(g, b.arr, b.len + n, b.off, b.lastRead, b.null)
    BY <1>1, <2>1, Changed
  <2> QED BY <2>2 DEF Is
<1> HIDE DEF g
<1>3. Holding(g, n, p, u)
  BY <1>1, <1>2 DEF Tells, Holding
<1>4. Holding(g, n, p, u) /\ ~g.null /\ g.lastRead = b.lastRead /\ g.off = b.off
  BY <1>2, <1>3
<1> QED BY <1>4 DEF g

\* A buffer whose array starts with the bytes to come.
LEMMA Fronted ==
  ASSUME NEW g \in Buf, NEW u \in Seq(Nat), NEW n \in Nat, Stands(g.arr, 0, u),
         g.off = 0, g.len = Len(u) + n, g.len <= Len(g.arr)
  PROVE  Holding(g, n, <<>>, u)
<1>1. g.arr \in Seq(Nat)
  BY DEF Buf
<1>2. Stands(g.arr, 0, <<>>) /\ Len(<<>>) = 0 /\ <<>> \in Seq(Nat)
  BY <1>1, NothingStands
<1>3. g.len = Len(<<>>) + Len(u) + n /\ Len(<<>>) \in Nat
  BY <1>2
<1> QED BY <1>2, <1>3 DEF Holding

\* grow on a buffer whose empty space is not yet taken back.
GrownFrom(b, n) ==
  LET m == b.len - b.off
  IN IF ~b.null /\ n <= Cap(b) - b.len THEN [b EXCEPT !.len = @ + n]
     ELSE IF b.null THEN [b EXCEPT !.arr = Zeros(IF n <= SmallBuf THEN SmallBuf ELSE n), !.len = n, !.null = FALSE]
     ELSE IF n <= (Cap(b) \div 2) - m
          THEN [b EXCEPT !.arr = Overwrite(@, 0, BufferBytes(b)), !.off = 0, !.len = m + n]
          ELSE [GrowSlice(b, b.off + n) EXCEPT !.off = 0, !.len = m + n]

LEMMA GrownIsRoomy ==
  ASSUME NEW b, NEW p, NEW u, Tells(b, p, u), NEW n \in Nat
  PROVE  Roomy(GrownFrom(b, n), n, b, p, u)
<1>1. /\ b \in Buf /\ b.len \in Nat /\ b.off \in Nat /\ b.arr \in Seq(Nat) /\ b.lastRead \in Int
      /\ b.len <= Len(b.arr) /\ p \in Seq(Nat) /\ u \in Seq(Nat) /\ b.len = b.off + Len(u)
      /\ Len(u) \in Nat /\ b.off = Len(p) /\ Len(b.arr) \in Nat
      /\ b.null => b.len = 0
      /\ b.null \in BOOLEAN
  BY DEF Tells, Holding, Buf
<1>2. BufferBytes(b) = u /\ b.len - b.off = Len(u)
  BY BytesAre
<1>3. CASE ~b.null /\ n <= Cap(b) - b.len
  <2>1. GrownFrom(b, n) = [b EXCEPT !.len = @ + n]
    BY <1>3 DEF GrownFrom
  <2>2. /\ Holding(GrownFrom(b, n), n, p, u) /\ ~GrownFrom(b, n).null
        /\ GrownFrom(b, n).lastRead = b.lastRead
    BY <1>3, <2>1, Reslices
  <2> QED BY <2>2 DEF Roomy
<1>4. CASE b.null
  <2> DEFINE c == IF n <= SmallBuf THEN SmallBuf ELSE n
             g == [b EXCEPT !.arr = Zeros(c), !.len = n, !.null = FALSE]
  <2>1. c \in Nat /\ n <= c
    BY BufferBounds
  <2>2. Zeros(c) \in Seq(Nat) /\ Len(Zeros(c)) = c
    BY <2>1, ZerosIs
  <2>3. u = <<>> /\ b.off = 0 /\ p = <<>>
    BY <1>1, <1>4
  <2>4. /\ g \in Buf /\ g.arr = Zeros(c) /\ g.len = n /\ g.off = 0 /\ ~g.null
        /\ g.lastRead = b.lastRead
    <3> HIDE DEF c
    <3>1. Is(g, Zeros(c), n, b.off, b.lastRead, FALSE)
      BY <1>1, <2>2, Changed
    <3> QED BY <3>1, <2>3 DEF Is
  <2>5. GrownFrom(b, n) = g
    BY <1>4 DEF GrownFrom
  <2> HIDE DEF g, c
  <2>6. Stands(g.arr, 0, u) /\ g.len = Len(u) + n /\ g.len <= Len(g.arr)
    <3>1. Stands(Zeros(c), 0, <<>>)
      BY <2>2, NothingStands
    <3> QED BY <3>1, <2>1, <2>2, <2>3, <2>4
  <2>7. Holding(g, n, <<>>, u)
    BY <1>1, <2>4, <2>6, Fronted
  <2> QED BY <2>3, <2>4, <2>5, <2>7 DEF Roomy
<1>5. CASE ~b.null /\ ~(n <= Cap(b) - b.len) /\ n <= (Cap(b) \div 2) - Len(u)
  <2> DEFINE o == Overwrite(b.arr, 0, u)
             g == [b EXCEPT !.arr = Overwrite(@, 0, u), !.off = 0, !.len = Len(u) + n]
  <2>1. Len(u) + n <= Len(b.arr)
    <3>1. \A cap \in Nat : cap \div 2 \in Nat /\ cap \div 2 <= cap
      OBVIOUS
    <3>2. PICK half \in Nat : half = Len(b.arr) \div 2 /\ half <= Len(b.arr)
      BY <3>1, <1>1
    <3>3. n <= half - Len(u)
      BY <3>2, <1>5 DEF Cap
    <3>4. \A m, c \in Nat : (n <= half - m /\ half <= c) => m + n <= c
      OBVIOUS
    <3> HIDE DEF o, g
    <3> QED BY <3>2, <3>3, <3>4, <1>1
  <2>2. o \in Seq(Nat) /\ Len(o) = Len(b.arr) /\ Stands(o, 0, u)
    <3>1. 0 + Len(u) <= Len(b.arr)
      BY <2>1, <1>1
    <3> QED BY <3>1, <1>1, OverwriteStands
  <2>3. /\ g \in Buf /\ g.arr = o /\ g.len = Len(u) + n /\ g.off = 0 /\ ~g.null
        /\ g.lastRead = b.lastRead
    <3>1. Len(u) + n \in Nat /\ 0 \in Nat
      BY <1>1
    <3>2. Is(g, o, Len(u) + n, 0, b.lastRead, b.null)
      BY <1>1, <2>2, <3>1, Changed
    <3> QED BY <3>2, <1>5 DEF Is
  <2>4. GrownFrom(b, n) = g
    BY <1>2, <1>5 DEF GrownFrom
  <2> HIDE DEF g, o
  <2>5. Holding(g, n, <<>>, u)
    <3>1. Stands(g.arr, 0, u) /\ g.len <= Len(g.arr)
      BY <2>1, <2>2, <2>3
    <3> QED BY <3>1, <1>1, <2>3, Fronted
  <2> QED BY <2>3, <2>4, <2>5 DEF Roomy
<1>6. CASE ~b.null /\ ~(n <= Cap(b) - b.len) /\ ~(n <= (Cap(b) \div 2) - Len(u))
  <2> DEFINE c0 == Len(u) + (b.off + n)
             c == IF c0 < 2 * (Cap(b) - b.off) THEN 2 * (Cap(b) - b.off) ELSE c0
             z == Zeros(c - Len(u))
             g == [GrowSlice(b, b.off + n) EXCEPT !.off = 0, !.len = Len(u) + n]
  <2>1. c - Len(u) \in Nat /\ n <= c - Len(u)
    BY <1>1 DEF Cap
  <2>2. z \in Seq(Nat) /\ Len(z) = c - Len(u)
    BY <2>1, ZerosIs
  <2>3. u \o z \in Seq(Nat) /\ Len(u \o z) = Len(u) + Len(z) /\ Stands(u \o z, 0, u)
    BY <1>1, <2>2, StandsFirst
  <2>4. GrowSlice(b, b.off + n) = [b EXCEPT !.arr = u \o z, !.len = Len(u)]
    BY <1>2 DEF GrowSlice
  <2>5. /\ g \in Buf /\ g.arr = u \o z /\ g.len = Len(u) + n /\ g.off = 0 /\ ~g.null
        /\ g.lastRead = b.lastRead
    <3> DEFINE h == GrowSlice(b, b.off + n)
    <3>1. Len(u) + n \in Nat /\ 0 \in Nat /\ Len(u) \in Nat
      BY <1>1
    <3>2. Is(h, u \o z, Len(u), b.off, b.lastRead, b.null)
      <4> HIDE DEF z
      <4> QED BY <1>1, <2>3, <2>4, <3>1, Changed
    <3> HIDE DEF h, z, c, c0
    <3>3. h \in Buf /\ h.arr = u \o z /\ h.lastRead = b.lastRead /\ h.null = b.null
      BY <3>2 DEF Is
    <3>4. Is(g, h.arr, Len(u) + n, 0, h.lastRead, h.null)
      <4>1. Is([h EXCEPT !.off = 0, !.len = Len(u) + n], h.arr, Len(u) + n, 0, h.lastRead, h.null)
        BY <3>1, <3>3, <2>3, Changed
      <4> QED BY <4>1 DEF h
    <3> QED BY <3>3, <3>4, <1>6 DEF Is
  <2>6. GrownFrom(b, n) = g
    BY <1>2, <1>6 DEF GrownFrom
  <2>7. g.len <= Len(g.arr)
    <3> HIDE DEF z, c, g
    <3> QED BY <2>1, <2>2, <2>3, <2>5, <1>1
  <2> HIDE DEF g, z, c, c0
  <2>8. Holding(g, n, <<>>, u)
    BY <2>3, <2>5, <2>7, <1>1, Fronted
  <2> QED BY <2>5, <2>6, <2>8 DEF Roomy
<1> QED BY <1>3, <1>4, <1>5, <1>6

LEMMA GrowIsRoomy ==
  ASSUME NEW b, NEW p, NEW u, Tells(b, p, u), NEW n \in Nat
  PROVE  Roomy(Grow(b, n), n, b, p, u)
<1>1. b.len - b.off = Len(u) /\ b \in Buf /\ u \in Seq(Nat) /\ p \in Seq(Nat)
  BY BytesAre DEF Tells, Holding
<1>2. CASE b.len - b.off = 0 /\ b.off # 0
  <2>1. Tells(Reset(b), <<>>, <<>>) /\ Reset(b).off = 0 /\ Reset(b).lastRead = 0 /\ u = <<>>
    BY <1>1, <1>2, ResetTells
  <2>2. Roomy(GrownFrom(Reset(b), n), n, Reset(b), <<>>, <<>>)
    BY <2>1, GrownIsRoomy
  <2>3. Grow(b, n) = GrownFrom(Reset(b), n)
    <3>1. Reset(b).len - Reset(b).off = 0 /\ b.len - b.off = 0
      BY <1>2 DEF Reset, Buf
    <3> QED BY <3>1, <1>2 DEF Grow, GrownFrom
  <2>4. PICK q \in {<<>>, <<>>} : Holding(GrownFrom(Reset(b), n), n, q, <<>>)
    BY <2>2 DEF Roomy
  <2>5. Grow(b, n).off = 0 /\ Grow(b, n).lastRead = 0 /\ ~Grow(b, n).null
    <3>1. Grow(b, n).off = 0
      BY <2>3, <2>4 DEF Holding
    <3> QED BY <3>1, <2>1, <2>2, <2>3 DEF Roomy
  <2>6. Holding(Grow(b, n), n, <<>>, u)
    BY <2>1, <2>3, <2>4
  <2> QED BY <2>5, <2>6 DEF Roomy
<1>3. CASE ~(b.len - b.off = 0 /\ b.off # 0)
  <2>1. Grow(b, n) = GrownFrom(b, n)
    BY <1>3 DEF Grow, GrownFrom
  <2> QED BY <2>1, GrownIsRoomy
<1> QED BY <1>2, <1>3

LEMMA TryGrowIsRoomy ==
  ASSUME NEW b, NEW p, NEW u, Tells(b, p, u), NEW n \in Nat
  PROVE  Roomy(TryGrow(b, n), n, b, p, u)
<1>1. CASE ~b.null /\ n <= Cap(b) - b.len
  <2>1. TryGrow(b, n) = [b EXCEPT !.len = @ + n]
    BY <1>1 DEF TryGrow
  <2>2. /\ Holding(TryGrow(b, n), n, p, u) /\ ~TryGrow(b, n).null
        /\ TryGrow(b, n).lastRead = b.lastRead
    BY <1>1, <2>1, Reslices
  <2> QED BY <2>2 DEF Roomy
<1>2. CASE ~(~b.null /\ n <= Cap(b) - b.len)
  <2>1. TryGrow(b, n) = Grow(b, n)
    BY <1>2 DEF TryGrow
  <2> QED BY <2>1, GrowIsRoomy
<1> QED BY <1>1, <1>2

\* x, written where room was made for it, follows the bytes to come.
LEMMA Filled ==
  ASSUME NEW g, NEW x \in Seq(Nat), NEW q, NEW u, NEW n, Holding(g, n, q, u), ~g.null,
         NEW k \in Nat, k = Len(x), g.len - n + k <= Len(g.arr)
  PROVE  Tells([g EXCEPT !.arr = Overwrite(@, g.len - n, x), !.len = g.len - n + k], q, u \o x)
<1>1. /\ g \in Buf /\ g.arr \in Seq(Nat) /\ g.len \in Nat /\ g.off \in Nat /\ n \in Nat
      /\ q \in Seq(Nat) /\ u \in Seq(Nat) /\ Len(q) \in Nat /\ Len(u) \in Nat
      /\ g.off = Len(q) /\ g.len = Len(q) + Len(u) + n
      /\ Stands(g.arr, 0, q) /\ Stands(g.arr, Len(q), u)
      /\ g.lastRead \in Int /\ g.null \in BOOLEAN
  BY DEF Holding, Buf
<1>2. PICK at \in Nat : at = Len(q) + Len(u)
  BY <1>1
<1>3. g.len - n = at /\ at + k <= Len(g.arr)
  BY <1>1, <1>2
<1> DEFINE o == Overwrite(g.arr, at, x)
<1>4. /\ o \in Seq(Nat) /\ Len(o) = Len(g.arr) /\ Stands(o, at, x)
      /\ \A j \in Nat, v \in Seq(Nat) : (j + Len(v) <= at /\ Stands(g.arr, j, v)) => Stands(o, j, v)
  BY <1>1, <1>3, OverwriteStands
<1> HIDE DEF o
<1>5. Stands(o, 0, q) /\ Stands(o, Len(q), u)
  <2>1. 0 + Len(q) <= at /\ Len(q) + Len(u) <= at /\ 0 \in Nat
    BY <1>1, <1>2
  <2> QED BY <2>1, <1>1, <1>4
<1>6. Stands(o, Len(q), u \o x)
  BY <1>1, <1>2, <1>4, <1>5, StandsJoined
<1>7. u \o x \in Seq(Nat) /\ Len(u \o x) = Len(u) + k
  BY <1>1, ConcatParts
<1> DEFINE h == [g EXCEPT !.arr = Overwrite(@, g.len - n, x), !.len = g.len - n + k]
<1>8. h = [g EXCEPT !.arr = o, !.len = at + k]
  BY <1>3 DEF o
<1>9. Is(h, o, at + k, g.off, g.lastRead, g.null)
  <2> HIDE DEF h
  <2>1. at + k \in Nat
    OBVIOUS
  <2> QED BY <1>1, <1>4, <1>8, <2>1, Changed
<1>10. Tells(h, q, u \o x)
  <2> HIDE DEF h
  <2>1. h \in Buf /\ h.arr = o /\ h.len = at + k /\ h.off = g.off /\ h.null = g.null
    BY <1>9 DEF Is
  <2>2. h.len = Len(q) + Len(u \o x) + 0
    BY <1>1, <1>2, <1>7, <2>1
  <2> QED BY <1>1, <1>3, <1>4, <1>5, <1>6, <1>7, <2>1, <2>2 DEF Tells, Holding
<1> QED BY <1>10

-----------------------------------------------------------------------------
(* The calls of Buffer. *)

\* The fields of a buffer, and what is passed and to come.
LEMMA TellsParts ==
  ASSUME NEW b, NEW p, NEW u, Tells(b, p, u)
  PROVE  /\ b \in Buf /\ b.arr \in Seq(Nat) /\ b.len \in Nat /\ b.off \in Nat
         /\ b.lastRead \in Int /\ b.null \in BOOLEAN
         /\ p \in Seq(Nat) /\ u \in Seq(Nat) /\ Len(p) \in Nat /\ Len(u) \in Nat
         /\ b.off = Len(p) /\ b.len = Len(p) + Len(u) /\ b.len <= Len(b.arr)
         /\ Stands(b.arr, 0, p) /\ Stands(b.arr, Len(p), u)
BY DEF Tells, Holding, Buf

\* A call that ends without a last read keeps the invariant of the buffer.
LEMMA NoLastRead ==
  ASSUME Tells(buf', past', unread'), buf'.lastRead <= 0
  PROVE  BufferInv'
<1>1. buf'.lastRead \in Int
  BY TellsParts
<1>2. ~(buf'.lastRead > 0)
  BY <1>1
<1> QED BY <1>2 DEF BufferInv

\* A step that tells what has been passed and is to come.
LEMMA Became ==
  ASSUME NEW b, NEW p, NEW u, BufferBecomes(b, p, u), Tells(b, p, u)
  PROVE  buf' = b /\ Tells(buf', past', unread')
<1>1. Past(b, p) = p
  BY PastIs DEF Tells
<1> QED BY <1>1 DEF BufferBecomes

\* A reset buffer is empty.
LEMMA ResetKeeps ==
  ASSUME NEW b \in Buf, BufferBecomes(Reset(b), <<>>, <<>>)
  PROVE  BufferInv'
<1>1. Tells(Reset(b), <<>>, <<>>) /\ Reset(b).lastRead = 0
  BY ResetTells
<1>2. buf' = Reset(b) /\ past' = <<>> /\ unread' = <<>>
  BY DEF BufferBecomes, Past
<1>3. buf'.lastRead <= 0
  BY <1>1, <1>2
<1> QED BY <1>1, <1>2, <1>3, NoLastRead

\* h is g with the k bytes x where room was made for n.
Puts(h, g, n, x, k) ==
  /\ x \in Seq(Nat) /\ k \in Nat /\ k = Len(x) /\ g.len - n + k <= Len(g.arr)
  /\ h = [g EXCEPT !.arr = Overwrite(@, g.len - n, x), !.len = g.len - n + k]

LEMMA RoomFilled ==
  ASSUME NEW g, NEW n, NEW b, NEW p, NEW u, NEW x, NEW k, NEW h,
         Roomy(g, n, b, p, u), b.lastRead = 0, Puts(h, g, n, x, k)
  PROVE  Tells(h, Past(h, p), u \o x) /\ h.lastRead = 0
<1>1. PICK q \in {<<>>, p} : Holding(g, n, q, u) /\ ~g.null /\ g.lastRead \in {0, b.lastRead}
  BY DEF Roomy
<1>2. Tells(h, q, u \o x)
  BY <1>1, Filled DEF Puts
<1>3. h.lastRead = 0
  <2>1. g \in Buf
    BY <1>1 DEF Holding
  <2> QED BY <1>1, <2>1 DEF Buf, Puts
<1>4. Past(h, p) = q
  BY <1>1, <1>2, PastIs DEF Tells
<1> QED BY <1>2, <1>3, <1>4

LEMMA RoomyParts ==
  ASSUME NEW g, NEW n, NEW b, NEW p, NEW u, Roomy(g, n, b, p, u)
  PROVE  /\ g \in Buf /\ g.arr \in Seq(Nat) /\ g.len \in Nat /\ Len(g.arr) \in Nat /\ n \in Nat
         /\ g.len <= Len(g.arr) /\ g.len - n \in Nat
<1>1. PICK q \in {<<>>, p} : Holding(g, n, q, u)
  BY DEF Roomy
<1> QED BY <1>1 DEF Holding, Buf

LEMMA BufferWriteKeeps ==
  ASSUME BufferInv, NEW x \in Seq(Nat), BufferWrite(x)
  PROVE  BufferInv'
<1>1. PICK k \in Nat : k = Len(x)
  OBVIOUS
<1> DEFINE b0 == [buf EXCEPT !.lastRead = 0]
           b == TryGrow(b0, Len(x))
           h == [b EXCEPT !.arr = Overwrite(@, b.len - k, x), !.len = b.len - k + k]
<1>2. Tells(b0, past, unread) /\ b0.lastRead = 0
  <2>1. Tells(buf, past, unread) /\ 0 \in Int
    BY DEF BufferInv
  <2> QED BY <2>1, TellsAnyRead
<1>3. Roomy(b, k, b0, past, unread)
  <2> HIDE DEF b0
  <2> QED BY <1>1, <1>2, TryGrowIsRoomy
<1>4. BufferBecomes([b EXCEPT !.arr = Overwrite(@, b.len - k, x)], past, unread \o x)
  BY <1>1 DEF BufferWrite
<1> HIDE DEF b, b0
<1>5. /\ b \in Buf /\ b.len \in Nat /\ b.len - k + k = b.len /\ b.len <= Len(b.arr)
  BY <1>3, RoomyParts
<1>6. [b EXCEPT !.arr = Overwrite(@, b.len - k, x)] = h
  BY <1>5 DEF Buf
<1>7. Tells(h, Past(h, past), unread \o x) /\ h.lastRead = 0
  <2>1. b.len - k + k <= Len(b.arr)
    BY <1>5
  <2>2. Puts(h, b, k, x, k)
    BY <1>1, <2>1 DEF Puts
  <2> HIDE DEF h
  <2> QED BY <1>2, <1>3, <2>2, RoomFilled
<1> HIDE DEF h
<1>8. buf' = h /\ past' = Past(h, past) /\ unread' = unread \o x
  BY <1>4, <1>6 DEF BufferBecomes
<1>9. buf'.lastRead <= 0
  BY <1>7, <1>8
<1> QED BY <1>7, <1>8, <1>9, NoLastRead

\* One round of ReadFrom takes the front of what the reader has.
RoundTakes(r, p, u, chunk) ==
  \E x \in Seq(Nat), y \in Seq(Nat) :
    /\ chunk = x \o y /\ r.left = y
    /\ Tells(r.b, Past(r.b, p), u \o x) /\ r.b.lastRead = 0

LEMMA RoundReads ==
  ASSUME NEW b, NEW p, NEW u, Tells(b, p, u), b.lastRead = 0, NEW chunk \in Seq(Nat),
         NEW r, r = ReadRound(b, chunk)
  PROVE  RoundTakes(r, p, u, chunk)
<1> DEFINE g == Grow(b, MinRead)
           i == g.len - MinRead
           m == Lesser(Len(chunk), Cap(g) - i)
           h == [g EXCEPT !.len = i + m, !.arr = Overwrite(@, i, SubSeq(chunk, 1, m))]
<1>1. Roomy(g, MinRead, b, p, u)
  BY BufferBounds, GrowIsRoomy
<1>2. ReadRound(b, chunk) = [b |-> h, left |-> From(chunk, m)]
  BY DEF ReadRound
<1> HIDE DEF g
<1>3. /\ g \in Buf /\ g.arr \in Seq(Nat) /\ g.len \in Nat /\ g.len <= Len(g.arr) /\ i \in Nat
      /\ i <= Len(g.arr) /\ Len(g.arr) \in Nat
  BY <1>1, BufferBounds, RoomyParts
<1>4. PICK k \in Nat, n \in Nat : m = k /\ Len(chunk) = k + n /\ i + k <= Len(g.arr)
  <2>1. PICK c \in Nat, w \in Nat : c = Len(chunk) /\ w = Len(g.arr) - i
    BY <1>3
  <2>2. m \in Nat /\ c - m \in Nat /\ m <= w
    BY <2>1 DEF Lesser, Cap
  <2>3. Len(chunk) = m + (c - m) /\ i + m <= Len(g.arr)
    <3> HIDE DEF m
    <3> QED BY <1>3, <2>1, <2>2
  <2> QED BY <2>2, <2>3
<1> HIDE DEF m
<1>5. PICK x \in Seq(Nat), y \in Seq(Nat) :
        /\ x = SubSeq(chunk, 1, k) /\ Len(x) = k
        /\ y = From(chunk, k) /\ chunk = x \o y
  <2>1. chunk = SubSeq(chunk, 1, k) \o From(chunk, k)
    BY <1>4, CutJoins
  <2>2. Len(chunk) = k + n
    BY <1>4
  <2>3. PICK x \in Seq(Nat), y \in Seq(Nat) :
          /\ x = SubSeq(chunk, 1, k) /\ Len(x) = k /\ \A j \in 1..k : x[j] = chunk[j]
          /\ y = From(chunk, k) /\ Len(y) = n /\ \A j \in 1..n : y[j] = chunk[k + j]
    <3> HIDE DEF h, i
    <3> QED BY <2>2, CutInTwo
  <2> QED BY <2>1, <2>3
<1>6. Puts(h, g, MinRead, x, k)
  <2>1. h = [g EXCEPT !.arr = Overwrite(@, g.len - MinRead, x), !.len = g.len - MinRead + k]
    BY <1>3, <1>4, <1>5 DEF Buf
  <2> QED BY <2>1, <1>3, <1>4, <1>5 DEF Puts
<1> HIDE DEF h, i
<1>7. Tells(h, Past(h, p), u \o x) /\ h.lastRead = 0
  BY <1>1, <1>6, RoomFilled
<1>8. r.b = h /\ r.left = y
  BY <1>2, <1>4, <1>5
<1> QED BY <1>5, <1>7, <1>8 DEF RoundTakes

\* What has been passed is lost once and for all.
LEMMA PastPast ==
  ASSUME NEW b, NEW c, NEW p, NEW u, Tells(b, Past(b, Past(c, p)), u)
  PROVE  Past(b, Past(c, p)) = Past(b, p)
<1>1. b.off = Len(Past(b, Past(c, p)))
  BY DEF Tells, Holding
<1> QED BY <1>1 DEF Past

LEMMA ReadFromKeeps ==
  ASSUME BufferInv, NEW chunk \in Seq(Nat), ReadFrom(chunk)
  PROVE  BufferInv'
<1> DEFINE b0 == [buf EXCEPT !.lastRead = 0]
           r1 == ReadRound(b0, chunk)
           r2 == ReadRound(r1.b, r1.left)
           r3 == ReadRound(r2.b, r2.left)
<1>1. BufferBecomes(r3.b, past, unread \o chunk) /\ r3.left = <<>>
  BY DEF ReadFrom
<1>2. Tells(b0, past, unread) /\ b0.lastRead = 0
  <2>1. Tells(buf, past, unread) /\ 0 \in Int
    BY DEF BufferInv
  <2> QED BY <2>1, TellsAnyRead
<1> HIDE DEF b0
<1>3. PICK x1 \in Seq(Nat), y1 \in Seq(Nat) :
        /\ chunk = x1 \o y1 /\ r1.left = y1
        /\ Tells(r1.b, Past(r1.b, past), unread \o x1) /\ r1.b.lastRead = 0
  <2>1. RoundTakes(r1, past, unread, chunk)
    BY <1>2, RoundReads
  <2> QED BY <2>1 DEF RoundTakes
<1> HIDE DEF r1
<1>4. PICK v1 : Glues(v1, unread, x1)
  BY <1>2, TellsParts, ConcatParts DEF Glues
<1>5. PICK x2 \in Seq(Nat), y2 \in Seq(Nat) :
        /\ y1 = x2 \o y2 /\ r2.left = y2
        /\ Tells(r2.b, Past(r2.b, Past(r1.b, past)), v1 \o x2) /\ r2.b.lastRead = 0
  <2>1. Tells(r1.b, Past(r1.b, past), v1) /\ r1.b.lastRead = 0 /\ r2 = ReadRound(r1.b, y1)
    BY <1>3, <1>4 DEF Glues
  <2> HIDE DEF r2, r3
  <2>2. RoundTakes(r2, Past(r1.b, past), v1, y1)
    BY <2>1, RoundReads
  <2> QED BY <2>2 DEF RoundTakes
<1>6. Past(r2.b, Past(r1.b, past)) = Past(r2.b, past)
  BY <1>5, PastPast
<1> HIDE DEF r2
<1>7. PICK v2 : Glues(v2, v1, x2)
  BY <1>4, ConcatParts DEF Glues
<1>8. PICK x3 \in Seq(Nat), y3 \in Seq(Nat) :
        /\ y2 = x3 \o y3 /\ r3.left = y3
        /\ Tells(r3.b, Past(r3.b, Past(r2.b, past)), v2 \o x3) /\ r3.b.lastRead = 0
  <2>1. Tells(r2.b, Past(r2.b, past), v2) /\ r2.b.lastRead = 0 /\ r3 = ReadRound(r2.b, y2)
    BY <1>5, <1>6, <1>7 DEF Glues
  <2> HIDE DEF r3
  <2>2. RoundTakes(r3, Past(r2.b, past), v2, y2)
    BY <2>1, RoundReads
  <2> QED BY <2>2 DEF RoundTakes
<1>9. Past(r3.b, Past(r2.b, past)) = Past(r3.b, past)
  BY <1>8, PastPast
<1> HIDE DEF r3
<1>10. v2 \o x3 = unread \o chunk
  <2>1. y2 = x3
    <3>1. y2 = x3 \o <<>>
      BY <1>1, <1>8
    <3> QED BY <3>1, Joined
  <2>2. Glues(y1, x2, x3) /\ Glues(chunk, x1, y1)
    BY <2>1, <1>3, <1>5 DEF Glues
  <2>3. PICK v3 : Glues(v3, v2, x3)
    BY <1>7, ConcatParts DEF Glues
  <2>4. Glues(v3, v1, y1)
    BY <1>7, <2>2, <2>3, GluesTwice
  <2>5. Glues(v3, unread, chunk)
    BY <1>4, <2>2, <2>4, GluesTwice
  <2> QED BY <2>3, <2>5 DEF Glues
<1>11. buf' = r3.b /\ past' = Past(r3.b, past) /\ unread' = unread \o chunk
  BY <1>1 DEF BufferBecomes
<1>12. Tells(buf', past', unread') /\ buf'.lastRead <= 0
  BY <1>8, <1>9, <1>10, <1>11
<1> QED BY <1>12, NoLastRead

LEMMA WriteRuneKeeps ==
  ASSUME BufferInv, WriteRune
  PROVE  BufferInv'
<1> DEFINE b0 == [buf EXCEPT !.lastRead = 0]
           b == TryGrow(b0, 4)
           kept == SubSeq(b.arr, 1, b.len - 4)
           w == <<2, 3>>
           h == [b EXCEPT !.arr = kept \o w, !.len = Len(kept) + 2]
<1>1. BufferBecomes(h, past, unread \o w)
  BY DEF WriteRune
<1>2. Tells(b0, past, unread) /\ b0.lastRead = 0
  <2>1. Tells(buf, past, unread) /\ 0 \in Int
    BY DEF BufferInv
  <2> QED BY <2>1, TellsAnyRead
<1> HIDE DEF b0
<1>3. Roomy(b, 4, b0, past, unread)
  BY <1>2, TryGrowIsRoomy
<1> HIDE DEF b
<1>4. PICK q \in {<<>>, past} : Holding(b, 4, q, unread) /\ ~b.null /\ b.lastRead = 0
  BY <1>2, <1>3 DEF Roomy
<1>5. /\ b \in Buf /\ b.arr \in Seq(Nat) /\ b.off \in Nat /\ q \in Seq(Nat) /\ unread \in Seq(Nat)
      /\ b.off = Len(q) /\ b.len = Len(q) + Len(unread) + 4
      /\ Stands(b.arr, 0, q) /\ Stands(b.arr, Len(q), unread)
      /\ Len(q) \in Nat /\ Len(unread) \in Nat
  BY <1>4 DEF Holding, Buf
<1>6. /\ q \o unread \in Seq(Nat) /\ Len(q \o unread) = Len(q) + Len(unread)
      /\ w \in Seq(Nat) /\ Len(w) = 2
  BY <1>5, ConcatParts
<1>7. kept = q \o unread
  <2>1. 0 + Len(q) = Len(q)
    BY <1>5
  <2>2. Stands(b.arr, 0, q \o unread)
    BY <2>1, <1>5, StandsJoined
  <2>3. SubSeq(b.arr, 0 + 1, 0 + Len(q \o unread)) = q \o unread
    BY <2>2, <1>5, <1>6, StandsPart
  <2>4. 0 + 1 = 1 /\ 0 + Len(q \o unread) = b.len - 4
    BY <1>5, <1>6
  <2> QED BY <2>3, <2>4
<1>8. /\ kept \o w \in Seq(Nat) /\ Len(kept \o w) = Len(q) + Len(unread) + 2
      /\ Stands(kept \o w, 0, q \o unread) /\ Stands(kept \o w, Len(q \o unread), w)
  <2> HIDE DEF w, kept
  <2>1. PICK v \in Seq(Nat) : v = kept /\ v = q \o unread
    BY <1>6, <1>7
  <2>2. /\ v \o w \in Seq(Nat) /\ Len(v \o w) = Len(v) + Len(w)
        /\ Stands(v \o w, 0, v) /\ Stands(v \o w, Len(v), w)
    BY <1>6, StandsFirst
  <2>3. Len(v) = Len(q) + Len(unread) /\ Len(w) = 2
    BY <2>1, <1>6
  <2> QED BY <2>1, <2>2, <2>3
<1> HIDE DEF w, kept
<1>9. Stands(kept \o w, 0, q) /\ Stands(kept \o w, Len(q), unread \o w)
  <2>1. Stands(kept \o w, 0, q) /\ Stands(kept \o w, 0 + Len(q), unread)
    BY <1>5, <1>8, StandsJoined
  <2>2. 0 + Len(q) = Len(q)
    BY <1>5
  <2>3. Stands(kept \o w, Len(q), unread) /\ Stands(kept \o w, Len(q) + Len(unread), w)
    BY <2>1, <2>2, <1>6, <1>8
  <2> QED BY <2>1, <2>3, <1>5, <1>6, <1>8, StandsJoined
<1>10. Is(h, kept \o w, Len(q) + Len(unread) + 2, Len(q), 0, b.null)
  <2>1. Len(kept) + 2 = Len(q) + Len(unread) + 2 /\ Len(q) + Len(unread) + 2 \in Nat /\ 0 \in Nat
    BY <1>5, <1>6, <1>7
  <2>2. Is([b EXCEPT !.arr = kept \o w, !.len = Len(q) + Len(unread) + 2],
           kept \o w, Len(q) + Len(unread) + 2, b.off, b.lastRead, b.null)
    BY <2>1, <1>5, <1>8, Changed
  <2> QED BY <2>1, <2>2, <1>4, <1>5
<1> HIDE DEF h
<1>11. Tells(h, q, unread \o w) /\ h.lastRead = 0
  <2>1. /\ h \in Buf /\ h.arr = kept \o w /\ h.len = Len(q) + Len(unread) + 2 /\ h.off = Len(q)
        /\ h.lastRead = 0 /\ ~h.null
    BY <1>4, <1>10 DEF Is
  <2>2. unread \o w \in Seq(Nat) /\ Len(unread \o w) = Len(unread) + 2
    <3>1. unread \o w \in Seq(Nat) /\ Len(unread \o w) = Len(unread) + Len(w)
      BY <1>5, <1>6, ConcatParts
    <3> QED BY <3>1, <1>6
  <2>3. h.len = Len(q) + Len(unread \o w) + 0 /\ h.len <= Len(h.arr)
    BY <2>1, <2>2, <1>5, <1>8
  <2> QED BY <2>1, <2>2, <2>3, <1>5, <1>9 DEF Tells, Holding
<1>12. buf' = h /\ past' = q /\ unread' = unread \o w
  <2>1. Past(h, past) = q
    BY <1>11, PastIs DEF Tells
  <2> QED BY <2>1, <1>1 DEF BufferBecomes
<1>13. Tells(buf', past', unread') /\ buf'.lastRead <= 0
  BY <1>11, <1>12
<1> QED BY <1>13, NoLastRead

LEMMA GrowByKeeps ==
  ASSUME BufferInv, NEW n \in Nat, GrowBy(n)
  PROVE  BufferInv'
<1> DEFINE g == Grow(buf, n)
           h == [g EXCEPT !.len = @ - n]
<1>1. /\ BufferBecomes(h, past, unread)
      /\ lastRune' = (IF g.off = 0 THEN <<>> ELSE lastRune)
  BY DEF GrowBy
<1>2. Tells(buf, past, unread)
  BY DEF BufferInv
<1>3. Roomy(g, n, buf, past, unread)
  BY <1>2, GrowIsRoomy
<1> HIDE DEF g
<1>4. PICK q \in {<<>>, past} :
        /\ Holding(g, n, q, unread) /\ ~g.null /\ g.lastRead \in {0, buf.lastRead}
        /\ (g.off # 0 => q = past /\ g.lastRead = buf.lastRead)
  BY <1>3 DEF Roomy
<1>5. Is(h, g.arr, g.len - n, g.off, g.lastRead, g.null)
  BY <1>3, RoomyParts, Changed
<1> HIDE DEF h
<1>6. Tells(h, q, unread)
  <2>1. /\ g.off = Len(q) /\ g.len = Len(q) + Len(unread) + n /\ g.len <= Len(g.arr)
        /\ q \in Seq(Nat) /\ unread \in Seq(Nat) /\ Len(q) \in Nat /\ Len(unread) \in Nat
        /\ g.arr \in Seq(Nat) /\ Len(g.arr) \in Nat
        /\ Stands(g.arr, 0, q) /\ Stands(g.arr, Len(q), unread)
    BY <1>4 DEF Holding, Buf
  <2>2. g.len - n = Len(q) + Len(unread) + 0 /\ g.len - n <= Len(g.arr) /\ 0 \in Nat
    BY <2>1
  <2> QED BY <1>4, <1>5, <2>1, <2>2 DEF Tells, Holding, Is
<1>7. buf' = h /\ past' = q /\ unread' = unread
  <2>1. Past(h, past) = q
    BY <1>6, PastIs DEF Tells
  <2> QED BY <2>1, <1>1 DEF BufferBecomes
<1>8. ASSUME buf'.lastRead > 0, buf'.off > 0
      PROVE  lastRune' = SubSeq(past', Len(past') - buf'.lastRead + 1, Len(past'))
  <2>1. h.lastRead = g.lastRead /\ h.off = g.off
    BY <1>5 DEF Is
  <2>2. g.off # 0
    BY <1>7, <1>8, <2>1
  <2>3. q = past /\ g.lastRead = buf.lastRead /\ lastRune' = lastRune
    BY <1>1, <1>4, <2>2
  <2>4. buf.off = h.off
    BY <1>2, <1>6, <2>3, TellsParts
  <2> QED BY <1>7, <1>8, <2>1, <2>3, <2>4 DEF BufferInv
<1> QED BY <1>6, <1>7, <1>8 DEF BufferInv

-----------------------------------------------------------------------------
(* Reading. *)

\* The bytes to come, cut where a read ends.
LEMMA Cuts ==
  ASSUME NEW u \in Seq(Nat), NEW m \in Nat, m <= Len(u)
  PROVE  /\ Glues(u, SubSeq(u, 1, m), From(u, m)) /\ Len(SubSeq(u, 1, m)) = m
<1>1. PICK n \in Nat : Len(u) = m + n
  <2>1. Len(u) - m \in Nat /\ Len(u) = m + (Len(u) - m)
    OBVIOUS
  <2> QED BY <2>1
<1>2. PICK a \in Seq(Nat), b \in Seq(Nat) :
        /\ a = SubSeq(u, 1, m) /\ Len(a) = m /\ \A i \in 1..m : a[i] = u[i]
        /\ b = From(u, m) /\ Len(b) = n /\ \A i \in 1..n : b[i] = u[m + i]
  BY <1>1, CutInTwo
<1>3. SubSeq(u, 1, m) \o From(u, m) = u
  BY <1>1, CutJoins
<1> QED BY <1>2, <1>3 DEF Glues

\* The offset moves over x.
Moves(h, b, x, k) == Is(h, b.arr, b.len, b.off + Len(x), k, b.null)

LEMMA Taken ==
  ASSUME NEW b, NEW p, NEW u, NEW x, NEW y, NEW h, NEW k,
         Tells(b, p, u), Glues(u, x, y), Moves(h, b, x, k)
  PROVE  Tells(h, p \o x, y)
<1>1. /\ b.arr \in Seq(Nat) /\ p \in Seq(Nat) /\ u \in Seq(Nat) /\ Len(p) \in Nat /\ Len(u) \in Nat
      /\ b.off = Len(p) /\ b.len = Len(p) + Len(u) /\ b.len <= Len(b.arr)
      /\ Stands(b.arr, 0, p) /\ Stands(b.arr, Len(p), u)
  BY TellsParts
<1>2. x \in Seq(Nat) /\ y \in Seq(Nat) /\ u = x \o y /\ Len(x) \in Nat /\ Len(y) \in Nat
  BY DEF Glues
<1>3. Len(u) = Len(x) + Len(y)
  BY <1>2, ConcatParts
<1>4. Stands(b.arr, Len(p), x) /\ Stands(b.arr, Len(p) + Len(x), y)
  BY <1>1, <1>2, StandsJoined
<1>5. p \o x \in Seq(Nat) /\ Len(p \o x) = Len(p) + Len(x)
  BY <1>1, <1>2, ConcatParts
<1>6. Stands(b.arr, 0, p \o x)
  <2>1. 0 + Len(p) = Len(p)
    BY <1>1
  <2> QED BY <2>1, <1>1, <1>2, <1>4, StandsJoined
<1>7. /\ h \in Buf /\ h.arr = b.arr /\ h.len = b.len /\ h.off = Len(p) + Len(x) /\ h.null = b.null
  BY <1>1 DEF Is, Moves
<1>8. h.len = Len(p \o x) + Len(y) + 0 /\ 0 \in Nat
  <2>1. \A i, j, l \in Nat : i + (j + l) = (i + j) + l + 0
    OBVIOUS
  <2>2. h.len = Len(p) + (Len(x) + Len(y))
    BY <1>1, <1>3, <1>7
  <2> QED BY <2>1, <2>2, <1>1, <1>2, <1>5
<1>9. Tells(h, p \o x, y)
  <2>1. h.null => h.len = 0
    BY <1>7 DEF Tells
  <2> QED BY <1>1, <1>2, <1>4, <1>5, <1>6, <1>7, <1>8, <2>1 DEF Tells, Holding
<1> QED BY <1>9

\* The offset and the kind of the last read change.
LEMMA OffsetChanged ==
  ASSUME NEW b \in Buf, NEW o \in Nat, NEW k \in Int
  PROVE  /\ Is([b EXCEPT !.off = o, !.lastRead = k], b.arr, b.len, o, k, b.null)
         /\ Is([b EXCEPT !.lastRead = k], b.arr, b.len, b.off, k, b.null)
<1>1. Is([b EXCEPT !.off = o, !.lastRead = k], b.arr, b.len, o, k, b.null)
  BY DEF Is, Buf
<1>2. Is([b EXCEPT !.lastRead = k], b.arr, b.len, b.off, k, b.null)
  BY DEF Is, Buf
<1> QED BY <1>1, <1>2

LEMMA TakeKeeps ==
  ASSUME BufferInv, NEW m \in Nat, m <= Len(unread), NEW k \in {-1, 0}, TakeBytes(m, k)
  PROVE  BufferInv'
<1> DEFINE h == [buf EXCEPT !.off = @ + m, !.lastRead = k]
           x == SubSeq(unread, 1, m)
           y == From(unread, m)
<1>1. /\ Tells(buf, past, unread) /\ BufferBytes(buf) = unread
      /\ buf \in Buf /\ buf.off \in Nat /\ unread \in Seq(Nat)
  BY BytesAre, TellsParts DEF BufferInv
<1>2. BufferBecomes(h, past \o x, y)
  BY <1>1 DEF TakeBytes
<1>3. Glues(unread, x, y) /\ Len(x) = m
  BY <1>1, Cuts
<1>4. Is(h, buf.arr, buf.len, buf.off + m, k, buf.null)
  <2>1. buf.off + m \in Nat /\ k \in Int
    BY <1>1
  <2> QED BY <2>1, <1>1, OffsetChanged
<1> HIDE DEF h, x, y
<1>5. Tells(h, past \o x, y)
  <2>1. Moves(h, buf, x, k)
    BY <1>3, <1>4 DEF Moves
  <2> QED BY <2>1, <1>1, <1>3, Taken
<1>6. buf' = h /\ Tells(buf', past', unread')
  BY <1>2, <1>5, Became
<1>7. buf'.lastRead <= 0
  BY <1>4, <1>6 DEF Is
<1> QED BY <1>6, <1>7, NoLastRead

LEMMA WriteToKeeps ==
  ASSUME BufferInv, NEW n \in Nat, WriteTo(n)
  PROVE  BufferInv'
<1> DEFINE b == [buf EXCEPT !.lastRead = 0]
           m == Lesser(n, Len(unread))
           h == [b EXCEPT !.off = @ + m]
           x == SubSeq(unread, 1, m)
           y == From(unread, m)
<1>1. Tells(b, past, unread) /\ b.lastRead = 0
  <2>1. Tells(buf, past, unread) /\ 0 \in Int
    BY DEF BufferInv
  <2> QED BY <2>1, TellsAnyRead
<1>2. \/ m < Len(unread) /\ BufferBecomes(h, past \o x, y)
      \/ BufferBecomes(Reset(b), <<>>, <<>>)
  <2>1. BufferBytes(b) = unread
    BY <1>1, BytesAre
  <2> QED BY <2>1 DEF WriteTo
<1> HIDE DEF b
<1>3. b \in Buf /\ b.off \in Nat /\ unread \in Seq(Nat) /\ Len(unread) \in Nat
  BY <1>1, TellsParts
<1>4. CASE m < Len(unread) /\ BufferBecomes(h, past \o x, y)
  <2>1. m \in Nat /\ m <= Len(unread)
    BY <1>3 DEF Lesser
  <2> HIDE DEF m
  <2>2. Glues(unread, x, y) /\ Len(x) = m
    BY <1>3, <2>1, Cuts
  <2>3. Is(h, b.arr, b.len, b.off + m, 0, b.null)
    <3>1. b.off + m \in Nat
      BY <1>3, <2>1
    <3> QED BY <3>1, <1>1, <1>3, Changed, TellsParts
  <2> HIDE DEF h, x, y
  <2>4. Tells(h, past \o x, y)
    <3>1. Moves(h, b, x, 0)
      BY <2>2, <2>3 DEF Moves
    <3> QED BY <3>1, <1>1, <2>2, Taken
  <2>5. buf' = h /\ Tells(buf', past', unread')
    BY <1>4, <2>4, Became
  <2>6. buf'.lastRead <= 0
    BY <2>3, <2>5 DEF Is
  <2> QED BY <2>5, <2>6, NoLastRead
<1>5. CASE BufferBecomes(Reset(b), <<>>, <<>>)
  BY <1>3, <1>5, ResetKeeps
<1> QED BY <1>2, <1>4, <1>5

LEMMA TruncateKeeps ==
  ASSUME BufferInv, NEW n \in Nat, Truncate(n)
  PROVE  BufferInv'
<1>1. /\ Tells(buf, past, unread) /\ buf \in Buf /\ n <= Len(unread)
  BY TellsParts DEF BufferInv, Truncate
<1>2. CASE n = 0
  <2>1. BufferBecomes(Reset(buf), <<>>, <<>>)
    BY <1>2 DEF Truncate
  <2> QED BY <1>1, <2>1, ResetKeeps
<1>3. CASE n # 0
  <2> DEFINE h == [buf EXCEPT !.lastRead = 0, !.len = buf.off + n]
             x == SubSeq(unread, 1, n)
             y == From(unread, n)
  <2>1. BufferBecomes(h, past, x)
    BY <1>3 DEF Truncate
  <2>2. /\ buf.arr \in Seq(Nat) /\ buf.off \in Nat /\ past \in Seq(Nat) /\ unread \in Seq(Nat)
        /\ Len(past) \in Nat /\ Len(unread) \in Nat /\ Len(buf.arr) \in Nat /\ buf.null \in BOOLEAN
        /\ buf.off = Len(past) /\ buf.len = Len(past) + Len(unread) /\ buf.len <= Len(buf.arr)
        /\ Stands(buf.arr, 0, past) /\ Stands(buf.arr, Len(past), unread)
    BY <1>1, TellsParts
  <2>3. Is(h, buf.arr, buf.off + n, buf.off, 0, buf.null)
    <3>1. /\ h.arr = buf.arr /\ h.len = buf.off + n /\ h.off = buf.off /\ h.lastRead = 0
          /\ h.null = buf.null
      BY <1>1 DEF Buf
    <3>2. buf.off + n \in Nat /\ 0 \in Int
      BY <2>2
    <3>3. h \in Buf
      BY <1>1, <3>2 DEF Buf
    <3> QED BY <3>1, <3>3 DEF Is
  <2>4. Glues(unread, x, y) /\ Len(x) = n
    BY <1>1, <2>2, Cuts
  <2> HIDE DEF h, x, y
  <2>5. x \in Seq(Nat) /\ Stands(buf.arr, Len(past), x)
    BY <2>2, <2>4, StandsJoined DEF Glues
  <2>6. ~buf.null
    <3>1. buf.len # 0
      BY <1>1, <1>3, <2>2
    <3> QED BY <3>1, <1>1 DEF Tells
  <2>7. /\ buf.off + n = Len(past) + Len(x) + 0 /\ buf.off + n <= Len(buf.arr) /\ 0 \in Nat
    <3>1. \A i, j, k, c \in Nat : (k = i + j /\ k <= c /\ n <= j) => (i + n <= c /\ i + n = i + n + 0)
      OBVIOUS
    <3> QED BY <3>1, <1>1, <2>2, <2>4
  <2>8. Tells(h, past, x)
    BY <2>2, <2>3, <2>5, <2>6, <2>7 DEF Tells, Holding, Is
  <2>9. buf' = h /\ Tells(buf', past', unread')
    BY <2>1, <2>8, Became
  <2>10. buf'.lastRead <= 0
    BY <2>3, <2>9 DEF Is
  <2> QED BY <2>9, <2>10, NoLastRead
<1> QED BY <1>2, <1>3

LEMMA ReadsKeep ==
  ASSUME BufferInv, NEW n \in Nat, BufferRead(n) \/ NextBytes(n)
  PROVE  BufferInv'
<1>1. /\ Tells(buf, past, unread) /\ buf \in Buf /\ BufferBytes(buf) = unread
      /\ buf.len - buf.off = Len(unread) /\ Len(unread) \in Nat
  BY BytesAre, TellsParts DEF BufferInv
<1>2. CASE BufferBecomes(Reset(buf), <<>>, <<>>)
  BY <1>1, <1>2, ResetKeeps
<1>3. CASE \E m \in Nat, k \in {-1, 0} : m <= Len(unread) /\ TakeBytes(m, k)
  BY <1>3, TakeKeeps
<1> DEFINE m == Lesser(n, Len(unread))
           k == IF m > 0 THEN -1 ELSE 0
<1>4. m \in Nat /\ m <= Len(unread) /\ k \in {-1, 0}
  BY <1>1 DEF Lesser
<1>5. BufferBecomes(Reset(buf), <<>>, <<>>) \/ TakeBytes(m, k)
  BY <1>1 DEF BufferRead, NextBytes
<1> HIDE DEF m, k
<1> QED BY <1>2, <1>3, <1>4, <1>5

LEMMA ReadSliceKeeps ==
  ASSUME BufferInv, ReadSlice(1)
  PROVE  BufferInv'
<1>1. /\ BufferBytes(buf) = unread /\ unread \in Seq(Nat) /\ Len(unread) \in Nat
  BY BytesAre, TellsParts DEF BufferInv
<1> DEFINE I == {i \in 1..Len(unread) : unread[i] = 1}
           at == SelectInSeq(unread, LAMBDA c : c = 1)
           m == IF at = 0 THEN Len(unread) ELSE at
<1>2. at \in 0..Len(unread)
  <2>1. CASE I # {}
    <3>1. I \subseteq Nat
      OBVIOUS
    <3>2. \E i \in I : \A j \in I : i <= j
      BY <2>1, <3>1, NatMin
    <3>3. at = CHOOSE i \in I : \A j \in I : i <= j
      BY <2>1 DEF SelectInSeq, Min
    <3>4. at \in I
      <4> HIDE DEF I, at
      <4> QED BY <3>2, <3>3
    <3> QED BY <3>4
  <2>2. CASE I = {}
    BY <1>1, <2>2 DEF SelectInSeq
  <2> QED BY <2>1, <2>2
<1>3. TakeBytes(m, -1)
  BY <1>1 DEF ReadSlice
<1>4. m \in Nat /\ m <= Len(unread)
  <2> HIDE DEF at
  <2> QED BY <1>1, <1>2
<1> HIDE DEF m
<1> QED BY <1>3, <1>4, TakeKeeps

LEMMA PeekKeeps ==
  ASSUME BufferInv, Peek
  PROVE  BufferInv'
<1>1. buf \in Buf
  BY TellsParts DEF BufferInv
<1>2. CASE BufferBecomes(Reset(buf), <<>>, <<>>)
  BY <1>1, <1>2, ResetKeeps
<1>3. CASE UNCHANGED bufVars
  BY <1>3 DEF bufVars, BufferInv
<1> QED BY <1>2, <1>3 DEF Peek

\* A rune is read where a rune begins.
LEMMA ReadRuneKeeps ==
  ASSUME Garbage = FALSE, BufferInv, ReadRune
  PROVE  BufferInv'
<1>1. /\ Tells(buf, past, unread) /\ buf \in Buf /\ BufferBytes(buf) = unread
      /\ (Empty(buf) <=> unread = <<>>) /\ buf.off \in Nat
      /\ unread \in Seq(Nat) /\ past \in Seq(Nat) /\ Len(unread) \in Nat
  BY BytesAre, TellsParts DEF BufferInv
<1>2. CASE Empty(buf)
  <2>1. BufferBecomes(Reset(buf), <<>>, <<>>)
    BY <1>2 DEF ReadRune
  <2> QED BY <1>1, <2>1, ResetKeeps
<1>3. CASE ~Empty(buf)
  <2> DEFINE one == IF unread[1] = 2 /\ Len(unread) > 1 /\ unread[2] = 3 THEN 2 ELSE 1
             h == [buf EXCEPT !.off = @ + one, !.lastRead = one]
             x == SubSeq(unread, 1, one)
             y == From(unread, one)
  <2>1. Len(unread) >= 1
    BY <1>1, <1>3
  <2>2. unread[1] = 1 \/ (Len(unread) > 1 /\ unread[1] = 2 /\ unread[2] = 3)
    BY <1>1, <1>3 DEF ReadRune
  <2>3. Width(unread) = one
    <3>1. CASE unread[1] = 1
      BY <3>1 DEF Width
    <3>2. CASE Len(unread) > 1 /\ unread[1] = 2 /\ unread[2] = 3
      BY <3>2 DEF Width
    <3> QED BY <2>2, <3>1, <3>2
  <2>4. buf' = h /\ past' = past \o x /\ unread' = y /\ lastRune' = x
    BY <1>1, <1>3, <2>3 DEF ReadRune
  <2>5. one \in Nat /\ one \in Int /\ one <= Len(unread) /\ one > 0
    BY <1>1, <2>1
  <2> HIDE DEF one
  <2>6. Glues(unread, x, y) /\ Len(x) = one
    BY <1>1, <2>5, Cuts
  <2>7. Is(h, buf.arr, buf.len, buf.off + one, one, buf.null)
    <3>1. buf.off + one \in Nat
      BY <1>1, <2>5
    <3> QED BY <3>1, <1>1, <2>5, OffsetChanged
  <2> HIDE DEF h, x, y
  <2>8. Tells(h, past \o x, y)
    <3>1. Moves(h, buf, x, one)
      BY <2>6, <2>7 DEF Moves
    <3> QED BY <3>1, <1>1, <2>6, Taken
  <2>9. SubSeq(past \o x, Len(past \o x) - Len(x) + 1, Len(past \o x)) = x
    BY <1>1, <2>6, EndOfJoined DEF Glues
  <2>10. h.lastRead = Len(x)
    BY <2>6, <2>7 DEF Is
  <2> QED BY <2>4, <2>8, <2>9, <2>10 DEF BufferInv
<1> QED BY <1>2, <1>3

\* The offset moves back over y.
MovesBack(h, b, x) == Is(h, b.arr, b.len, Len(x), 0, b.null)

LEMMA GivenBack ==
  ASSUME NEW b, NEW p, NEW u, NEW x, NEW y, NEW h,
         Tells(b, p, u), Glues(p, x, y), MovesBack(h, b, x)
  PROVE  Tells(h, x, y \o u)
<1>1. /\ b.arr \in Seq(Nat) /\ p \in Seq(Nat) /\ u \in Seq(Nat) /\ Len(p) \in Nat /\ Len(u) \in Nat
      /\ b.len = Len(p) + Len(u) /\ b.len <= Len(b.arr)
      /\ Stands(b.arr, 0, p) /\ Stands(b.arr, Len(p), u)
  BY TellsParts
<1>2. x \in Seq(Nat) /\ y \in Seq(Nat) /\ p = x \o y /\ Len(x) \in Nat /\ Len(y) \in Nat
  BY DEF Glues
<1>3. Len(p) = Len(x) + Len(y)
  BY <1>2, ConcatParts
<1>4. Stands(b.arr, 0, x) /\ Stands(b.arr, Len(x), y)
  <2>1. Stands(b.arr, 0, x) /\ Stands(b.arr, 0 + Len(x), y)
    BY <1>1, <1>2, StandsJoined
  <2>2. 0 + Len(x) = Len(x)
    BY <1>2
  <2> QED BY <2>1, <2>2
<1>5. y \o u \in Seq(Nat) /\ Len(y \o u) = Len(y) + Len(u)
  BY <1>1, <1>2, ConcatParts
<1>6. Stands(b.arr, Len(x), y \o u)
  BY <1>1, <1>2, <1>3, <1>4, StandsJoined
<1>7. h \in Buf /\ h.arr = b.arr /\ h.len = b.len /\ h.off = Len(x) /\ h.null = b.null
  BY DEF Is, MovesBack
<1>8. h.len = Len(x) + Len(y \o u) + 0 /\ 0 \in Nat
  <2>1. \A i, j, l \in Nat : (i + j) + l = i + (j + l) + 0
    OBVIOUS
  <2>2. h.len = (Len(x) + Len(y)) + Len(u)
    BY <1>1, <1>3, <1>7
  <2> QED BY <2>1, <2>2, <1>1, <1>2, <1>5
<1>9. h.null => h.len = 0
  BY <1>7 DEF Tells
<1> QED BY <1>1, <1>2, <1>4, <1>5, <1>6, <1>7, <1>8, <1>9 DEF Tells, Holding

LEMMA GiveBackKeeps ==
  ASSUME BufferInv, NEW n \in Nat, GiveBack(n)
  PROVE  BufferInv'
<1>1. /\ Tells(buf, past, unread) /\ buf \in Buf /\ buf.off \in Nat /\ buf.off = Len(past)
      /\ unread \in Seq(Nat) /\ past \in Seq(Nat) /\ Len(past) \in Nat
  BY TellsParts DEF BufferInv
<1>2. CASE buf.off >= n
  <2>1. PICK m \in Nat : m = Len(past) - n /\ m <= Len(past)
    <3>1. \A c \in Nat : c >= n => c - n \in Nat /\ c - n <= c
      OBVIOUS
    <3> QED BY <3>1, <1>1, <1>2
  <2> DEFINE h == [buf EXCEPT !.off = @ - n, !.lastRead = 0]
             x == SubSeq(past, 1, m)
             y == From(past, m)
  <2>2. buf' = h /\ past' = x /\ unread' = y \o unread
    BY <1>2, <2>1 DEF GiveBack, From
  <2>3. Glues(past, x, y) /\ Len(x) = m
    BY <1>1, <2>1, Cuts
  <2>4. MovesBack(h, buf, x)
    <3>1. buf.off - n = m /\ 0 \in Int
      BY <1>1, <2>1
    <3>2. Is([buf EXCEPT !.off = m, !.lastRead = 0], buf.arr, buf.len, m, 0, buf.null)
      BY <1>1, <3>1, OffsetChanged
    <3> QED BY <2>3, <3>1, <3>2 DEF MovesBack
  <2> HIDE DEF h, x, y
  <2>5. Tells(h, x, y \o unread)
    BY <1>1, <2>3, <2>4, GivenBack
  <2>6. h.lastRead <= 0
    BY <2>4 DEF MovesBack, Is
  <2> QED BY <2>2, <2>5, <2>6, NoLastRead
<1>3. CASE ~(buf.off >= n)
  <2>1. buf' = [buf EXCEPT !.lastRead = 0] /\ past' = past /\ unread' = unread
    BY <1>3 DEF GiveBack
  <2>2. Tells([buf EXCEPT !.lastRead = 0], past, unread) /\ [buf EXCEPT !.lastRead = 0].lastRead = 0
    <3>1. 0 \in Int
      OBVIOUS
    <3> QED BY <1>1, <3>1, TellsAnyRead
  <2>3. Tells(buf', past', unread') /\ buf'.lastRead <= 0
    BY <2>1, <2>2
  <2> QED BY <2>3, NoLastRead
<1> QED BY <1>2, <1>3

LEMMA UnreadsKeep ==
  ASSUME BufferInv, UnreadByte \/ UnreadRune
  PROVE  BufferInv'
<1>1. CASE UnreadByte
  BY <1>1, GiveBackKeeps DEF UnreadByte
<1>2. CASE UnreadRune
  <2>1. buf.lastRead \in Nat
    BY <1>2, TellsParts DEF BufferInv, UnreadRune
  <2> QED BY <1>2, <2>1, GiveBackKeeps DEF UnreadRune
<1> QED BY <1>1, <1>2

LEMMA TextsAreSequences == Texts \subseteq Seq(Nat)
<1>1. <<1>> \in Seq(Nat)
  OBVIOUS
<1>2. <<2, 3>> \in Seq(Nat)
  OBVIOUS
<1>3. <<1, 2, 3>> \in Seq(Nat)
  OBVIOUS
<1> QED BY <1>1, <1>2, <1>3 DEF Texts

LEMMA BufferCallKeeps ==
  ASSUME Garbage = FALSE, BufferInv, BufferCall
  PROVE  BufferInv'
<1>1. ASSUME NEW p \in Payloads, BufferWrite(p) \/ ReadFrom(p) PROVE BufferInv'
  <2>1. p \in Seq(Nat)
    BY TextsAreSequences DEF Payloads
  <2> QED BY <1>1, <2>1, BufferWriteKeeps, ReadFromKeeps
<1>2. ASSUME NEW n \in 0..2, WriteTo(n) \/ GrowBy(n) \/ Truncate(n) \/ BufferRead(n) \/ NextBytes(n)
      PROVE  BufferInv'
  <2>1. n \in Nat
    OBVIOUS
  <2> QED BY <1>2, <2>1, WriteToKeeps, GrowByKeeps, TruncateKeeps, ReadsKeep
<1> QED BY <1>1, <1>2, WriteRuneKeeps, PeekKeeps, ReadRuneKeeps, UnreadsKeep, ReadSliceKeeps DEF BufferCall

-----------------------------------------------------------------------------
(* The readers. *)

\* x has the m elements of s after the first i.
Cut(x, s, i, m) == x \in Seq(Nat) /\ Len(x) = m /\ \A l \in 1..m : x[l] = s[i + l]

LEMMA CutIs ==
  ASSUME NEW s \in Seq(Nat), NEW i \in Nat, NEW m \in Nat, NEW j, j = i + m, j <= Len(s)
  PROVE  Cut(SubSeq(s, i + 1, j), s, i, m)
<1>1. i + m <= Len(s)
  OBVIOUS
<1>2. /\ SubSeq(s, i + 1, i + m) \in Seq(Nat) /\ Len(SubSeq(s, i + 1, i + m)) = m
      /\ \A l \in 1..m : SubSeq(s, i + 1, i + m)[l] = s[i + l]
  BY <1>1, PartElements
<1> QED BY <1>2 DEF Cut

\* A part of a text is as long as it should be.
LEMMA PartMade ==
  ASSUME NEW s \in Seq(Nat), NEW i \in Nat, NEW j \in Nat, i <= j, j <= Len(s),
         NEW x, x = SubSeq(s, i + 1, j)
  PROVE  Part(x, s, i, j) /\ Len(x) = j - i
<1>1. PICK m \in Nat : j = i + m /\ j - i = m
  <2>1. j - i \in Nat /\ j = i + (j - i)
    OBVIOUS
  <2> QED BY <2>1
<1>2. Cut(x, s, i, m)
  BY <1>1, CutIs
<1> QED BY <1>1, <1>2 DEF Cut, Part

LEMMA PartLength ==
  ASSUME NEW x, NEW s, NEW i, NEW j, Part(x, s, i, j)
  PROVE  Len(x) = j - i
<1>1. s \in Seq(Nat) /\ i \in Nat /\ j \in Nat /\ i <= j /\ j <= Len(s) /\ x = SubSeq(s, i + 1, j)
  BY DEF Part
<1> QED BY <1>1, PartMade

\* Two parts of a text that follow each other.
LEMMA PartsJoin ==
  ASSUME NEW x, NEW y, NEW s, NEW i, NEW j, NEW k, Part(x, s, i, j), Part(y, s, j, k)
  PROVE  Part(x \o y, s, i, k)
<1>1. /\ s \in Seq(Nat) /\ i \in Nat /\ j \in Nat /\ k \in Nat
      /\ i <= j /\ j <= k /\ k <= Len(s)
      /\ x = SubSeq(s, i + 1, j) /\ y = SubSeq(s, j + 1, k)
  BY DEF Part
<1>2. PICK m \in Nat, n \in Nat : j = i + m /\ k = j + n /\ k = i + (m + n)
  <2>1. j - i \in Nat /\ k - j \in Nat /\ j = i + (j - i) /\ k = j + (k - j) /\ k = i + ((j - i) + (k - j))
    BY <1>1
  <2> QED BY <2>1
<1> DEFINE c == SubSeq(s, i + 1, k)
<1>3. x \in Seq(Nat) /\ Len(x) = m /\ \A l \in 1..m : x[l] = s[i + l]
  <2>1. j <= Len(s)
    BY <1>1
  <2>2. Cut(SubSeq(s, i + 1, j), s, i, m)
    BY <2>1, <1>1, <1>2, CutIs
  <2> QED BY <2>2, <1>1 DEF Cut
<1>4. y \in Seq(Nat) /\ Len(y) = n /\ \A l \in 1..n : y[l] = s[j + l]
  <2>1. Cut(SubSeq(s, j + 1, k), s, j, n)
    BY <1>1, <1>2, CutIs
  <2> QED BY <2>1, <1>1 DEF Cut
<1>5. Part(c, s, i, k) /\ Len(c) = m + n /\ \A l \in 1..(m + n) : c[l] = s[i + l]
  <2>1. m + n \in Nat /\ i <= k
    BY <1>1, <1>2
  <2>2. Cut(c, s, i, m + n)
    BY <2>1, <1>1, <1>2, CutIs
  <2>3. c = SubSeq(s, i + 1, k)
    OBVIOUS
  <2> HIDE DEF c
  <2> QED BY <2>1, <2>2, <2>3, <1>1 DEF Cut, Part
<1> HIDE DEF c
<1>6. PICK z \in Seq(Nat) : z = x \o y /\ Joins(z, x, m, y, n)
  BY <1>3, <1>4, Glued
<1>7. /\ Len(z) = m + n
      /\ \A l \in 1..m : z[l] = x[l]
      /\ \A l \in 1..n : z[m + l] = y[l]
  BY <1>6 DEF Joins
<1>8. ASSUME NEW l \in 1..(m + n) PROVE z[l] = c[l]
  <2>1. CASE l <= m
    <3>1. l \in 1..m
      BY <2>1
    <3> QED BY <3>1, <1>3, <1>5, <1>7
  <2>2. CASE m < l
    <3>1. PICK o \in 1..n : l = m + o
      <4>1. l - m \in 1..n /\ l = m + (l - m)
        BY <2>2
      <4> QED BY <4>1
    <3>2. z[m + o] = y[o] /\ y[o] = s[j + o] /\ c[l] = s[i + l]
      BY <1>4, <1>5, <1>7
    <3>3. j + o = i + l
      BY <1>1, <1>2, <3>1
    <3> QED BY <3>1, <3>2, <3>3
  <2> QED BY <2>1, <2>2
<1>9. z = c
  <2>1. c \in Seq(Nat)
    BY <1>5 DEF Part
  <2> QED BY <2>1, <1>5, <1>7, <1>8, SameElements
<1> QED BY <1>5, <1>6, <1>9

\* The front of a part is a part.
LEMMA PartShortens ==
  ASSUME NEW x, NEW s, NEW i, NEW j, NEW k, Part(x, s, i, k), j \in Nat, i <= j, j <= k
  PROVE  Part(SubSeq(x, 1, j - i), s, i, j)
<1>1. /\ s \in Seq(Nat) /\ i \in Nat /\ k \in Nat /\ k <= Len(s) /\ x = SubSeq(s, i + 1, k)
  BY DEF Part
<1>2. PICK m \in Nat, n \in Nat : j = i + m /\ k = i + n /\ m <= n /\ j - i = m
  <2>1. j - i \in Nat /\ j = i + (j - i) /\ k - i \in Nat /\ k = i + (k - i) /\ j - i <= k - i
    BY <1>1
  <2> QED BY <2>1
<1> DEFINE b == SubSeq(s, i + 1, j)
           c == SubSeq(x, 0 + 1, 0 + m)
<1>3. x \in Seq(Nat) /\ Len(x) = n /\ \A l \in 1..n : x[l] = s[i + l]
  <2>1. Cut(SubSeq(s, i + 1, k), s, i, n)
    BY <1>1, <1>2, CutIs
  <2> QED BY <2>1, <1>1 DEF Cut
<1>4. Part(b, s, i, j) /\ Len(b) = m /\ \A l \in 1..m : b[l] = s[i + l]
  <2>1. j <= Len(s)
    BY <1>1, <1>2
  <2>2. Cut(b, s, i, m)
    BY <2>1, <1>1, <1>2, CutIs
  <2>3. b = SubSeq(s, i + 1, j)
    OBVIOUS
  <2> HIDE DEF b
  <2> QED BY <2>1, <2>2, <2>3, <1>1 DEF Cut, Part
<1>5. c \in Seq(Nat) /\ Len(c) = m /\ \A l \in 1..m : c[l] = x[0 + l]
  <2>1. 0 + m <= Len(x) /\ 0 \in Nat
    BY <1>2, <1>3
  <2> QED BY <2>1, <1>3, PartElements
<1> HIDE DEF b, c
<1>6. ASSUME NEW l \in 1..m PROVE c[l] = b[l]
  <2>1. l \in 1..n /\ 0 + l = l
    BY <1>2
  <2> QED BY <2>1, <1>3, <1>4, <1>5
<1>7. c = b
  <2>1. b \in Seq(Nat)
    BY <1>4 DEF Part
  <2> QED BY <2>1, <1>4, <1>5, <1>6, SameElements
<1>8. 0 + 1 = 1 /\ 0 + m = m
  OBVIOUS
<1>9. SubSeq(x, 1, j - i) = c
  BY <1>2, <1>8 DEF c
<1> QED BY <1>4, <1>7, <1>9

LEMMA ReaderParts ==
  ASSUME ReaderInv
  PROVE  /\ rd.s \in Seq(Nat) /\ rd.i \in Nat /\ rd.prevRune \in Int /\ rstart \in Nat
         /\ Len(rd.s) \in Nat /\ rd.prevRune <= rd.i /\ rstart <= rd.i
BY DEF ReaderInv, Part

\* The reader stands at i of its text s, its last rune began at k.
Stand(r, s, i, k) ==
  r \in [s : Seq(Nat), i : Nat, prevRune : Int] /\ r.s = s /\ r.i = i /\ r.prevRune = k

LEMMA ReaderMoved ==
  ASSUME ReaderInv, NEW i \in Nat, NEW k \in Int
  PROVE  /\ Stand([rd EXCEPT !.i = i, !.prevRune = k], rd.s, i, k)
         /\ Stand([rd EXCEPT !.prevRune = k], rd.s, rd.i, k)
<1>1. rd \in [s : Seq(Nat), i : Nat, prevRune : Int]
  BY DEF ReaderInv
<1>2. Stand([rd EXCEPT !.i = i, !.prevRune = k], rd.s, i, k)
  BY <1>1 DEF Stand
<1>3. Stand([rd EXCEPT !.prevRune = k], rd.s, rd.i, k)
  BY <1>1 DEF Stand
<1> QED BY <1>2, <1>3

\* What is handed out follows what was handed out before.
LEMMA HandKeeps ==
  ASSUME ReaderInv, rd.i < Len(rd.s), NEW n \in Nat, NEW k \in Int, k <= rd.i, Hand(n, k)
  PROVE  ReaderInv'
<1>1. PICK s \in Seq(Nat), i \in Nat, c \in Nat : s = rd.s /\ i = rd.i /\ c = Len(s) /\ i < c
  BY ReaderParts
<1>2. PICK j \in Nat : j = Lesser(i + n, c) /\ i <= j /\ j <= c
  BY <1>1 DEF Lesser
<1>3. Handed(n) = SubSeq(s, i + 1, j)
  BY <1>1, <1>2 DEF Handed
<1>4. Part(Handed(n), s, i, j) /\ Len(Handed(n)) = j - i
  <2>1. i <= j /\ j <= Len(s)
    BY <1>1, <1>2
  <2> QED BY <2>1, <1>3, PartMade
<1>5. Stand(rd', s, j, k)
  <2>1. i + (j - i) = j
    OBVIOUS
  <2>2. rd' = [rd EXCEPT !.i = j, !.prevRune = k]
    BY <1>1, <1>4, <2>1 DEF Hand
  <2> QED BY <2>2, <1>1, ReaderMoved
<1>6. rstart' = rstart /\ rout' = rout \o Handed(n)
  BY DEF Hand
<1>7. rstart <= Len(s) /\ Part(rout, s, rstart, i)
  BY <1>1, ReaderParts DEF ReaderInv
<1>8. Part(rout', s, rstart', j)
  BY <1>4, <1>6, <1>7, PartsJoin
<1>9. k <= j
  BY <1>1, <1>2
<1> QED BY <1>5, <1>6, <1>7, <1>8, <1>9 DEF ReaderInv, Stand

\* A reader set to a place has handed out nothing since.
LEMMA SetKeepsReader ==
  ASSUME NEW s \in Seq(Nat), NEW i \in Nat, Stand(rd', s, i, -1), rstart' = i, rout' = <<>>
  PROVE  ReaderInv'
<1>1. Len(s) \in Nat /\ -1 <= i
  OBVIOUS
<1>2. CASE i <= Len(s)
  <2>1. SubSeq(s, i + 1, i) = <<>> /\ <<>> \in Seq(Nat) /\ i <= i
    OBVIOUS
  <2>2. Part(<<>>, s, i, i)
    BY <1>2, <2>1 DEF Part
  <2> QED BY <1>1, <1>2, <2>2 DEF ReaderInv, Stand
<1>3. CASE ~(i <= Len(s))
  BY <1>1, <1>3 DEF ReaderInv, Stand
<1> QED BY <1>2, <1>3

\* Going back takes back what was handed out, or starts a new account.
LEMMA BackKeeps ==
  ASSUME ReaderInv, NEW i \in Nat, i <= rd.i, RdBack(i)
  PROVE  ReaderInv'
<1>1. Stand(rd', rd.s, i, -1) /\ -1 <= i
  <2>1. -1 \in Int /\ -1 <= i
    OBVIOUS
  <2>2. rd' = [rd EXCEPT !.i = i, !.prevRune = -1]
    BY DEF RdBack
  <2> QED BY <2>1, <2>2, ReaderMoved
<1>2. CASE i >= rstart /\ rstart <= Len(rd.s)
  <2>1. Part(rout, rd.s, rstart, rd.i)
    BY <1>2 DEF ReaderInv
  <2>2. rstart' = rstart /\ rout' = SubSeq(rout, 1, i - rstart)
    BY <1>2 DEF RdBack
  <2>3. rstart <= i
    BY <1>2, ReaderParts
  <2>4. Part(rout', rd.s, rstart', i)
    BY <2>1, <2>2, <2>3, PartShortens
  <2> QED BY <1>1, <1>2, <2>2, <2>4 DEF ReaderInv, Stand
<1>3. CASE i >= rstart /\ ~(rstart <= Len(rd.s))
  <2>1. rd.i = rstart /\ rout = <<>> /\ rstart \in Nat
    BY <1>3, ReaderParts DEF ReaderInv
  <2>2. i = rstart /\ i - rstart = 0
    BY <1>3, <2>1
  <2>3. rstart' = rstart /\ rout' = SubSeq(rout, 1, i - rstart)
    BY <1>3 DEF RdBack
  <2>4. SubSeq(<<>>, 1, 0) = <<>>
    OBVIOUS
  <2> QED BY <1>1, <1>3, <2>1, <2>2, <2>3, <2>4 DEF ReaderInv, Stand
<1>4. CASE ~(i >= rstart)
  <2>1. rstart' = i /\ rout' = <<>>
    BY <1>4 DEF RdBack
  <2>2. rd.s \in Seq(Nat)
    BY ReaderParts
  <2> QED BY <1>1, <2>1, <2>2, SetKeepsReader DEF Stand
<1> QED BY <1>2, <1>3, <1>4

LEMMA ReaderStepKeeps ==
  ASSUME ReaderInv, ReaderStep
  PROVE  ReaderInv'
<1>1. ASSUME NEW n \in 0..2, RdRead(n) PROVE ReaderInv'
  <2>1. n \in Nat /\ -1 \in Int /\ -1 <= rd.i
    BY ReaderParts
  <2> QED BY <1>1, <2>1, HandKeeps DEF RdRead
<1>2. CASE RdReadRune
  <2>1. Width(From(rd.s, rd.i)) \in Nat
    BY DEF Width
  <2>2. rd.i \in Int /\ rd.i <= rd.i
    BY ReaderParts
  <2> QED BY <1>2, <2>1, <2>2, HandKeeps DEF RdReadRune
<1>3. CASE RdEnd
  <2>1. 0 \in Nat /\ -1 \in Int /\ -1 <= rd.i
    BY ReaderParts
  <2>2. Stand(rd', rd.s, rd.i, -1)
    <3>1. rd' = [rd EXCEPT !.prevRune = -1]
      BY <1>3 DEF RdEnd
    <3> QED BY <3>1, <2>1, ReaderMoved
  <2>3. rstart' = rstart /\ rout' = rout
    BY <1>3 DEF RdEnd
  <2> QED BY <2>1, <2>2, <2>3 DEF ReaderInv, Stand
<1>4. CASE RdUnreadByte
  <2>1. rd.i - 1 \in Nat /\ rd.i - 1 <= rd.i
    BY <1>4, ReaderParts DEF RdUnreadByte
  <2> QED BY <1>4, <2>1, BackKeeps DEF RdUnreadByte
<1>5. CASE RdUnreadRune
  <2>1. rd.prevRune \in Nat /\ rd.prevRune <= rd.i
    BY <1>5, ReaderParts DEF RdUnreadRune
  <2> QED BY <1>5, <2>1, BackKeeps DEF RdUnreadRune
<1>6. ASSUME NEW o \in -2..2, NEW w \in 0..2, RdSeek(o, w) PROVE ReaderInv'
  <2>1. PICK a \in 0..BufferLen : /\ rd' = [rd EXCEPT !.i = a, !.prevRune = -1]
                                  /\ rstart' = a /\ rout' = <<>>
    BY <1>6 DEF RdSeek
  <2>2. a \in Nat /\ -1 \in Int
    BY BufferBounds
  <2>3. Stand(rd', rd.s, a, -1)
    BY <2>1, <2>2, ReaderMoved
  <2> QED BY <2>1, <2>2, <2>3, ReaderParts, SetKeepsReader
<1>7. ASSUME NEW s \in Texts, RdReset(s) PROVE ReaderInv'
  <2>1. s \in Seq(Nat) /\ 0 \in Nat
    BY TextsAreSequences
  <2>2. Stand(rd', s, 0, -1) /\ rstart' = 0 /\ rout' = <<>>
    BY <1>7, <2>1 DEF RdReset, Stand
  <2> QED BY <2>1, <2>2, SetKeepsReader
<1> QED BY <1>1, <1>2, <1>3, <1>4, <1>5, <1>6, <1>7 DEF ReaderStep

-----------------------------------------------------------------------------
(* Buffer and readers together: each rests while the other works. *)

LEMMA CallRests == BufferCall => UNCHANGED rdVars
<1>1. ASSUME NEW p \in Payloads, BufferWrite(p) \/ ReadFrom(p) PROVE UNCHANGED rdVars
  BY <1>1 DEF BufferWrite, ReadFrom
<1>2. ASSUME NEW n \in 0..2, WriteTo(n) \/ GrowBy(n) \/ Truncate(n) \/ BufferRead(n) \/ NextBytes(n)
      PROVE  UNCHANGED rdVars
  BY <1>2 DEF WriteTo, GrowBy, Truncate, BufferRead, NextBytes
<1>3. WriteRune \/ Peek \/ ReadRune \/ UnreadByte \/ UnreadRune \/ ReadSlice(1) => UNCHANGED rdVars
  BY DEF WriteRune, Peek, ReadRune, UnreadByte, UnreadRune, ReadSlice
<1> QED BY <1>1, <1>2, <1>3 DEF BufferCall

LEMMA ReaderRests == ReaderStep => UNCHANGED bufVars
<1>1. ASSUME NEW n, NEW k, Hand(n, k) PROVE UNCHANGED bufVars
  BY <1>1 DEF Hand
<1>2. ASSUME NEW i, RdBack(i) PROVE UNCHANGED bufVars
  BY <1>2 DEF RdBack
<1>3. ASSUME NEW o, NEW w, RdSeek(o, w) PROVE UNCHANGED bufVars
  BY <1>3 DEF RdSeek
<1>4. ASSUME NEW s, RdReset(s) PROVE UNCHANGED bufVars
  BY <1>4 DEF RdReset
<1>5. RdEnd => UNCHANGED bufVars
  BY DEF RdEnd
<1> QED BY <1>1, <1>2, <1>3, <1>4, <1>5
        DEF ReaderStep, RdRead, RdReadRune, RdUnreadByte, RdUnreadRune

LEMMA BufferInitHolds == BufferInit => BufferInv /\ ReaderInv
<1> SUFFICES ASSUME BufferInit PROVE BufferInv /\ ReaderInv
  OBVIOUS
<1>1. Tells(buf, past, unread) /\ buf.lastRead = 0
  <2>1. /\ buf = [arr |-> <<>>, len |-> 0, off |-> 0, lastRead |-> 0, null |-> TRUE]
        /\ past = <<>> /\ unread = <<>>
    BY DEF BufferInit
  <2>2. <<>> \in Seq(Nat) /\ Len(<<>>) = 0 /\ 0 \in Nat /\ 0 \in Int
    OBVIOUS
  <2>3. Stands(<<>>, 0, <<>>)
    BY DEF Stands
  <2>4. buf \in Buf
    BY <2>1, <2>2 DEF Buf
  <2> QED BY <2>1, <2>2, <2>3, <2>4 DEF Tells, Holding
<1>2. BufferInv
  <2>1. ~(buf.lastRead > 0)
    BY <1>1
  <2> QED BY <1>1, <2>1 DEF BufferInv
<1>3. ReaderInv
  <2>1. rd = [s |-> <<1, 2, 3>>, i |-> 0, prevRune |-> 0] /\ rstart = 0 /\ rout = <<>>
    BY DEF BufferInit
  <2>2. <<1, 2, 3>> \in Seq(Nat) /\ 0 \in Nat /\ 0 \in Int /\ 0 <= Len(<<1, 2, 3>>)
    OBVIOUS
  <2>3. Part(<<>>, <<1, 2, 3>>, 0, 0)
    <3>1. <<>> \in Seq(Nat) /\ SubSeq(<<1, 2, 3>>, 0 + 1, 0) = <<>>
      OBVIOUS
    <3> QED BY <3>1, <2>2 DEF Part
  <2>4. rd \in [s : Seq(Nat), i : Nat, prevRune : Int]
    BY <2>1, <2>2
  <2> QED BY <2>1, <2>2, <2>3, <2>4 DEF ReaderInv
<1> QED BY <1>2, <1>3

LEMMA BufferStepKeeps ==
  ASSUME Garbage = FALSE
  PROVE  BufferInv /\ ReaderInv /\ [BufferNext]_bufferVars => (BufferInv /\ ReaderInv)'
<1> SUFFICES ASSUME BufferInv, ReaderInv, [BufferNext]_bufferVars PROVE (BufferInv /\ ReaderInv)'
  OBVIOUS
<1>1. UNCHANGED bufVars => BufferInv'
  BY DEF bufVars, BufferInv
<1>2. UNCHANGED rdVars => ReaderInv'
  BY DEF rdVars, ReaderInv
<1>3. CASE BufferCall
  BY <1>2, <1>3, CallRests, BufferCallKeeps
<1>4. CASE ReaderStep
  BY <1>1, <1>4, ReaderRests, ReaderStepKeeps
<1>5. CASE UNCHANGED bufferVars
  <2>1. UNCHANGED bufVars /\ UNCHANGED rdVars
    BY <1>5 DEF bufferVars, bufVars, rdVars
  <2> QED BY <2>1, <1>1, <1>2
<1> QED BY <1>3, <1>4, <1>5 DEF BufferNext

\* As long as runes are read where runes begin, the buffer holds the bytes that
\* were written and not yet read, in order, whatever growing, sliding, reslicing,
\* reading and giving back has moved them, the rune that may be given back is the
\* last one read, and a reader hands out its text without gap or repetition
\* (Buffer and the readers of packages bytes and strings).
THEOREM BuffersHandOut ==
  ASSUME Garbage = FALSE
  PROVE  BufferSpec => []BuffersAgree
<1>1. BufferInv /\ ReaderInv => BuffersAgree
  <2> SUFFICES ASSUME BufferInv, ReaderInv PROVE BuffersAgree
    OBVIOUS
  <2>1. BufferAgrees
    <3>1. Used(buf) = past \o unread /\ buf.off = Len(past)
      BY BytesAre, TellsParts DEF BufferInv
    <3> QED BY <3>1 DEF BufferInv, BufferAgrees
  <2>2. ReaderAgrees
    <3>1. rd.s \in Seq(Nat) /\ rd.i \in Nat /\ rstart \in Nat /\ Len(rd.s) \in Nat
      BY ReaderParts
    <3>2. CASE rstart <= Len(rd.s)
      <4>1. Part(rout, rd.s, rstart, rd.i)
        BY <3>2 DEF ReaderInv
      <4>2. Len(rout) = rd.i - rstart
        BY <4>1, PartLength
      <4>3. rd.i <= Len(rd.s) /\ rout = SubSeq(rd.s, rstart + 1, rd.i)
        BY <4>1 DEF Part
      <4>4. Lesser(rd.i, Len(rd.s)) = rd.i
        BY <4>3 DEF Lesser
      <4>5. rd.i = rstart + (rd.i - rstart)
        BY <3>1
      <4> QED BY <4>2, <4>3, <4>4, <4>5 DEF ReaderAgrees
    <3>3. CASE ~(rstart <= Len(rd.s))
      <4>1. rd.i = rstart /\ rout = <<>>
        BY <3>3 DEF ReaderInv
      <4>2. Lesser(rd.i, Len(rd.s)) = Len(rd.s)
        BY <3>1, <3>3, <4>1 DEF Lesser
      <4>3. SubSeq(rd.s, rstart + 1, Len(rd.s)) = <<>>
        BY <3>1, <3>3
      <4> QED BY <3>3, <4>1, <4>2, <4>3 DEF ReaderAgrees
    <3> QED BY <3>2, <3>3
  <2> QED BY <2>1, <2>2 DEF BuffersAgree
<1> QED BY <1>1, BufferInitHolds, BufferStepKeeps, PTL DEF BufferSpec
=============================================================================
