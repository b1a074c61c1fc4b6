------------------------------ MODULE Buffers ------------------------------
(***************************************************************************)
(* bytes.Buffer, and the readers of packages bytes and strings.            *)
(*                                                                         *)
(* A buffer is its backing array (of which len bytes are in use), the read *)
(* offset and the kind of the last read.  Beside it the module keeps what  *)
(* a reader of the package's comments expects: past, the bytes consumed    *)
(* that are still in place, and unread, the bytes to come.  The bytes are  *)
(* 1 (ASCII), and 2 and 3 (the two bytes of a wider rune).                 *)
(***************************************************************************)
EXTENDS Integers, Sequences, SequencesExt

CONSTANTS BufferLen,  \* bound on the bytes in use
          BufferCap,  \* bound on the backing array
          SmallBuf,   \* smallBufferSize, 64
          MinRead,    \* MinRead, 512
          Garbage     \* may runes be read where no rune begins?

ASSUME BufferBounds ==
  /\ BufferLen \in Nat /\ BufferCap \in Nat
  /\ SmallBuf \in Nat /\ MinRead \in Nat /\ Garbage \in BOOLEAN

VARIABLES buf, past, unread, lastRune, rd, rstart, rout
bufferVars == <<buf, past, unread, lastRune, rd, rstart, rout>>
bufVars == <<buf, past, unread, lastRune>>
rdVars  == <<rd, rstart, rout>>

Lesser(a, b) == IF a <= b THEN a ELSE b
From(s, n) == SubSeq(s, n + 1, Len(s))
Zeros(n) == [i \in 1..n |-> 0]
Overwrite(arr, at, p) == [i \in DOMAIN arr |-> IF i > at /\ i <= at + Len(p) THEN p[i - at] ELSE arr[i]]
Texts == {<<1>>, <<2, 3>>, <<1, 2, 3>>}
Garbled == {<<3, 1>>, <<2>>}
Payloads == Texts \cup (IF Garbage THEN Garbled ELSE {})

-----------------------------------------------------------------------------
\* The parts of Buffer that other methods use.
Used(b) == SubSeq(b.arr, 1, b.len)
BufferBytes(b) == From(Used(b), b.off)
Cap(b) == Len(b.arr)
Reset(b) == [b EXCEPT !.len = 0, !.off = 0, !.lastRead = 0]
Empty(b) == b.len <= b.off

GrowSlice(b, n) ==
    LET kept == BufferBytes(b)
        c    == LET c0 == Len(kept) + n IN IF c0 < 2 * (Cap(b) - b.off) THEN 2 * (Cap(b) - b.off) ELSE c0
    IN [b EXCEPT !.arr = kept \o Zeros(c - Len(kept)), !.len = Len(kept)]
\* Mutant: the offset stays when the bytes slide to the front.
GrowSlides(b0, n) ==
    LET m == b0.len - b0.off
    IN IF ~b0.null /\ n <= Cap(b0) - b0.len THEN [b0 EXCEPT !.len = @ + n]
       ELSE IF b0.null THEN [b0 EXCEPT !.arr = Zeros(SmallBuf + n), !.len = n, !.null = FALSE]
       ELSE [GrowSlice(b0, n) EXCEPT !.len = m + n]
\* grow: room for n more bytes by reslicing, by sliding the unread bytes to the
\* front, or in a new array.  The bytes are to be written at len - n.
Grow(b0, n) ==
    LET m == b0.len - b0.off
        b == IF m = 0 /\ b0.off # 0 THEN Reset(b0) ELSE b0
    IN IF ~b.null /\ n <= Cap(b) - b.len THEN [b EXCEPT !.len = @ + n]
       ELSE IF b.null THEN [b EXCEPT !.arr = Zeros(IF n <= SmallBuf THEN SmallBuf ELSE n), !.len = n, !.null = FALSE]
       ELSE IF n <= (Cap(b) \div 2) - m
            THEN [b EXCEPT !.arr = Overwrite(@, 0, BufferBytes(b)), !.off = 0, !.len = m + n]
            ELSE [GrowSlice(b, b.off + n) EXCEPT !.off = 0, !.len = m + n]
TryGrow(b, n) == IF ~b.null /\ n <= Cap(b) - b.len THEN [b EXCEPT !.len = @ + n] ELSE Grow(b, n)

\* utf8.DecodeRune's width: more than one undecodable byte counts as the three
\* bytes of U+FFFD.
Width(p) ==
    CASE p[1] = 1 -> 1
      [] p[1] = 2 /\ Len(p) > 1 /\ p[2] = 3 -> 2
      [] OTHER -> IF Len(p) = 1 THEN 1 ELSE 3

\* What the ghosts make of a step: past starts anew when the bytes moved.
Past(b, old) == IF b.off = 0 THEN <<>> ELSE old
BufferBecomes(b, p, u) == buf' = b /\ past' = Past(b, p) /\ unread' = u

-----------------------------------------------------------------------------
\* Write, WriteString, WriteByte.
BufferWrite(p) ==
    LET b == TryGrow([buf EXCEPT !.lastRead = 0], Len(p))
    IN /\ BufferBecomes([b EXCEPT !.arr = Overwrite(@, b.len - Len(p), p)], past, unread \o p)
       /\ lastRune' = <<>> /\ UNCHANGED rdVars
\* WriteRune of a wide rune: AppendRune to the part before it, which has no
\* spare capacity and so is copied.
WriteRune ==
    LET b == TryGrow([buf EXCEPT !.lastRead = 0], 4)
        kept == SubSeq(b.arr, 1, b.len - 4)
    IN /\ BufferBecomes([b EXCEPT !.arr = kept \o <<2, 3>>, !.len = Len(kept) + 2], past, unread \o <<2, 3>>)
       /\ lastRune' = <<>> /\ UNCHANGED rdVars
\* ReadFrom one chunk and the end of the reader: two rounds of growing, the
\* reader filling what it can of the space behind the bytes in use.
ReadRound(b, chunk) ==
    LET g == Grow(b, MinRead)
        i == g.len - MinRead
        m == Lesser(Len(chunk), Cap(g) - i)
    IN [b |-> [g EXCEPT !.len = i + m, !.arr = Overwrite(@, i, SubSeq(chunk, 1, m))], left |-> From(chunk, m)]
ReadFrom(p) ==
    LET r1 == ReadRound([buf EXCEPT !.lastRead = 0], p)
        r2 == ReadRound(r1.b, r1.left)
        r3 == ReadRound(r2.b, r2.left)
    IN /\ BufferBecomes(r3.b, past, unread \o p)
       /\ r3.left = <<>> /\ lastRune' = <<>> /\ UNCHANGED rdVars
\* WriteTo a writer that takes n bytes.
WriteTo(n) ==
    LET b == [buf EXCEPT !.lastRead = 0]
        m == Lesser(n, Len(BufferBytes(b)))
    IN /\ IF BufferBytes(b) # <<>> /\ m < Len(BufferBytes(b))
          THEN BufferBecomes([b EXCEPT !.off = @ + m], past \o SubSeq(unread, 1, m), From(unread, m))
          ELSE BufferBecomes(Reset(b), <<>>, <<>>)
       /\ lastRune' = <<>> /\ UNCHANGED rdVars
GrowBy(n) ==
    LET g == Grow(buf, n)
    IN BufferBecomes([g EXCEPT !.len = @ - n], past, unread) /\ lastRune' = (IF g.off = 0 THEN <<>> ELSE lastRune) /\ UNCHANGED rdVars
Truncate(n) ==
    /\ n <= Len(unread)
    /\ IF n = 0 THEN BufferBecomes(Reset(buf), <<>>, <<>>)
       ELSE BufferBecomes([buf EXCEPT !.lastRead = 0, !.len = buf.off + n], past, SubSeq(unread, 1, n))
    /\ lastRune' = <<>> /\ UNCHANGED rdVars

\* Read and Next of n bytes; ReadByte; ReadBytes up to a delimiter.
TakeBytes(n, kind) ==
    BufferBecomes([buf EXCEPT !.off = @ + n, !.lastRead = kind], past \o SubSeq(BufferBytes(buf), 1, n), From(unread, n))
BufferRead(n) ==
    /\ IF Empty(buf) THEN BufferBecomes(Reset(buf), <<>>, <<>>)
       ELSE LET m == Lesser(n, Len(BufferBytes(buf))) IN TakeBytes(m, IF m > 0 THEN -1 ELSE 0)
    /\ lastRune' = <<>> /\ UNCHANGED rdVars
NextBytes(n) ==
    /\ LET m == Lesser(n, buf.len - buf.off) IN TakeBytes(m, IF m > 0 THEN -1 ELSE 0)
    /\ lastRune' = <<>> /\ UNCHANGED rdVars
Peek ==
    /\ IF Empty(buf) THEN BufferBecomes(Reset(buf), <<>>, <<>>) /\ lastRune' = <<>> ELSE UNCHANGED bufVars
    /\ UNCHANGED rdVars
ReadSlice(delim) ==
    LET at == SelectInSeq(BufferBytes(buf), LAMBDA c : c = delim)
    IN /\ TakeBytes(IF at = 0 THEN Len(BufferBytes(buf)) ELSE at, -1)
       /\ lastRune' = <<>> /\ UNCHANGED rdVars
ReadRune ==
    /\ unread # <<>> => (Garbage \/ unread[1] = 1 \/ (Len(unread) > 1 /\ unread[1] = 2 /\ unread[2] = 3))
    /\ IF Empty(buf) THEN BufferBecomes(Reset(buf), <<>>, <<>>) /\ lastRune' = <<>>
       ELSE LET n == Width(BufferBytes(buf))
                one == IF unread[1] = 2 /\ Len(unread) > 1 /\ unread[2] = 3 THEN 2 ELSE 1
            IN /\ buf' = [buf EXCEPT !.off = @ + n, !.lastRead = n]
               /\ past' = past \o SubSeq(unread, 1, one) /\ unread' = From(unread, one)
               /\ lastRune' = SubSeq(unread, 1, one)
    /\ UNCHANGED rdVars
GiveBack(n) ==
    IF buf.off >= n
    THEN /\ buf' = [buf EXCEPT !.off = @ - n, !.lastRead = 0]
         /\ past' = SubSeq(past, 1, Len(past) - n)
         /\ unread' = SubSeq(past, Len(past) - n + 1, Len(past)) \o unread
    ELSE buf' = [buf EXCEPT !.lastRead = 0] /\ UNCHANGED <<past, unread>>
UnreadByte == buf.lastRead # 0 /\ GiveBack(1) /\ lastRune' = <<>> /\ UNCHANGED rdVars
UnreadRune == buf.lastRead > 0 /\ GiveBack(buf.lastRead) /\ lastRune' = <<>> /\ UNCHANGED rdVars

-----------------------------------------------------------------------------
\* strings.Reader and bytes.Reader: the text, the position and where the last
\* rune began.  rout is what was handed out since the position was last set.
Handed(n) == SubSeq(rd.s, rd.i + 1, Lesser(rd.i + n, Len(rd.s)))
HandStays(n, prev) == /\ rd' = [rd EXCEPT !.i = @ + n, !.prevRune = prev]
                      /\ rout' = rout \o Handed(n) /\ UNCHANGED <<rstart, bufVars>>
Hand(n, prev) == /\ rd' = [rd EXCEPT !.i = @ + Len(Handed(n)), !.prevRune = prev]
                 /\ rout' = rout \o Handed(n) /\ UNCHANGED <<rstart, bufVars>>
RdRead(n) == rd.i < Len(rd.s) /\ Hand(n, -1)
RdReadRune == rd.i < Len(rd.s) /\ rd.s[rd.i + 1] # 3 /\ Hand(Width(From(rd.s, rd.i)), rd.i)
RdEnd == rd.i >= Len(rd.s) /\ rd' = [rd EXCEPT !.prevRune = -1] /\ UNCHANGED <<rstart, rout, bufVars>>
\* The position goes back to i.
RdBack(i) == /\ rd' = [rd EXCEPT !.i = i, !.prevRune = -1]
             /\ IF i >= rstart THEN rout' = SubSeq(rout, 1, i - rstart) /\ UNCHANGED rstart
                               ELSE rstart' = i /\ rout' = <<>>
             /\ UNCHANGED bufVars
RdUnreadByte == rd.i > 0 /\ RdBack(rd.i - 1)
RdUnreadRune == rd.i > 0 /\ rd.prevRune >= 0 /\ RdBack(rd.prevRune)
RdSeek(offset, whence) ==
    LET abs == offset + (CASE whence = 0 -> 0 [] whence = 1 -> rd.i [] whence = 2 -> Len(rd.s))
    IN /\ abs \in 0..BufferLen /\ rd' = [rd EXCEPT !.i = abs, !.prevRune = -1]
       /\ rstart' = abs /\ rout' = <<>> /\ UNCHANGED bufVars
RdReset(s) == rd' = [s |-> s, i |-> 0, prevRune |-> -1] /\ rstart' = 0 /\ rout' = <<>> /\ UNCHANGED bufVars

-----------------------------------------------------------------------------
BufferInit == /\ buf = [arr |-> <<>>, len |-> 0, off |-> 0, lastRead |-> 0, null |-> TRUE]
              /\ past = <<>> /\ unread = <<>> /\ lastRune = <<>>
              /\ rd = [s |-> <<1, 2, 3>>, i |-> 0, prevRune |-> 0] /\ rstart = 0 /\ rout = <<>>
\* The buffer and the reader share nothing: each is explored with the other at rest.
BufferCall ==
    \/ \E p \in Payloads : BufferWrite(p) \/ ReadFrom(p)
    \/ WriteRune
    \/ \E n \in 0..2 : WriteTo(n) \/ GrowBy(n) \/ Truncate(n) \/ BufferRead(n) \/ NextBytes(n)
    \/ Peek \/ ReadRune \/ UnreadByte \/ UnreadRune
    \/ ReadSlice(1)
ReaderStep ==
    \/ \E n \in 0..2 : RdRead(n)
    \/ RdReadRune \/ RdEnd \/ RdUnreadByte \/ RdUnreadRune
    \/ \E o \in -2..2, w \in 0..2 : RdSeek(o, w)
    \/ \E s \in Texts : RdReset(s)
BufferNext == \/ rd.prevRune = 0 /\ rout = <<>> /\ rd.i = 0 /\ BufferCall /\ buf'.len <= BufferLen /\ Cap(buf') <= BufferCap
              \/ buf.null /\ ReaderStep
BufferSpec == BufferInit /\ [][BufferNext]_bufferVars

\* The bytes of the buffer are the bytes written and not yet read, in order,
\* whatever growing, sliding, reslicing and reading has moved them, and the
\* offset never leaves them (grow, growSlice, Reset, the reads and unreads).
BufferAgrees ==
    /\ Used(buf) = past \o unread /\ buf.off = Len(past)
    /\ (buf.lastRead > 0 /\ buf.off > 0) => lastRune = SubSeq(past, Len(past) - buf.lastRead + 1, Len(past))

\* What a reader hands out between two seeks is the text from where it stood,
\* without gap or repetition, also over unread bytes and runes.
ReaderAgrees ==
    /\ rout = SubSeq(rd.s, rstart + 1, Lesser(rd.i, Len(rd.s)))
    /\ rstart <= Len(rd.s) => rd.i = rstart + Len(rout)

\* Buffer and readers hand out what was written, once and in order.
BuffersAgree == BufferAgrees /\ ReaderAgrees
=============================================================================
