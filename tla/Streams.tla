------------------------------ MODULE Streams ------------------------------
(***************************************************************************)
(* The helpers of package io over arbitrary readers and writers.           *)
(*                                                                         *)
(* A reader is [chunks, end, eager]: it gives what is left of its first    *)
(* chunk, at most what is asked for, and then ends with the error `end`;   *)
(* an eager reader gives its error together with its last bytes, as a      *)
(* section of a strings.Reader does.  A writer is [got, room, quiet]: it   *)
(* takes what fits and reports "full" for the rest, unless it is quiet,    *)
(* and then only its count shows that the write was short.                 *)
(***************************************************************************)
EXTENDS Integers, Sequences, SequencesExt

Nil == "nil"
EOF == "EOF"
Full == "full"
ErrShortWrite == "short write"
ErrUnexpectedEOF == "unexpected EOF"
ErrShortBuffer == "short buffer"
Fewer(a, b) == IF a <= b THEN a ELSE b
First(s, n) == SubSeq(s, 1, n)
Rest(s, n) == SubSeq(s, n + 1, Len(s))

Source(chunks, end, eager) == [chunks |-> SelectSeq(chunks, LAMBDA c : c # <<>>), end |-> end, eager |-> eager]
All(r) == FlattenSeq(r.chunks)
Read(r, want) ==
    LET n    == Fewer(want, Len(Head(r.chunks)))
        left == Rest(Head(r.chunks), n)
        next == (IF left = <<>> THEN <<>> ELSE <<left>>) \o Tail(r.chunks)
    IN IF r.chunks = <<>> THEN [p |-> <<>>, err |-> r.end, r |-> r]
       ELSE [p |-> First(Head(r.chunks), n), r |-> [r EXCEPT !.chunks = next],
             err |-> IF next = <<>> /\ r.eager THEN r.end ELSE Nil]

Sink(room, quiet) == [got |-> <<>>, room |-> room, quiet |-> quiet]
Write(w, p) ==
    LET n == Fewer(w.room, Len(p))
    IN [n |-> n, w |-> [w EXCEPT !.got = @ \o First(p, n), !.room = @ - n],
        err |-> IF n < Len(p) /\ ~w.quiet THEN Full ELSE Nil]

-----------------------------------------------------------------------------
\* Wrapped readers: [kind, ...] over Source readers, read one call at a time.
ReadUnlimited(l, want) ==
    LET a == Read(l.r, want) IN [p |-> a.p, err |-> a.err, r |-> [l EXCEPT !.r = a.r, !.n = @ - Len(a.p)]]
ReadLimited(l, want) ==
    LET a == Read(l.r, Fewer(want, l.n))
    IN IF l.n <= 0 THEN [p |-> <<>>, err |-> EOF, r |-> l]
       ELSE [p |-> a.p, err |-> a.err, r |-> [l EXCEPT !.r = a.r, !.n = @ - Len(a.p)]]

\* multiReader.Read: a reader that reports EOF is dropped, and unless it is the
\* last one the call is repeated on the next.
RECURSIVE ReadMulti(_, _)
ReadMulti(m, want) ==
    LET a == Read(Head(m.rs), want)
    IN IF m.rs = <<>> THEN [p |-> <<>>, err |-> EOF, r |-> m]
       ELSE IF a.err = EOF
            THEN (IF Len(m.rs) = 1 THEN [p |-> a.p, err |-> EOF, r |-> [m EXCEPT !.rs = <<>>]]
                  ELSE ReadMulti([m EXCEPT !.rs = Tail(@)], want))
            ELSE [p |-> a.p, err |-> a.err, r |-> [m EXCEPT !.rs = [@ EXCEPT ![1] = a.r]]]

\* teeReader.read: what was read is written first, and an error of the writer
\* takes the place of the reader's.
ReadTee(t, want) ==
    LET a == Read(t.r, want)
        b == Write(t.w, a.p)
    IN IF a.p = <<>> THEN [p |-> a.p, err |-> a.err, r |-> [t EXCEPT !.r = a.r]]
       ELSE [p |-> a.p, r |-> [t EXCEPT !.r = a.r, !.w = b.w],
             err |-> IF b.err # Nil THEN b.err ELSE IF b.n # Len(a.p) THEN ErrShortWrite ELSE a.err]

\* SectionReader over data: ReadAt of a strings.Reader gives EOF with the last
\* bytes when it cannot fill the buffer.
DataReadAt(data, want, off) ==
    IF off >= Len(data) THEN [p |-> <<>>, err |-> EOF]
    ELSE LET n == Fewer(want, Len(data) - off)
         IN [p |-> SubSeq(data, off + 1, off + n), err |-> IF n < want THEN EOF ELSE Nil]
Section(data, off, n) == [data |-> data, base |-> off, off |-> off, limit |-> off + n]
ReadSection(s, want) ==
    LET a == DataReadAt(s.data, Fewer(want, s.limit - s.off), s.off)
    IN IF s.off >= s.limit THEN [p |-> <<>>, err |-> EOF, r |-> s]
       ELSE [p |-> a.p, err |-> a.err, r |-> [s EXCEPT !.off = @ + Len(a.p)]]
SeekSection(s, offset, whence) ==
    LET abs == offset + (CASE whence = 0 -> s.base [] whence = 1 -> s.off [] whence = 2 -> s.limit)
    IN IF abs < s.base THEN [pos |-> 0, err |-> "negative position", r |-> s]
       ELSE [pos |-> abs - s.base, err |-> Nil, r |-> [s EXCEPT !.off = abs]]
SectionReadAt(s, want, off) ==
    LET at == off + s.base
        a  == DataReadAt(s.data, Fewer(want, s.limit - at), at)
    IN IF off < 0 \/ off >= s.limit - s.base THEN [p |-> <<>>, err |-> EOF]
       ELSE IF at + want > s.limit THEN [p |-> a.p, err |-> IF a.err = Nil THEN EOF ELSE a.err]
       ELSE a

ReadAny(r, want) ==
    CASE "n" \in DOMAIN r -> ReadLimited(r, want)
      [] "rs" \in DOMAIN r -> ReadMulti(r, want)
      [] "w" \in DOMAIN r -> ReadTee(r, want)
      [] "data" \in DOMAIN r -> ReadSection(r, want)
      [] OTHER -> Read(r, want)
Limited(r, n) == [r |-> r, n |-> n]
Multi(rs) == [rs |-> rs]
Tee(r, w) == [r |-> r, w |-> w]

\* multiWriter.Write: the writers in order, up to the first that fails.
RECURSIVE WriteMulti(_, _, _)
WriteMulti(ws, p, i) ==
    LET b == Write(ws[i], p)
        after == [ws EXCEPT ![i] = b.w]
    IN IF i > Len(ws) THEN [n |-> Len(p), ws |-> ws, err |-> Nil]
       ELSE IF b.err # Nil THEN [n |-> b.n, ws |-> after, err |-> b.err]
       ELSE IF b.n # Len(p) THEN [n |-> b.n, ws |-> after, err |-> ErrShortWrite]
       ELSE WriteMulti(after, p, i + 1)

-----------------------------------------------------------------------------
\* CopyBuffer with a buffer of size bytes, neither side having a shortcut.
RECURSIVE CopyFrom(_, _, _, _)
CopyFrom(dst, src, size, written) ==
    LET a == ReadAny(src, size)
        b == Write(dst, a.p)
        n == written + b.n
        w == IF a.p = <<>> THEN dst ELSE b.w
    IN IF a.p # <<>> /\ b.err # Nil THEN [n |-> n, err |-> b.err, w |-> w, r |-> a.r]
       ELSE IF a.p # <<>> /\ b.n # Len(a.p) THEN [n |-> n, err |-> ErrShortWrite, w |-> w, r |-> a.r]
       ELSE IF a.err # Nil THEN [n |-> n, err |-> IF a.err = EOF THEN Nil ELSE a.err, w |-> w, r |-> a.r]
       ELSE CopyFrom(w, a.r, size, n)
CopyBuffer(dst, src, size) == CopyFrom(dst, src, size, 0)
CopyN(dst, src, n, size) ==
    LET c == CopyBuffer(dst, Limited(src, n), size)
    IN [c EXCEPT !.err = IF c.n = n THEN Nil ELSE IF c.n < n /\ @ = Nil THEN EOF ELSE @, !.r = @.r]

RECURSIVE ReadAtLeastFrom(_, _, _, _)
ReadAtLeastFrom(r, size, min, got) ==
    LET a == ReadAny(r, size - Len(got))
        all == got \o a.p
    IN IF Len(got) >= min THEN [p |-> got, err |-> Nil, r |-> r]
       ELSE IF a.err = Nil THEN ReadAtLeastFrom(a.r, size, min, all)
       ELSE [p |-> all, r |-> a.r,
             err |-> IF a.err # EOF THEN a.err ELSE IF Len(all) >= min THEN Nil
                     ELSE IF all = <<>> THEN EOF ELSE ErrUnexpectedEOF]
ReadAtLeast(r, size, min) ==
    IF size < min THEN [p |-> <<>>, err |-> ErrShortBuffer, r |-> r] ELSE ReadAtLeastFrom(r, size, min, <<>>)
ReadFull(r, size) == ReadAtLeast(r, size, size)

RECURSIVE ReadAllFrom(_, _, _)
ReadAllFrom(r, size, got) ==
    LET a == ReadAny(r, size)
    IN IF a.err = Nil THEN ReadAllFrom(a.r, size, got \o a.p)
       ELSE [p |-> got \o a.p, err |-> IF a.err = EOF THEN Nil ELSE a.err, r |-> a.r]
ReadAll(r, size) == ReadAllFrom(r, size, <<>>)

-----------------------------------------------------------------------------
\* However a reader cuts its bytes, Copy, CopyN, ReadAtLeast and ReadAll move a
\* prefix of them without loss or repetition, count what arrived, leave the
\* rest unread, and report the first thing that went wrong.
CopyPromise(src, dst, size, n) ==
    LET all  == All(src)
        c    == CopyBuffer(dst, src, size)
        cn   == CopyN(dst, src, n, size)
        ok   == Len(all) <= dst.room
        full == IF dst.quiet THEN ErrShortWrite ELSE Full
        f    == ReadFull(src, n)
    IN /\ c.w.got = First(all, Fewer(Len(all), dst.room)) /\ c.n = Len(c.w.got)
       /\ c.err = IF ~ok THEN full ELSE IF src.end = EOF THEN Nil ELSE src.end
       /\ cn.w.got = First(all, Fewer(Fewer(Len(all), n), dst.room)) /\ cn.n = Len(cn.w.got)
       /\ Fewer(Len(all), n) <= dst.room => cn.w.got \o All(cn.r) = all
       /\ cn.err = Nil <=> cn.n = n
       /\ (cn.err = EOF => Len(all) < n /\ src.end = EOF)
       /\ f.p \o All(f.r) = all
       /\ (f.err = Nil => Len(f.p) = n) /\ (Len(f.p) = n => f.err # EOF)
       /\ (f.err = EOF => f.p = <<>>) /\ (f.err = ErrUnexpectedEOF => Len(f.p) \in 1..(n - 1))
       /\ ReadAll(src, size).p = all /\ ReadAll(src, size).err = IF src.end = EOF THEN Nil ELSE src.end

\* A TeeReader's writer holds what was read so far, its readers what is left,
\* also when the writer fills up (teeReader.read); a MultiWriter's writers hold
\* the same bytes until one of them fails (multiWriter.Write).
TeePromise(src, dst, size) ==
    LET t == ReadAll(Tee(src, dst), size)
        m == WriteMulti(<<dst, Sink(99, FALSE), dst>>, All(src), 1)
    IN /\ t.p \o All(t.r.r) = All(src)
       /\ IsPrefix(t.r.w.got, t.p)
       /\ t.err = Nil => t.r.w.got = t.p /\ t.p = All(src)
       /\ m.err = Nil <=> Len(All(src)) <= dst.room
       /\ \A i, j \in 1..3 : i < j => IsPrefix(m.ws[j].got, m.ws[i].got)
       /\ m.err = Nil => \A i \in 1..3 : m.ws[i].got = All(src)

\* A SectionReader shows exactly its part of the data, through reads, seeks and
\* ReadAt, at every size of buffer (SectionReader.Read, Seek, ReadAt).
SectionPromise(data, off, n, size, k) ==
    LET s    == Section(data, off, n)
        part == SubSeq(data, off + 1, Fewer(off + n, Len(data)))
        sk   == SeekSection(s, k, 0)
        back == SeekSection(ReadSection(s, size).r, k - Len(part), 2)
    IN /\ ReadAll(s, size).p = part /\ ReadAll(s, size).err = Nil
       /\ k <= Len(part) => ReadAll(sk.r, size).p = Rest(part, k)
       /\ (n = Len(part) /\ k >= 0 /\ k <= n) => back.pos = k /\ ReadAll(back.r, size).p = Rest(part, k)
       /\ (k <= Len(part)) => SectionReadAt(s, size, k).p = First(Rest(part, k), Fewer(size, Len(part) - k))
       /\ Len(SectionReadAt(s, size, k).p) < size => SectionReadAt(s, size, k).err = EOF

\* "MultiReader returns a Reader that's the logical concatenation of the
\* provided input readers": nothing of a reader is lost where two meet.
MultiPromise(a, b, size) == ReadAll(Multi(<<a, b>>), size).p = All(a) \o All(b)
\* The same where the readers report their end by itself.
PlainMultiPromise(a, b, size) == ~a.eager => MultiPromise(a, b, size)
=============================================================================
