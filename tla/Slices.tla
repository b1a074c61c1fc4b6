------------------------------- MODULE Slices -------------------------------
(***************************************************************************)
(* Go slices as gs/builtin/slice.ts represents them, run in lock step with *)
(* what the Go language prescribes.  A slice is a header over a backing    *)
(* array: a JavaScript array (a plain array is the header with off = 0 and *)
(* len = cap, a proxy is any other header) or a Uint8Array (bytes).  Both  *)
(* sides get the same operations; the growth of a reallocating append is   *)
(* the implementation's choice in Go, so only contents, sharing, lengths   *)
(* and the capacity left after a slicing are compared.                     *)
(*                                                                         *)
(* Operations Go would panic on are left out: the programs modelled are    *)
(* those that index and slice within bounds.  Overlap says whether a       *)
(* program also spreads a slice into the backing array it is a window of.  *)
(***************************************************************************)
EXTENDS Integers, Sequences, SequencesExt

CONSTANTS Slots,      \* the slice variables of the program
          SliceRoom,  \* the largest capacity of a backing array
          SliceOps,   \* how many operations a run performs
          Overlap     \* BOOLEAN: append(s, t...) where s and t share storage

ASSUME SliceBounds == SliceRoom \in Nat /\ SliceOps \in Nat /\ Overlap \in BOOLEAN

VARIABLES heap,       \* the backing arrays: [bytes, vals]
          hdr,        \* slot -> header
          goHeap,     \* Go's backing arrays
          goHdr,      \* slot -> Go's header
          elemRef,    \* &s[i]: the pointer kept by the program
          goRef,
          sliceOps

sliceVars == <<heap, hdr, goHeap, goHdr, elemRef, goRef, sliceOps>>

Hole == -1            \* undefined: never written by the runtime
Zero == 0
NilSlice == [b |-> 0, off |-> 0, len |-> 0, cap |-> 0]
Least(a, b) == IF a < b THEN a ELSE b
Most(a, b)  == IF a > b THEN a ELSE b

\* asArray, index, arrayIndex: the window of the backing array.
Contents(hp, h) == IF h.b = 0 THEN <<>> ELSE SubSeq(hp[h.b].vals, h.off + 1, h.off + h.len)
IsBytes(h) == h.b # 0 /\ heap[h.b].bytes
\* len(s) and cap(s)
SliceLen(h) == h.len
SliceCap(h) == h.cap

\* What an operation answers: the header it returns and the heap it leaves.
Answer(hp, h) == [heap |-> hp, hdr |-> h]
Fresh(hp, isBytes, vals, len) ==
    Answer(Append(hp, [bytes |-> isBytes, vals |-> vals]),
           [b |-> Len(hp) + 1, off |-> 0, len |-> len, cap |-> Len(vals)])
Store(hp, b, at, vals) ==
    [hp EXCEPT ![b].vals = [i \in DOMAIN @ |-> IF i - at \in DOMAIN vals THEN vals[i - at] ELSE @[i]]]
Fill(n, v) == [i \in 1..n |-> v]

-----------------------------------------------------------------------------
\* The runtime's operations.

MakeSlice(hp, isBytes, len, cap) == Fresh(hp, isBytes, Fill(cap, Zero), len)

\* arrayToSlice, of a slice literal: the array itself.
ArrayToSlice(hp, xs) == Fresh(hp, FALSE, xs, Len(xs))

\* The bounds s[low:high:max] is refused on.  The array branch compares max with
\* the end of the window in the backing array, not with the capacity.
BoundsPanic(h, low, high, max, given) ==
    \/ low < 0 \/ high < low \/ high > h.cap
    \/ given /\ \/ max < high
                \/ IF IsBytes(h) THEN max > h.cap ELSE max > h.off + h.cap
Panicked == [b |-> 0, off |-> 0, len |-> -1, cap |-> -1]
GoSliceForgetsLow(h, low, high, max, given) ==
    IF h.b = 0 THEN NilSlice
    ELSE [h EXCEPT !.off = @ + low, !.len = high - low, !.cap = IF given THEN max ELSE h.cap]
\* s[low:high:max]; without a max the capacity of s from low on is kept.
GoSlice(h, low, high, max, given) ==
    IF BoundsPanic(h, low, high, max, given) THEN Panicked
    ELSE IF h.b = 0 THEN NilSlice
    ELSE [h EXCEPT !.off = @ + low, !.len = high - low,
                   !.cap = (IF given THEN max ELSE h.cap) - low]

\* append to a Uint8Array: in place, or into a new array that just fits.
AppendByteSlice(hp, h, xs) ==
    IF h.len + Len(xs) <= h.cap
    THEN Answer(Store(hp, h.b, h.off + h.len, xs), [h EXCEPT !.len = @ + Len(xs)])
    ELSE Fresh(hp, TRUE, Contents(hp, h) \o xs, h.len + Len(xs))

AppendElementsAlwaysFresh(hp, h, xs) ==
    Fresh(hp, h.b # 0 /\ hp[h.b].bytes, Contents(hp, h) \o xs, h.len + Len(xs))
\* append(s, x, ...): in place when the capacity allows it; otherwise a new
\* backing array, twice as large, whose tail is never written.
AppendElements(hp, h, xs) ==
    LET newLen == h.len + Len(xs)
        newCap == IF h.cap = 0 THEN newLen ELSE Most(2 * h.cap, newLen)
    IN IF h.b # 0 /\ hp[h.b].bytes THEN AppendByteSlice(hp, h, xs)
       ELSE IF newLen <= h.cap
            THEN Answer(Store(hp, h.b, h.off + h.len, xs), [h EXCEPT !.len = newLen])
       ELSE Fresh(hp, FALSE, Contents(hp, h) \o xs \o Fill(newCap - newLen, Hole), newLen)

\* append(s, t...): the bytes of a Uint8Array move at once; other elements are
\* read and written one by one, so a window of the same array is read after
\* its first elements were overwritten.
AppendSlice(hp, h, e) ==
    LET newLen == h.len + e.len
        after[k \in 0..e.len] ==
            IF k = 0 THEN hp
            ELSE LET p == after[k - 1]
                 IN Store(p, h.b, h.off + h.len + k - 1, <<p[e.b].vals[e.off + k]>>)
    IN IF e.len = 0 THEN Answer(hp, h)
       ELSE IF h.b # 0 /\ hp[h.b].bytes THEN AppendByteSlice(hp, h, Contents(hp, e))
       ELSE IF newLen > h.cap THEN Fresh(hp, FALSE, Contents(hp, h) \o Contents(hp, e), newLen)
       ELSE Answer(after[e.len], [h EXCEPT !.len = newLen])

\* copy(dst, src) reads all of the source before it writes.
CopySliceValues(hp, src, count) == SubSeq(Contents(hp, src), 1, count)
CopyForward(hp, dst, src) ==
    LET step(p, i) == Store(p, dst.b, dst.off + i - 1, <<p[src.b].vals[src.off + i]>>)
    IN FoldLeft(step, hp, [i \in 1..Least(dst.len, src.len) |-> i])
CopyBetweenSlices(hp, dst, src) ==
    LET count == Least(dst.len, src.len)
    IN IF count = 0 THEN hp ELSE Store(hp, dst.b, dst.off, CopySliceValues(hp, src, count))

\* &s[i] (indexRef) and the synthetic address of an element (indexAddress).
IndexRef(h, i) == [b |-> h.b, at |-> h.off + i]
\* sliceToArray: a copy of the first n elements.
SliceToArray(hp, h, n) == Fresh(hp, hp[h.b].bytes, SubSeq(Contents(hp, h), 1, n), n)

-----------------------------------------------------------------------------
\* What Go prescribes, over its own heap.

GoAppend(hp, h, xs, fresh, cap) ==
    IF fresh
    THEN Fresh(hp, FALSE, Contents(hp, h) \o xs \o Fill(cap - h.len - Len(xs), Zero), h.len + Len(xs))
    ELSE Answer(Store(hp, h.b, h.off + h.len, xs), [h EXCEPT !.len = @ + Len(xs)])

-----------------------------------------------------------------------------
SliceInit ==
    /\ heap = <<>> /\ goHeap = <<>>
    /\ hdr = [s \in Slots |-> NilSlice] /\ goHdr = [s \in Slots |-> NilSlice]
    /\ elemRef = [b |-> 0, at |-> 0] /\ goRef = [b |-> 0, at |-> 0]
    /\ sliceOps = 0

\* Both sides take an answer into slot s.
Take(s, code, go) ==
    /\ heap' = code.heap /\ hdr' = [hdr EXCEPT ![s] = code.hdr]
    /\ goHeap' = go.heap /\ goHdr' = [goHdr EXCEPT ![s] = go.hdr]
Both(s, code, go) == Take(s, code, go) /\ UNCHANGED <<elemRef, goRef>>

Make(s) == \E cap \in 0..SliceRoom, isBytes \in BOOLEAN : \E len \in 0..cap :
    Both(s, MakeSlice(heap, isBytes, len, cap), Fresh(goHeap, FALSE, Fill(cap, Zero), len))

\* A literal with an element of its own in each place.
Literal(s) ==
    LET xs == [i \in 1..SliceRoom |-> SliceOps + i]
    IN Both(s, ArrayToSlice(heap, xs), Fresh(goHeap, FALSE, xs, SliceRoom))

Reslice(s, t) == \E low \in 0..goHdr[t].cap : \E high \in low..goHdr[t].cap :
    \E max \in {high, goHdr[t].cap}, given \in BOOLEAN :
    LET g == goHdr[t]
    IN /\ given \/ max = g.cap
       /\ Both(s, Answer(heap, GoSlice(hdr[t], low, high, max, given)),
                  Answer(goHeap, IF g.b = 0 THEN NilSlice
                                 ELSE [b |-> g.b, off |-> g.off + low, len |-> high - low, cap |-> max - low]))

AppendOne(s, t) ==
    LET code == AppendElements(heap, hdr[t], <<sliceOps + 1>>)
    IN /\ hdr[t].len < SliceRoom
       /\ Both(s, code, GoAppend(goHeap, goHdr[t], <<sliceOps + 1>>, goHdr[t].len = goHdr[t].cap, code.hdr.cap))

\* The elements of e begin before the place they go to and reach it.
SharesForward(h, e) == h.b = e.b /\ e.off < h.off + h.len /\ h.off + h.len < e.off + e.len
Spread(s, t, u) ==
    LET code == AppendSlice(heap, hdr[t], hdr[u])
        xs   == Contents(goHeap, goHdr[u])
        g    == goHdr[t]
    IN /\ hdr[t].len + hdr[u].len <= SliceRoom
       /\ Overlap \/ ~SharesForward(hdr[t], hdr[u])
       /\ Both(s, code, IF xs = <<>> THEN Answer(goHeap, g)
                        ELSE GoAppend(goHeap, g, xs, g.len + Len(xs) > g.cap, code.hdr.cap))

Copy(s, t) ==
    LET n == Least(goHdr[s].len, goHdr[t].len)
    IN /\ n > 0
       /\ heap' = CopyBetweenSlices(heap, hdr[s], hdr[t])
       /\ goHeap' = Store(goHeap, goHdr[s].b, goHdr[s].off, SubSeq(Contents(goHeap, goHdr[t]), 1, n))
       /\ UNCHANGED <<hdr, goHdr, elemRef, goRef>>

ToArray(s, t) == \E n \in 0..hdr[t].len :
    /\ hdr[t].b # 0
    /\ Both(s, SliceToArray(heap, hdr[t], n), Fresh(goHeap, FALSE, SubSeq(Contents(goHeap, goHdr[t]), 1, n), n))

Address(s) == \E i \in 1..goHdr[s].len :
    /\ elemRef' = IndexRef(hdr[s], i)
    /\ goRef' = [b |-> goHdr[s].b, at |-> goHdr[s].off + i]
    /\ UNCHANGED <<heap, hdr, goHeap, goHdr>>

\* s[i] = v and *p = v
SetElement(s) == \E i \in 1..goHdr[s].len :
    /\ heap' = Store(heap, hdr[s].b, hdr[s].off + i - 1, <<sliceOps + 1>>)
    /\ goHeap' = Store(goHeap, goHdr[s].b, goHdr[s].off + i - 1, <<sliceOps + 1>>)
    /\ UNCHANGED <<hdr, goHdr, elemRef, goRef>>
SetThroughRef ==
    /\ goRef.b # 0
    /\ heap' = Store(heap, elemRef.b, elemRef.at - 1, <<sliceOps + 1>>)
    /\ goHeap' = Store(goHeap, goRef.b, goRef.at - 1, <<sliceOps + 1>>)
    /\ UNCHANGED <<hdr, goHdr, elemRef, goRef>>

SliceNext ==
    /\ sliceOps < SliceOps
    /\ sliceOps' = sliceOps + 1
    /\ \/ \E s \in Slots : Make(s) \/ Literal(s) \/ Address(s) \/ SetElement(s)
       \/ \E s, t \in Slots : Reslice(s, t) \/ AppendOne(s, t) \/ Copy(s, t) \/ ToArray(s, t)
       \/ \E s, t, u \in Slots : Spread(s, t, u)
       \/ SetThroughRef

SliceSpec == SliceInit /\ [][SliceNext]_sliceVars

-----------------------------------------------------------------------------
SameValue(x, y) == x = y \/ (x = Hole /\ y = Zero)
SameWindow(h, g) ==
    /\ SliceLen(h) = g.len /\ SliceCap(h) = g.cap
    /\ \A i \in 1..h.len : SameValue(Contents(heap, h)[i], Contents(goHeap, g)[i])
Shared(h1, h2, i, j) == h1.b = h2.b /\ h1.off + i = h2.off + j

\* After any sequence of make, slicing, append, copy and element writes every
\* slice variable has Go's length, capacity and elements (an element append
\* allocated and never wrote may read undefined for Go's zero), and two
\* elements are one variable exactly when they are one in Go.
SlicesAgree ==
    \A s, t \in Slots :
        /\ SameWindow(hdr[s], goHdr[s])
        /\ \A i \in 1..hdr[s].len, j \in 1..hdr[t].len :
              Shared(hdr[s], hdr[t], i, j) <=> Shared(goHdr[s], goHdr[t], i, j)
=============================================================================
