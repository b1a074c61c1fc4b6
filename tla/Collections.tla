---------------------------- MODULE Collections -----------------------------
(***************************************************************************)
(* Packages slices, sort, maps and iter: the sorts and searches of         *)
(* slices.ts and sort/*.gs.ts, the operations that edit a slice in place,  *)
(* and the iterators, whose yield function may answer at once or with a    *)
(* promise.  An element is a record [key, id]: the comparison sees the     *)
(* key, the id tells equal elements apart.                                 *)
(***************************************************************************)
EXTENDS Integers, Sequences, FiniteSets, SequencesExt

CONSTANT Small   \* the longest range sortIndexRange sorts by insertion (16)

Less(a, b) == a.key < b.key
Compare(a, b) == IF a.key < b.key THEN -1 ELSE IF a.key > b.key THEN 1 ELSE 0
Swapped(s, i, j) == [s EXCEPT ![i] = s[j], ![j] = s[i]]

-----------------------------------------------------------------------------
(* sort.gs.ts: insertion by swaps; Ints, Float64s, Strings, Sort, Stable. *)

RECURSIVE Sink(_, _)
Sink(s, j) ==
  IF j > 1 /\ Less(s[j], s[j - 1]) THEN Sink(Swapped(s, j, j - 1), j - 1) ELSE s
Sort(s) == FoldLeft(LAMBDA acc, i : Sink(acc, i), s, [i \in DOMAIN s |-> i])
SliceIsSorted(s) == \A i \in 2..Len(s) : ~Less(s[i], s[i - 1])

(* slice.gs.ts: the indices are sorted, the slice is written at the end. *)

RECURSIVE Shift(_, _, _, _)
Shift(x, idx, v, j) ==
  IF j > 1 /\ Less(x[v], x[idx[j - 1]])
  THEN Shift(x, [idx EXCEPT ![j] = idx[j - 1]], v, j - 1)
  ELSE [idx EXCEPT ![j] = v]
InsertionIndices(x, idx) ==
  FoldLeft(LAMBDA acc, i : Shift(x, acc, acc[i], i), idx, [i \in DOMAIN idx |-> i])
\* Mutant: of equal elements the right one goes first.
RECURSIVE MergeRight(_, _, _)
MergeRight(x, l, r) ==
  IF l = <<>> THEN r ELSE IF r = <<>> THEN l
  ELSE IF Less(x[Head(l)], x[Head(r)]) THEN <<Head(l)>> \o MergeRight(x, Tail(l), r)
  ELSE <<Head(r)>> \o MergeRight(x, l, Tail(r))
RECURSIVE MergeIndices(_, _, _)
MergeIndices(x, l, r) ==
  IF l = <<>> THEN r ELSE IF r = <<>> THEN l
  ELSE IF Less(x[Head(r)], x[Head(l)]) THEN <<Head(r)>> \o MergeIndices(x, l, Tail(r))
  ELSE <<Head(l)>> \o MergeIndices(x, Tail(l), r)
RECURSIVE SortIndexRange(_, _)
SortIndexRange(x, idx) ==
  IF Len(idx) <= Small THEN InsertionIndices(x, idx)
  ELSE LET mid == Len(idx) \div 2 IN
       MergeIndices(x, SortIndexRange(x, SubSeq(idx, 1, mid)),
                       SortIndexRange(x, SubSeq(idx, mid + 1, Len(idx))))
SliceSort(x) ==
  LET idx == SortIndexRange(x, [i \in DOMAIN x |-> i]) IN [i \in DOMAIN x |-> x[idx[i]]]

(* slices.ts: SortFunc, a merge sort with an awaited comparison. *)
RECURSIVE AsyncMerge(_, _)
AsyncMerge(l, r) ==
  IF l = <<>> THEN r ELSE IF r = <<>> THEN l
  ELSE IF Compare(Head(l), Head(r)) <= 0 THEN <<Head(l)>> \o AsyncMerge(Tail(l), r)
  ELSE <<Head(r)>> \o AsyncMerge(l, Tail(r))
RECURSIVE SortFunc(_)
SortFunc(s) ==
  IF Len(s) < 2 THEN s
  ELSE LET mid == Len(s) \div 2 IN
       AsyncMerge(SortFunc(SubSeq(s, 1, mid)), SortFunc(SubSeq(s, mid + 1, Len(s))))

MaxOf(s) == FoldLeft(LAMBDA m, v : IF Compare(m, v) < 0 THEN v ELSE m, s[1], s)
MinOf(s) == FoldLeft(LAMBDA m, v : IF Compare(v, m) < 0 THEN v ELSE m, s[1], s)

-----------------------------------------------------------------------------
(* Searches: the bisection of Search, Find and BinarySearchFunc.  Indices
   count from 0 as in the code. *)

RECURSIVE BisectClosed(_, _, _, _)
BisectClosed(s, x, left, right) ==
  IF left >= right THEN left
  ELSE LET mid == (left + right) \div 2 IN
       IF s[mid + 1].key < x THEN BisectClosed(s, x, mid, right - 1)
       ELSE BisectClosed(s, x, left, mid)
RECURSIVE Bisect(_, _, _, _)
Bisect(s, x, left, right) ==
  IF left >= right THEN left
  ELSE LET mid == (left + right) \div 2 IN
       IF s[mid + 1].key < x THEN Bisect(s, x, mid + 1, right)
       ELSE Bisect(s, x, left, mid)
Search(s, x) == Bisect(s, x, 0, Len(s))
Find(s, x) == LET i == Search(s, x) IN <<i, i < Len(s) /\ s[i + 1].key = x>>

\* The first difference decides, then the length.
RECURSIVE CompareSlices(_, _)
CompareSlices(s, t) ==
  IF s = <<>> \/ t = <<>> THEN IF Len(s) < Len(t) THEN -1 ELSE IF Len(s) > Len(t) THEN 1 ELSE 0
  ELSE IF Compare(Head(s), Head(t)) # 0 THEN Compare(Head(s), Head(t))
  ELSE CompareSlices(Tail(s), Tail(t))
Equal(s, t) == Len(s) = Len(t) /\ \A i \in DOMAIN s : Compare(s[i], t[i]) = 0
Index(s, x) ==
  LET at == {i \in DOMAIN s : s[i].key = x}
  IN  IF at = {} THEN -1 ELSE (CHOOSE i \in at : \A j \in at : i <= j) - 1

-----------------------------------------------------------------------------
(* Edits.  The answer is the slice and what its backing array holds. *)

Cleared == [key |-> 0, id |-> 0]
Edit(slice, backing) == [slice |-> slice, backing |-> backing]
RECURSIVE CopyDown(_, _, _)
CopyDown(s, k, count) ==
  IF k > Len(s) THEN s ELSE CopyDown([s EXCEPT ![k - count] = s[k]], k + 1, count)
ClearFrom(s, w) == [k \in DOMAIN s |-> IF k >= w THEN Cleared ELSE s[k]]
Delete(s, i, j) ==
  IF i = j THEN Edit(s, s)
  ELSE LET b == ClearFrom(CopyDown(s, j + 1, j - i), Len(s) - (j - i) + 1)
       IN  Edit(SubSeq(b, 1, Len(s) - (j - i)), b)
\* The in-place filters: a state [s, w], w the next place to write.
Keep(st, i) == [s |-> [st.s EXCEPT ![st.w] = st.s[i]], w |-> st.w + 1]
Filtered(st) == LET b == ClearFrom(st.s, st.w) IN Edit(SubSeq(b, 1, st.w - 1), b)
DeleteFunc(s, del) ==
  Filtered(FoldLeft(LAMBDA st, i : IF st.s[i].key \in del THEN st ELSE Keep(st, i),
                    [s |-> s, w |-> 1], [i \in DOMAIN s |-> i]))
CompactAgainstKept(s) ==
  IF Len(s) < 2 THEN Edit(s, s)
  ELSE Filtered(FoldLeft(LAMBDA st, i : IF st.s[i].key = st.s[1].key THEN st
                                        ELSE Keep(st, i),
                         [s |-> s, w |-> 2], [i \in 1..(Len(s) - 1) |-> i + 1]))
\* Compact compares with the element before, which may have moved already.
Compact(s) ==
  IF Len(s) < 2 THEN Edit(s, s)
  ELSE Filtered(FoldLeft(LAMBDA st, i : IF st.s[i].key = st.s[i - 1].key THEN st
                                        ELSE Keep(st, i),
                         [s |-> s, w |-> 2], [i \in 1..(Len(s) - 1) |-> i + 1]))
\* Replace and Insert build a new slice.
ReplaceRange(s, i, j, v) == SubSeq(s, 1, i) \o v \o SubSeq(s, j + 1, Len(s))
InsertAt0(s, i, v) == IF v = <<>> THEN s ELSE SubSeq(s, 1, i) \o v \o SubSeq(s, i + 1, Len(s))
RECURSIVE ReverseFrom(_, _, _)
ReverseFrom(s, i, j) == IF i < j THEN ReverseFrom(Swapped(s, i, j), i + 1, j - 1) ELSE s
ReverseInPlace(s) == ReverseFrom(s, 1, Len(s))
GrowCap(len, cap, n) ==
  IF len + n <= cap THEN cap ELSE IF 2 * cap < len + n THEN len + n ELSE 2 * cap

-----------------------------------------------------------------------------
(* Iterators.  yields[i] is what the body answers for element i: stop or not,
   now or later; walk goes on in the continuation of a promise. *)

RECURSIVE Walk(_, _, _, _)
Walk(n, i, step, yields) ==
  IF i \notin 1..n THEN <<>>
  ELSE <<i>> \o (IF yields[i].go THEN Walk(n, i + step, step, yields) ELSE <<>>)
All(n, yields) == Walk(n, 1, 1, yields)
Backward(n, yields) == Walk(n, n, -1, yields)

\* maps.Equal and its like, over functions from keys to values.
MapsEqual(m1, m2) ==
  /\ Cardinality(DOMAIN m1) = Cardinality(DOMAIN m2)
  /\ \A k \in DOMAIN m1 : k \in DOMAIN m2 /\ m1[k] = m2[k]
MapsCopy(dst, src) == src @@ dst
MapsDeleteFunc(m, del) == [k \in {k \in DOMAIN m : m[k] \notin del} |-> m[k]]
\* Insert sets the pairs in the order in which All yields them.
MapsInsert(m, keys, src) ==
  FoldLeft(LAMBDA acc, k : (k :> src[k]) @@ acc, m, keys)

\* iter.Pull runs seq anew for every value, up to its first one.
Pull(s) == [seq |-> s, done |-> FALSE, has |-> s # <<>>]
PullNext(p) ==
  IF p.done \/ (~p.has /\ p.seq = <<>>)
  THEN [p |-> [p EXCEPT !.done = TRUE], value |-> Cleared, ok |-> FALSE]
  ELSE [p |-> [p EXCEPT !.has = FALSE], value |-> Head(p.seq), ok |-> TRUE]
Pull2(s) == [seq |-> s, done |-> FALSE, has |-> FALSE]
PullStop(p) == [p EXCEPT !.done = TRUE, !.has = FALSE]

-----------------------------------------------------------------------------
(* Promises. *)

SortedStably(s, t) ==
  /\ Len(s) = Len(t) /\ ToSet(s) = ToSet(t)
  /\ \A i, j \in DOMAIN t : i < j =>
       t[i].key < t[j].key \/ (t[i].key = t[j].key /\ t[i].id < t[j].id)

\* Every sort is a stable sort, every search finds the first element not less
\* than x, and slices are ordered first element first.
SortPromise(s, t, x) ==
  LET u == SliceSort(s) IN
  /\ SortedStably(s, Sort(s)) /\ SortedStably(s, u) /\ SortedStably(s, SortFunc(s))
  /\ SliceIsSorted(u) /\ (SliceIsSorted(s) <=> Sort(s) = s)
  /\ Search(u, x) = Cardinality({i \in DOMAIN u : u[i].key < x})
  /\ Find(u, x)[2] = (\E i \in DOMAIN u : u[i].key = x)
  /\ s # <<>> => MinOf(s) = u[1] /\ MaxOf(s).key = Last(u).key
  /\ CompareSlices(s, t) = -CompareSlices(t, s)
  /\ (CompareSlices(s, t) = 0) = Equal(s, t)

\* An edit in place leaves the elements it should, in their order, and no
\* element twice in the backing array.
EditPromise(s, i, j, v, del) ==
  LET d == Delete(s, i, j)   f == DeleteFunc(s, del)   c == Compact(s)
      ids(b) == SelectSeq(b, LAMBDA e : e # Cleared)
  IN
  /\ d.slice = SubSeq(s, 1, i) \o SubSeq(s, j + 1, Len(s))
  /\ f.slice = SelectSeq(s, LAMBDA e : e.key \notin del)
  /\ \A k \in DOMAIN c.slice : k > 1 => c.slice[k].key # c.slice[k - 1].key
  /\ Len(c.slice) = Cardinality({k \in DOMAIN s : k = 1 \/ s[k].key # s[k - 1].key})
  /\ \A e \in {d, f, c} : ids(e.backing) = e.slice
  /\ ReverseInPlace(s) = Reverse(s)
  /\ ReplaceRange(InsertAt0(s, i, v), i, i + Len(v), <<>>) = s
  /\ ReplaceRange(s, i, j, v) = InsertAt0(d.slice, i, v)
  /\ GrowCap(Len(s), Len(s) + i, j) >= Len(s) + j

\* The body sees a prefix in order, up to the element it stops at, whichever
\* of its answers are promises; map copies and comparisons are those of sets
\* of pairs.
WalkPromise(n, yields, m1, m2) ==
  LET stops == {i \in 1..n : ~yields[i].go}
      upto == IF stops = {} THEN n ELSE CHOOSE i \in stops : \A j \in stops : i <= j
      from == IF stops = {} THEN 1 ELSE CHOOSE i \in stops : \A j \in stops : i >= j
  IN
  /\ All(n, yields) = [i \in 1..upto |-> i]
  /\ Backward(n, yields) = [i \in 1..(n - from + 1) |-> n + 1 - i]
  /\ MapsEqual(m1, m2) = (m1 = m2)
  /\ \A k \in DOMAIN m2 : MapsCopy(m1, m2)[k] = m2[k]
  /\ MapsEqual(MapsInsert(m1, SetToSeq(DOMAIN m2), m2), MapsCopy(m1, m2))
  /\ LET del == {m1[k] : k \in DOMAIN m1 \ DOMAIN m2}
     IN  \A k \in DOMAIN m1 : k \in DOMAIN MapsDeleteFunc(m1, del) <=> m1[k] \notin del

\* Pull "converts the push-style iterator sequence seq into a pull-style
\* iterator": n calls of next() answer the first n values of seq.
PullInOrder(s) ==
  \A p \in {Pull(s), Pull2(s)} :
    LET first == PullNext(p)   second == PullNext(first.p) IN
    /\ ~PullNext(PullStop(first.p)).ok
    /\ Len(s) >= 2 => first.value = s[1] /\ second.value = s[2]
=============================================================================
