------------------------------- MODULE Text -------------------------------
(***************************************************************************)
(* Packages strings and bytes: the two implementations of searching,       *)
(* splitting, trimming and replacing, the string finder, and the           *)
(* algorithms behind strings.Replacer.  A text is a sequence of            *)
(* characters; a callback f is the set of characters it answers true for.  *)
(* Indices are Go's, from 0; -1 stands for "not present".                  *)
(*                                                                         *)
(* The last part is about what strings are made of: Go strings over        *)
(* JavaScript strings (gs/builtin/slice.ts, map.ts) and package utf8.  A   *)
(* Go string is a sequence of bytes.  The runtime keeps valid UTF-8 as the *)
(* decoded JavaScript string and anything else as a marker followed by one *)
(* character per byte; every operation goes back to the bytes.  A          *)
(* JavaScript string is a sequence of code points here.                    *)
(***************************************************************************)
EXTENDS Integers, Sequences, SequencesExt, FiniteSets

CONSTANT Chars

Skip(s, n) == SubSeq(s, n + 1, Len(s))
Take(s, n) == SubSeq(s, 1, n)
Part(s, low, high) == SubSeq(s, low + 1, high)
At(s, sep, i) == i >= 0 /\ i + Len(sep) <= Len(s) /\ Part(s, i, i + Len(sep)) = sep
MinOf(S) == CHOOSE i \in S : \A j \in S : i <= j
MaxOf(S) == CHOOSE i \in S : \A j \in S : j <= i
JoinWith(parts, sep) == FlattenSeq([i \in DOMAIN parts |-> IF i = 1 THEN parts[i] ELSE sep \o parts[i]])
Single(s) == [i \in DOMAIN s |-> <<s[i]>>]

-----------------------------------------------------------------------------
\* Searching.  indexOf of JavaScript from a position is Index of the rest.
Index(s, sep) == LET at == {i \in 0..(Len(s) - Len(sep)) : At(s, sep, i)} IN IF at = {} THEN -1 ELSE MinOf(at)
LastIndex(s, sep) == LET at == {i \in 0..(Len(s) - Len(sep)) : At(s, sep, i)} IN IF at = {} THEN -1 ELSE MaxOf(at)
IndexFrom(s, sep, pos) == LET i == Index(Skip(s, pos), sep) IN IF i = -1 THEN -1 ELSE pos + i
RECURSIVE CountFrom(_, _, _)
CountFrom(s, sep, pos) == LET i == IndexFrom(s, sep, pos) IN IF i = -1 THEN 0 ELSE 1 + CountFrom(s, sep, i + Len(sep))
Count(s, sep) == IF sep = <<>> THEN Len(s) + 1 ELSE CountFrom(s, sep, 0)
IndexFunc(s, f) == LET at == {i \in DOMAIN s : s[i] \in f} IN IF at = {} THEN -1 ELSE MinOf(at) - 1
LastIndexFunc(s, f) == LET at == {i \in DOMAIN s : s[i] \in f} IN IF at = {} THEN -1 ELSE MaxOf(at) - 1

\* makeStringFinder and stringFinder.next: Boyer-Moore.
LongestCommonSuffix(a, b) ==
    MaxOf({n \in 0..Len(a) : n <= Len(b) /\ Skip(a, Len(a) - n) = Skip(b, Len(b) - n)})
BadCharSkip(pattern) ==
    LET last == Len(pattern) - 1
        at(c) == {i \in 0..(last - 1) : pattern[i + 1] = c}
    IN [c \in Chars |-> IF at(c) = {} THEN Len(pattern) ELSE last - MaxOf(at(c))]
GoodSuffixSkipFar(pattern) == [k \in 0..(Len(pattern) - 1) |-> Len(pattern)]
GoodSuffixSkip(pattern) ==
    LET last == Len(pattern) - 1
        prefixes(i) == {j \in i..last : IsPrefix(Skip(pattern, j + 1), pattern)}
        first(i) == IF prefixes(i) = {} THEN last ELSE MinOf(prefixes(i)) + 1
        len(i) == LongestCommonSuffix(pattern, Part(pattern, 1, i + 1))
        hits(k) == {i \in 0..(last - 1) : /\ last - len(i) = k
                                         /\ pattern[i - len(i) + 1] # pattern[last - len(i) + 1]}
    IN [k \in 0..last |-> IF hits(k) = {} THEN first(k) + last - k
                          ELSE len(MaxOf(hits(k))) + last - MaxOf(hits(k))]
RECURSIVE FinderFrom(_, _, _)
FinderFrom(pattern, text, i) ==
    LET last == Len(pattern) - 1
        m    == MaxOf({n \in 0..Len(pattern) : \A k \in 0..(n - 1) : text[i - k + 1] = pattern[last - k + 1]})
        j    == last - m
    IN IF i >= Len(text) THEN -1
       ELSE IF j < 0 THEN i - m + 1
       ELSE LET skip1 == BadCharSkip(pattern)[text[i - m + 1]]
                skip2 == GoodSuffixSkip(pattern)[j]
            IN FinderFrom(pattern, text, i - m + (IF skip1 > skip2 THEN skip1 ELSE skip2))
Finder(pattern, text) == FinderFrom(pattern, text, Len(pattern) - 1)

-----------------------------------------------------------------------------
\* Splitting in strings: JavaScript's split, then the tail joined again.
RECURSIVE SplitAll(_, _)
SplitAll(s, sep) == LET i == Index(s, sep)
                    IN IF i = -1 THEN <<s>> ELSE <<Take(s, i)>> \o SplitAll(Skip(s, i + Len(sep)), sep)
SplitN(s, sep, n) ==
    LET parts == SplitAll(s, sep)
    IN IF n = 0 THEN <<>>
       ELSE IF n = 1 THEN <<s>>
       ELSE IF sep = <<>> THEN (IF n < 0 \/ n > Len(s) THEN Single(s) ELSE Take(Single(s), n))
       ELSE IF n < 0 \/ Len(parts) <= n THEN parts
       ELSE Append(Take(parts, n - 1), JoinWith(Skip(parts, n - 1), sep))
RECURSIVE SplitAfterFrom(_, _, _)
SplitAfterFrom(s, sep, n) ==
    LET i == Index(s, sep)
    IN IF n = 1 \/ i = -1 THEN (IF s = <<>> THEN <<>> ELSE <<s>>)
       ELSE <<Take(s, i + Len(sep))>> \o SplitAfterFrom(Skip(s, i + Len(sep)), sep, IF n < 0 THEN n ELSE n - 1)
SplitAfterN(s, sep, n) ==
    IF n = 0 THEN <<>>
    ELSE IF sep = <<>> THEN (IF n < 0 \/ n > Len(s) THEN Single(s) ELSE Take(Single(s), n))
    ELSE SplitAfterFrom(s, sep, n)

\* Splitting in bytes: genSplit counts the separators first.
Explode(s, n) == IF n < 0 \/ n > Len(s) THEN Single(s) ELSE Take(Single(s), n)
RECURSIVE GenSplitFrom(_, _, _, _)
GenSplitFrom(s, sep, sepSave, n) ==
    LET m == Index(s, sep)
    IN IF n <= 1 \/ m < 0 THEN <<s>>
       ELSE <<Take(s, m + sepSave)>> \o GenSplitFrom(Skip(s, m + Len(sep)), sep, sepSave, n - 1)
GenSplit(s, sep, sepSave, n) ==
    LET all == Count(s, sep) + 1
    IN IF n = 0 THEN <<>>
       ELSE IF sep = <<>> THEN Explode(s, n)
       ELSE GenSplitFrom(s, sep, sepSave, IF n < 0 \/ n > all THEN all ELSE n)
\* splitSeq, which yields the pieces one by one; a consumer may stop.
RECURSIVE SplitSeq(_, _, _, _)
SplitSeq(s, sep, sepSave, wanted) ==
    LET i == Index(s, sep)
    IN IF wanted = 0 THEN <<>>
       ELSE IF i < 0 THEN <<s>>
       ELSE <<Take(s, i + sepSave)>> \o SplitSeq(Skip(s, i + Len(sep)), sep, sepSave, wanted - 1)

\* FieldsFunc: one scan with the start of the open field, none being -1.
FieldsFunc(s, f) ==
    LET Step(acc, i) ==
            CASE i > Len(s) -> IF acc.start >= 0 THEN [acc EXCEPT !.out = Append(@, Skip(s, acc.start))] ELSE acc
              [] i <= Len(s) /\ s[i] \in f ->
                   IF acc.start >= 0 THEN [out |-> Append(acc.out, Part(s, acc.start, i - 1)), start |-> -1] ELSE acc
              [] i <= Len(s) /\ s[i] \notin f -> IF acc.start < 0 THEN [acc EXCEPT !.start = i - 1] ELSE acc
    IN FoldLeft(Step, [out |-> <<>>, start |-> -1], [i \in 1..(Len(s) + 1) |-> i]).out

\* Trimming: in strings character by character, in bytes by the index of the
\* first and the last character that stays.
TrimLeftFunc(s, f) == LET i == IndexFunc(s, Chars \ f) IN IF i = -1 THEN <<>> ELSE Skip(s, i)
TrimRightFunc(s, f) == LET i == LastIndexFunc(s, Chars \ f) IN IF i >= 0 THEN Take(s, i + 1) ELSE <<>>
TrimFunc(s, f) == TrimRightFunc(TrimLeftFunc(s, f), f)
StringsTrimRight(s, f) ==
    LET ends == {n \in 0..Len(s) : \A k \in (n + 1)..Len(s) : s[k] \in f} IN Take(s, MinOf(ends))
TrimPrefix(s, p) == IF IsPrefix(p, s) THEN Skip(s, Len(p)) ELSE s
TrimSuffix(s, p) == IF IsSuffix(p, s) THEN Take(s, Len(s) - Len(p)) ELSE s
Cut(s, sep) == LET i == Index(s, sep)
               IN IF i = -1 THEN <<s, <<>>, FALSE>> ELSE <<Take(s, i), Skip(s, i + Len(sep)), TRUE>>

-----------------------------------------------------------------------------
\* Replace in strings, by indexOf; and in bytes, by comparing at every index.
RECURSIVE ReplaceFrom(_, _, _, _)
ReplaceFrom(s, old, new, n) ==
    LET i == Index(s, old)
    IN IF n = 0 \/ i = -1 THEN s
       ELSE Take(s, i) \o new \o ReplaceFrom(Skip(s, i + Len(old)), old, new, n - 1)
ReplaceEmpty(s, new, n) ==
    LET limit == IF n < 0 \/ n > Len(s) + 1 THEN Len(s) + 1 ELSE n
    IN new \o FlattenSeq([i \in 1..(limit - 1) |-> <<s[i]>> \o new]) \o Skip(s, limit - 1)
Replace(s, old, new, n) ==
    IF n = 0 \/ old = new THEN s
    ELSE IF old = <<>> THEN ReplaceEmpty(s, new, n)
    ELSE ReplaceFrom(s, old, new, n)
ReplaceEvery(s, old, new) == IF old = <<>> THEN s ELSE JoinWith(SplitAll(s, old), new)
RECURSIVE BytesReplaceFrom(_, _, _, _)
BytesReplaceFrom(s, old, new, n) ==
    IF Len(s) < Len(old) \/ n = 0 THEN s
    ELSE IF IsPrefix(old, s) THEN new \o BytesReplaceFrom(Skip(s, Len(old)), old, new, n - 1)
    ELSE <<Head(s)>> \o BytesReplaceFrom(Tail(s), old, new, n)
BytesReplace(s, old, new, n) ==
    IF n = 0 THEN s ELSE IF old = <<>> THEN ReplaceEmpty(s, new, n) ELSE BytesReplaceFrom(s, old, new, n)

-----------------------------------------------------------------------------
\* strings.Replacer.  pairs is a sequence of [old, new].  The generic replacer
\* looks keys up in a trie; an absent node is <<>>, a node <<n>>.
Node == [value |-> <<>>, priority |-> 0, prefix |-> <<>>, next |-> <<>>, hasTable |-> FALSE,
         table |-> [c \in Chars |-> <<>>]]
CommonPrefix(a, b) == MaxOf({n \in 0..Len(a) : n <= Len(b) /\ Take(a, n) = Take(b, n)})
RECURSIVE TrieAdd(_, _, _, _)
TrieAdd(t, key, val, priority) ==
    LET n == CommonPrefix(t.prefix, key)
        Added(opt, k) == <<TrieAdd(IF opt = <<>> THEN Node ELSE opt[1], k, val, priority)>>
    IN CASE key = <<>> -> IF t.priority = 0 THEN [t EXCEPT !.value = val, !.priority = priority] ELSE t
         [] key # <<>> /\ t.prefix # <<>> /\ n = Len(t.prefix) -> [t EXCEPT !.next = Added(@, Skip(key, n))]
         [] key # <<>> /\ t.prefix # <<>> /\ n = 0 ->
              LET prefixNode == IF Len(t.prefix) = 1 THEN t.next
                                ELSE <<[Node EXCEPT !.next = t.next, !.prefix = Tail(t.prefix)]>>
              IN [t EXCEPT !.table = [[c \in Chars |-> <<>>] EXCEPT ![t.prefix[1]] = prefixNode,
                                                                   ![key[1]] = Added(<<>>, Tail(key))],
                           !.hasTable = TRUE, !.prefix = <<>>, !.next = <<>>]
         [] key # <<>> /\ t.prefix # <<>> /\ n > 0 /\ n < Len(t.prefix) ->
              [t EXCEPT !.prefix = Take(@, n),
                        !.next = Added(<<[Node EXCEPT !.next = t.next, !.prefix = Skip(t.prefix, n)]>>, Skip(key, n))]
         [] key # <<>> /\ t.prefix = <<>> /\ t.hasTable -> [t EXCEPT !.table[key[1]] = Added(@, Tail(key))]
         [] OTHER -> [t EXCEPT !.prefix = key, !.next = Added(<<>>, <<>>)]
Trie(pairs) ==
    FoldLeft(LAMBDA t, i : TrieAdd(t, pairs[i].old, pairs[i].new, 2 * (Len(pairs) - i + 1)),
             [Node EXCEPT !.hasTable = TRUE], [i \in DOMAIN pairs |-> i])
NotFound == [val |-> <<>>, keylen |-> 0, found |-> FALSE, priority |-> 0]
RECURSIVE LookupFrom(_, _, _, _, _)
LookupFrom(node, s, n, ignore, best) ==
    LET t   == node[1]
        now == IF t.priority > best.priority /\ ~ignore
               THEN [val |-> t.value, keylen |-> n, found |-> TRUE, priority |-> t.priority] ELSE best
    IN IF node = <<>> THEN best
       ELSE IF s = <<>> THEN now
       ELSE IF t.hasTable THEN LookupFrom(t.table[s[1]], Tail(s), n + 1, FALSE, now)
       ELSE IF t.prefix # <<>> /\ IsPrefix(t.prefix, s)
            THEN LookupFrom(t.next, Skip(s, Len(t.prefix)), n + Len(t.prefix), FALSE, now)
       ELSE now
Lookup(root, s, ignoreRoot) == LookupFrom(<<root>>, s, 0, ignoreRoot, NotFound)
\* genericReplacer.WriteString; Replace is the same without the memory of an
\* empty match, so it never gets past one.
RECURSIVE GenericFrom(_, _, _)
GenericFrom(root, s, prevMatchEmpty) ==
    LET l == Lookup(root, s, prevMatchEmpty)
    IN IF l.found THEN (IF l.keylen = 0 THEN l.val \o GenericFrom(root, s, TRUE)
                        ELSE l.val \o GenericFrom(root, Skip(s, l.keylen), FALSE))
       ELSE IF s = <<>> THEN <<>>
       ELSE <<Head(s)>> \o GenericFrom(root, Tail(s), FALSE)
GenericWriteString(pairs, s) == GenericFrom(Trie(pairs), s, FALSE)
Diverges == <<"diverges">>
GenericReplace(pairs, s) == IF \E i \in DOMAIN pairs : pairs[i].old = <<>> THEN Diverges ELSE GenericWriteString(pairs, s)

RECURSIVE SingleReplace(_, _, _)
SingleReplace(old, new, s) ==
    LET m == Finder(old, s)
    IN IF m = -1 THEN s ELSE Take(s, m) \o new \o SingleReplace(old, new, Skip(s, m + Len(old)))
\* The byte replacers give the first pair of a byte the last word.
ByteReplace(pairs, s) ==
    [k \in DOMAIN s |-> LET at == {i \in DOMAIN pairs : pairs[i].old[1] = s[k]}
                        IN IF at = {} THEN s[k] ELSE pairs[MinOf(at)].new[1]]
\* byteStringReplacer.Replace.  The constructor fills every entry of
\* replacements, so build finds none missing, lists nothing under toReplace,
\* and Replace, counting only what is listed, sees no change to make.
ToReplace(pairs) == {}
ByteStringReplace(pairs, s) ==
    LET at(c) == {i \in DOMAIN pairs : pairs[i].old[1] = c}
        listed == {i \in DOMAIN s : s[i] \in ToReplace(pairs)}
    IN IF listed = {} THEN s
       ELSE FlattenSeq([k \in DOMAIN s |-> IF at(s[k]) = {} THEN <<>> ELSE pairs[MinOf(at(s[k]))].new])
Build(pairs) ==
    CASE pairs = <<>> -> "none"
      [] Len(pairs) = 1 /\ Len(pairs[1].old) > 1 -> "single"
      [] \E i \in DOMAIN pairs : Len(pairs[i].old) # 1 -> "generic"
      [] OTHER -> IF \A i \in DOMAIN pairs : Len(pairs[i].new) = 1 THEN "byte" ELSE "byteString"
ReplacerReplace(pairs, s) ==
    CASE Build(pairs) = "none" -> s
      [] Build(pairs) = "single" -> SingleReplace(pairs[1].old, pairs[1].new, s)
      [] Build(pairs) = "generic" -> GenericReplace(pairs, s)
      [] Build(pairs) = "byte" -> ByteReplace(pairs, s)
      [] Build(pairs) = "byteString" -> ByteStringReplace(pairs, s)

-----------------------------------------------------------------------------
\* The finder's skips never pass an occurrence: Boyer-Moore finds what a plain
\* search finds (makeStringFinder, stringFinder.next).
FinderPromise(pattern, text) == pattern # <<>> => Finder(pattern, text) = Index(text, pattern)

\* For a separator that is not empty, the pieces put together are the text, no
\* piece but an unsplit last one holds the separator, Count is one less than the
\* pieces, and strings, bytes and their iterators cut alike; SplitAfterN keeps
\* the separators and, in strings, leaves an empty last piece out.
SplitPromise(s, sep, n) ==
    LET parts == SplitN(s, sep, n)
        after == GenSplit(s, sep, Len(sep), n)
    IN /\ sep # <<>> /\ n # 0 =>
             /\ parts = GenSplit(s, sep, 0, n)
             /\ JoinWith(parts, sep) = s
             /\ n > 0 => Len(parts) <= n
             /\ \A i \in DOMAIN parts : (i < Len(parts) \/ n < 0 \/ Len(parts) < n) => Index(parts[i], sep) = -1
             /\ n < 0 => (LastIndex(s, sep) = -1 <=> Len(parts) = 1) /\ Count(s, sep) = Len(parts) - 1 /\ SplitSeq(s, sep, 0, Len(s) + 2) = parts
             /\ FlattenSeq(after) = s /\ Len(after) = Len(parts)
             /\ SplitAfterN(s, sep, n) = SelectSeq(after, LAMBDA p : p # <<>>)
       /\ sep = <<>> /\ (n < 0 \/ n > Len(s)) => FlattenSeq(parts) = s /\ FlattenSeq(Explode(s, n)) = s

\* Replacing goes from left to right and never into what it has put in; both
\* packages agree, n replacements are n, and splitting around the old text
\* tells where they are.
ReplacePromise(s, old, new, n) ==
    LET parts == SplitN(s, old, IF n < 0 THEN n ELSE n + 1)
    IN /\ Replace(s, old, new, n) = BytesReplace(s, old, new, n)
       /\ old # <<>> => Replace(s, old, new, n) = JoinWith(parts, new)
       /\ old # <<>> => ReplaceEvery(s, old, new) = Replace(s, old, new, -1)

\* Fields are the maximal runs between separators; trimming both sides leaves
\* the text from the first to the last character that stays, and leaves it
\* alone the second time; what is cut and what is left make up the text.
TrimPromise(s, f, sep) ==
    LET fields == FieldsFunc(s, f)
        t == TrimFunc(s, f)
        c == Cut(s, sep)
        starts == {i \in DOMAIN s : s[i] \notin f /\ (i = 1 \/ s[i - 1] \in f)}
    IN /\ FlattenSeq(fields) = SelectSeq(s, LAMBDA ch : ch \notin f)
       /\ Len(fields) = Cardinality(starts)
       /\ \A i \in DOMAIN fields : fields[i] # <<>> /\ (\A k \in DOMAIN fields[i] : fields[i][k] \notin f)
       /\ TrimFunc(t, f) = t /\ (t # <<>> => Head(t) \notin f /\ Last(t) \notin f)
       /\ \E i, j \in 0..Len(s) : i <= j /\ t = Part(s, i, j)
             /\ \A k \in DOMAIN s : (k <= i \/ k > j) => s[k] \in f
       /\ TrimRightFunc(s, f) = StringsTrimRight(s, f)
       /\ c[3] => c[1] \o sep \o c[2] = s /\ (sep = <<>> \/ Index(c[1] \o Take(sep, Len(sep) - 1), sep) = -1)
       /\ (IsPrefix(sep, s) => sep \o TrimPrefix(s, sep) = s) /\ (IsSuffix(sep, s) => TrimSuffix(s, sep) \o sep = s)

\* "Replacements are performed in the order they appear in the target string,
\* without overlapping matches.  The old string comparisons are done in
\* argument order" (NewReplacer), whichever algorithm build has chosen.
RECURSIVE InOrder(_, _)
InOrder(pairs, s) ==
    LET at == {i \in DOMAIN pairs : IsPrefix(pairs[i].old, s)}
        p  == pairs[MinOf(at)]
    IN IF s = <<>> THEN <<>>
       ELSE IF at = {} THEN <<Head(s)>> \o InOrder(pairs, Tail(s))
       ELSE p.new \o InOrder(pairs, Skip(s, Len(p.old)))
ReplacerWorks(pairs, s) == (\A i \in DOMAIN pairs : pairs[i].old # <<>>) => ReplacerReplace(pairs, s) = InOrder(pairs, s)
\* The same for all algorithms but byteStringReplacer.
ReplacerPromise(pairs, s) == Build(pairs) # "byteString" => ReplacerWorks(pairs, s)

-----------------------------------------------------------------------------
Marker == 64976           \* U+FDD0, which opens goBinaryStringPrefix
BOM    == 65279           \* U+FEFF
RuneError == 65533
RuneSelf == 128

-----------------------------------------------------------------------------
\* TextEncoder and TextDecoder, as the WHATWG standard defines them.

Encode(r) ==
    CASE r < 128   -> <<r>>
      [] r < 2048  -> <<192 + r \div 64, 128 + (r % 64)>>
      [] r < 65536 -> <<224 + r \div 4096, 128 + ((r \div 64) % 64), 128 + (r % 64)>>
      [] OTHER     -> <<240 + r \div 262144, 128 + ((r \div 4096) % 64),
                        128 + ((r \div 64) % 64), 128 + (r % 64)>>
TextEncode(str) == FlattenSeq([i \in DOMAIN str |-> Encode(str[i])])

\* How many continuation bytes a lead byte asks for; -1 for no lead byte.
Follow(b) == CASE b < 128 -> 0 [] b \in 194..223 -> 1 [] b \in 224..239 -> 2
               [] b \in 240..244 -> 3 [] OTHER -> -1
Continues(lead, k, b) ==
    b \in (IF k # 1 THEN 128..191
           ELSE CASE lead = 224 -> 160..191 [] lead = 237 -> 128..159
                  [] lead = 240 -> 144..191 [] lead = 244 -> 128..143 [] OTHER -> 128..191)
\* The rune at i and the bytes it takes; a malformed one takes its longest
\* well-formed prefix.
RuneAt(b, i) ==
    LET n    == Follow(b[i])
        good == {k \in 1..n : i + k <= Len(b) /\ \A j \in 1..k : Continues(b[i], j, b[i + j])}
        low(k) == b[i + k] % 64
    IN IF n = -1 THEN [r |-> RuneError, w |-> 1, ok |-> FALSE]
       ELSE IF Cardinality(good) < n THEN [r |-> RuneError, w |-> 1 + Cardinality(good), ok |-> FALSE]
       ELSE [w |-> n + 1, ok |-> TRUE,
             r |-> CASE n = 0 -> b[i]
                     [] n = 1 -> (b[i] % 32) * 64 + low(1)
                     [] n = 2 -> (b[i] % 16) * 4096 + low(1) * 64 + low(2)
                     [] n = 3 -> (b[i] % 8) * 262144 + low(1) * 4096 + low(2) * 64 + low(3)]
RECURSIVE RunesFrom(_, _)
RunesFrom(b, i) == IF i > Len(b) THEN <<>> ELSE <<RuneAt(b, i)>> \o RunesFrom(b, i + RuneAt(b, i).w)
WellFormed(b) == \A k \in DOMAIN RunesFrom(b, 1) : RunesFrom(b, 1)[k].ok
DropBOM(str) == IF str # <<>> /\ str[1] = BOM THEN Tail(str) ELSE str
TextDecode(b) == DropBOM([k \in DOMAIN RunesFrom(b, 1) |-> RunesFrom(b, 1)[k].r])

-----------------------------------------------------------------------------
\* gs/builtin/slice.ts

GoStringFromBytesLossy(b) == TextDecode(b)
GoStringFromBytes(b) == IF WellFormed(b) THEN TextDecode(b) ELSE <<Marker>> \o b
GoStringBytes(str) ==
    IF str # <<>> /\ str[1] = Marker THEN [i \in 1..(Len(str) - 1) |-> str[i + 1] % 256]
    ELSE TextEncode(str)

StringLen(str) == Len(GoStringBytes(str))
IndexString(str, i) == GoStringBytes(str)[i + 1]
SliceString(str, low, high) == GoStringFromBytes(SubSeq(GoStringBytes(str), low + 1, high))
StringEqual(x, y) == GoStringBytes(x) = GoStringBytes(y)
StringCompare(x, y) ==
    LET a == GoStringBytes(x)
        b == GoStringBytes(y)
        differ == {i \in DOMAIN a \cap DOMAIN b : a[i] # b[i]}
        first  == CHOOSE i \in differ : \A j \in differ : i <= j
    IN IF differ = {} THEN Len(a) - Len(b) ELSE a[first] - b[first]

StringToRunes(str) == str
RuneToString(r) == IF r \in 0..1114111 /\ ~(r \in 55296..57343) THEN <<r>> ELSE <<RuneError>>
RunesToString(runes) == FlattenSeq([i \in DOMAIN runes |-> RuneToString(runes[i])])
\* for i, r := range s: byte offsets and code points of the JavaScript string.
RangeString(str) ==
    [i \in DOMAIN str |-> <<Len(TextEncode(SubSeq(str, 1, i - 1))), str[i]>>]

\* gs/builtin/map.ts: a map finds a key by identity, a string key also by its
\* bytes.  A map is a sequence of entries in insertion order.
FindMapEntry(map, key) ==
    LET same == {i \in DOMAIN map : map[i].key = key}
        eq   == {i \in DOMAIN map : StringEqual(map[i].key, key)}
    IN IF same # {} THEN CHOOSE i \in same : TRUE
       ELSE IF eq # {} THEN CHOOSE i \in eq : \A j \in eq : i <= j
       ELSE 0
MapSet(map, key, value) ==
    LET at == FindMapEntry(map, key)
    IN IF at # 0 THEN [map EXCEPT ![at].value = value]
       ELSE Append(map, [key |-> key, value |-> value])
MapGet(map, key, default) ==
    LET at == FindMapEntry(map, key) IN IF at # 0 THEN map[at].value ELSE default
DeleteMapEntry(map, key) ==
    LET at == FindMapEntry(map, key) IN IF at # 0 THEN RemoveAt(map, at) ELSE map

-----------------------------------------------------------------------------
\* gs/unicode/utf8/utf8.ts; runes and widths are pairs.

ValidRune(r) == r \in 0..1114111 /\ ~(r \in 55296..57343)
EncodeRune(r) == Encode(IF ValidRune(r) THEN r ELSE RuneError)
RuneLen(r) == IF ~ValidRune(r) THEN -1 ELSE Len(Encode(r))
RuneStart(b) == b \div 64 # 2
DecodeRuneOneByte(p) == IF p = <<>> THEN <<RuneError, 0>> ELSE <<p[1], 1>>
\* The first code point of up to four decoded bytes, and the length of its
\* encoding: an undecodable byte with more behind it counts the three bytes
\* of U+FFFD.
DecodeRune(p) ==
    LET str == TextDecode(SubSeq(p, 1, IF Len(p) < 4 THEN Len(p) ELSE 4))
    IN IF p = <<>> THEN <<RuneError, 0>>
       ELSE IF p[1] < RuneSelf THEN <<p[1], 1>>
       ELSE IF str = <<>> \/ str = <<RuneError>> THEN <<RuneError, 1>>
       ELSE <<str[1], Len(Encode(str[1]))>>
DecodeLastRune(p) ==
    LET starts == {i \in 1..Len(p) : i = 1 \/ RuneStart(p[i])}
        start  == CHOOSE i \in starts : \A j \in starts : j <= i
        d      == DecodeRune(SubSeq(p, start, Len(p)))
    IN IF p = <<>> THEN <<RuneError, 0>>
       ELSE IF start - 1 + d[2] # Len(p) THEN <<RuneError, 1>> ELSE d
FullRune(p) ==
    p # <<>> /\ LET b == p[1]
                IN CASE b < 192 -> TRUE [] b \in 192..223 -> Len(p) >= 2
                     [] b \in 224..239 -> Len(p) >= 3 [] b \in 240..247 -> Len(p) >= 4
                     [] OTHER -> TRUE
RuneCount(p) == Len(TextDecode(p))
Valid(p) == WellFormed(p)

-----------------------------------------------------------------------------
\* What Go prescribes: a rune that is not well formed is U+FFFD, one byte wide.
GoDecodeRune(p) == IF p = <<>> THEN <<RuneError, 0>>
                   ELSE LET d == RuneAt(p, 1) IN <<d.r, IF d.ok THEN d.w ELSE 1>>
LosesBOM(b) == Len(b) >= 3 /\ SubSeq(b, 1, 3) = Encode(BOM) /\ WellFormed(b)
Kept(b) == IF LosesBOM(b) THEN SubSeq(b, 4, Len(b)) ELSE b
Sign(n) == IF n > 0 THEN 1 ELSE IF n < 0 THEN -1 ELSE 0

\* Any byte sequence survives the conversion to a string, its slices and its
\* indexing, byte for byte, valid UTF-8 or not (goStringFromBytes and
\* sliceString); only a byte order mark that opens a well-formed text is lost.
StringPromise(b) ==
    LET str == GoStringFromBytes(b)
        kept == GoStringBytes(str)
    IN /\ kept = Kept(b)
       /\ StringLen(str) = Len(kept)
       /\ \A low \in 0..Len(kept) : \A high \in low..Len(kept) :
             GoStringBytes(SliceString(str, low, high)) = Kept(SubSeq(kept, low + 1, high))
       /\ \A i \in 0..(Len(kept) - 1) : IndexString(str, i) = kept[i + 1]

\* Comparison and equality of strings are those of their bytes, however each
\* is represented, and a map keyed by strings keeps one entry per byte
\* sequence (stringCompare, stringEqual, findMapEntry).
KeyPromise(b1, b2) ==
    LET s1 == GoStringFromBytes(b1)
        s2 == GoStringFromBytes(b2)
        m  == MapSet(MapSet(<<>>, s1, 1), s2, 2)
    IN /\ StringEqual(s1, s2) <=> Kept(b1) = Kept(b2)
       /\ Sign(StringCompare(s1, s2)) = -Sign(StringCompare(s2, s1))
       /\ MapGet(m, s1, 0) = IF Kept(b1) = Kept(b2) THEN 2 ELSE 1
       /\ MapGet(DeleteMapEntry(m, s2), s1, 0) = IF Kept(b1) = Kept(b2) THEN 0 ELSE 1

\* Over well-formed text, ranging, []rune and back, RuneCount, DecodeRune and
\* DecodeLastRune see the same runes at the same offsets as Go (utf8.ts and
\* rangeString).
RunePromise(b) ==
    LET str  == GoStringFromBytes(b)
        kept == GoStringBytes(str)
        runes == RunesFrom(kept, 1)
    IN Valid(b) =>
       /\ FlattenSeq([k \in DOMAIN runes |-> EncodeRune(runes[k].r)]) = kept
       /\ \A k \in DOMAIN runes : RuneLen(runes[k].r) = runes[k].w
       /\ RunesToString(StringToRunes(str)) = str
       /\ \A k \in DOMAIN str : LET at == RangeString(str)[k][1]
                                IN RangeString(str)[k][2] = RuneAt(kept, at + 1).r
       /\ RuneCount(kept) = Len(runes)
       /\ kept # <<>> =>
             /\ DecodeRune(kept) = GoDecodeRune(kept)
             /\ FullRune(kept)
             /\ DecodeLastRune(kept) = <<runes[Len(runes)].r, runes[Len(runes)].w>>
                   \/ runes[Len(runes)].r = BOM

\* "DecodeRune unpacks the first UTF-8 encoding in p and returns the rune and
\* its width in bytes" (utf8.ts): for every p, also one that opens with an
\* invalid byte.
DecodePromise(p) == DecodeRune(p) = GoDecodeRune(p)
=============================================================================
