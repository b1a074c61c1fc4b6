------------------------------- MODULE Paths -------------------------------
(***************************************************************************)
(* Lexical path handling of gs/path (path.ts, match.ts) and of             *)
(* gs/path/filepath (path.ts, match.ts).  A path or pattern is a sequence  *)
(* of characters; "/" and "." and the pattern characters stand for         *)
(* themselves, every other character is only compared.  The two packages   *)
(* implement the same functions twice, in different ways; names of the     *)
(* filepath package carry the prefix FP.                                   *)
(*                                                                         *)
(* Then operations over a tree of files: io/fs (walk.ts, glob.ts, sub.ts)  *)
(* and the host functions of path/filepath (Walk, WalkDir, EvalSymlinks in *)
(* path.ts, Glob in match.ts).                                             *)
(***************************************************************************)
EXTENDS Integers, Sequences, FiniteSets, TLC, SequencesExt

CONSTANT Names    \* sequence of element names, in the order of readDir

Slash == "/"
Dot == <<".">>
DotDot == <<".", ".">>
Root == <<Slash>>

From(s, i) == SubSeq(s, i, Len(s))
UpTo(s, i) == SubSeq(s, 1, i)

\* String.split: the pieces between the separators, empty ones included.
SplitOn(s, c) ==
  FoldLeft(LAMBDA acc, x : IF x = c THEN Append(acc, <<>>)
                           ELSE [acc EXCEPT ![Len(acc)] = Append(@, x)],
           <<<<>>>>, s)

JoinWith(parts, c) ==
  FoldLeft(LAMBDA acc, i : acc \o (IF i = 1 THEN <<>> ELSE <<c>>) \o parts[i],
           <<>>, [i \in DOMAIN parts |-> i])

LastSlash(p) == SelectLastInSeq(p, LAMBDA c : c = Slash)

-----------------------------------------------------------------------------
(* Package path. *)

\* The index after the element that starts at r.
ElementEnd(p, r) ==
  LET ends == {i \in r..Len(p) : p[i] = Slash} IN
  IF ends = {} THEN Len(p) + 1 ELSE CHOOSE i \in ends : \A j \in ends : i <= j

\* Back up out over its last element, but not below dotdot.
RECURSIVE BackUp(_, _)
BackUp(out, dotdot) ==
  IF Len(out) > dotdot /\ out[Len(out)] # Slash
  THEN BackUp(UpTo(out, Len(out) - 1), dotdot)
  ELSE IF Len(out) > dotdot THEN UpTo(out, Len(out) - 1) ELSE out

\* The loop of Clean: r reads the path, out is the written part of the lazy
\* buffer, dotdot the length that ".." must not remove.
RECURSIVE CleanFrom(_, _, _, _, _)
CleanFrom(p, rooted, r, out, dotdot) ==
  LET elemEnds(i) == i > Len(p) \/ p[i] = Slash IN
  IF r > Len(p) THEN out
  ELSE IF p[r] = Slash \/ (p[r] = "." /\ elemEnds(r + 1))
  THEN CleanFrom(p, rooted, r + 1, out, dotdot)
  ELSE IF p[r] = "." /\ p[r + 1] = "." /\ elemEnds(r + 2)
  THEN LET up == out \o (IF out = <<>> THEN <<>> ELSE Root) \o DotDot IN
       IF Len(out) > dotdot
       THEN CleanFrom(p, rooted, r + 2, BackUp(out, dotdot), dotdot)
       ELSE IF rooted THEN CleanFrom(p, rooted, r + 2, out, dotdot)
       ELSE CleanFrom(p, rooted, r + 2, up, Len(up))
  ELSE LET e == ElementEnd(p, r)
           sep == IF Len(out) # (IF rooted THEN 1 ELSE 0) THEN Root ELSE <<>>
       IN CleanFrom(p, rooted, e, out \o sep \o SubSeq(p, r, e - 1), dotdot)

\* Mutant: ".." at the start of a relative path is not protected.
CleanForgetsDotDot(p) ==
  LET rooted == p # <<>> /\ p[1] = Slash
      out == CleanFrom(p, TRUE, 1, IF rooted THEN Root ELSE <<>>, 0)
  IN IF out = <<>> THEN Dot ELSE out

Clean(p) ==
  IF p = <<>> THEN Dot
  ELSE LET rooted == p[1] = Slash
           out == IF rooted THEN CleanFrom(p, TRUE, 2, Root, 1)
                  ELSE CleanFrom(p, FALSE, 1, <<>>, 0)
       IN IF out = <<>> THEN Dot ELSE out

Split(p) == <<UpTo(p, LastSlash(p)), From(p, LastSlash(p) + 1)>>

Join(elems) ==
  IF \A i \in DOMAIN elems : elems[i] = <<>> THEN <<>>
  ELSE Clean(FoldLeft(LAMBDA buf, e :
                        IF buf # <<>> THEN buf \o Root \o e ELSE e, <<>>, elems))

Ext(p) ==
  LET dot == SelectLastInSeq(p, LAMBDA c : c = ".") IN
  IF dot > LastSlash(p) THEN From(p, dot) ELSE <<>>

StripSlashes(p) ==
  UpTo(p, SelectLastInSeq(p, LAMBDA c : c # Slash))

Base(p) ==
  IF p = <<>> THEN Dot
  ELSE LET q == StripSlashes(p)
           e == From(q, LastSlash(q) + 1)
       IN IF e = <<>> THEN Root ELSE e

IsAbs(p) == p # <<>> /\ p[1] = Slash

Dir(p) == Clean(Split(p)[1])

-----------------------------------------------------------------------------
(* Package path/filepath. *)

FPClean(p) ==
  LET abs == IsAbs(p)
      segments == SelectSeq(SplitOn(p, Slash), LAMBDA s : s # <<>> /\ s # Dot)
      push(result, s) ==
        IF s # DotDot THEN Append(result, s)
        ELSE IF result # <<>> /\ result[Len(result)] # DotDot
        THEN UpTo(result, Len(result) - 1)
        ELSE IF abs THEN result ELSE Append(result, DotDot)
      cleaned == JoinWith(FoldLeft(push, <<>>, segments), Slash)
  IN  IF abs THEN Root \o cleaned
      ELSE IF cleaned = <<>> THEN Dot ELSE cleaned

FPBase(p) ==
  IF p = <<>> THEN Dot
  ELSE LET q == StripSlashes(p) IN
       IF q = <<>> THEN Root ELSE From(q, LastSlash(q) + 1)

FPDir(p) ==
  IF p = <<>> THEN Dot
  ELSE LET q == StripSlashes(p)
           dir == UpTo(q, LastSlash(q) - 1)
       IN IF q = <<>> THEN Root
          ELSE IF LastSlash(q) = 0 THEN Dot
          ELSE FPClean(IF dir = <<>> THEN Root ELSE dir)

FPExt(p) ==
  LET base == FPBase(p)
      dot == SelectLastInSeq(base, LAMBDA c : c = ".")
  IN  IF dot <= 1 THEN <<>> ELSE From(base, dot)

FPJoin(elems) ==
  LET first == SelectInSeq(elems, LAMBDA e : e # <<>>) IN
  IF first = 0 THEN <<>> ELSE FPClean(JoinWith(From(elems, first), Slash))

FPSplit(p) ==
  IF LastSlash(p) = 0 THEN <<<<>>, p>>
  ELSE <<UpTo(p, LastSlash(p)), From(p, LastSlash(p) + 1)>>

\* depth, counted segment by segment, never becomes negative.
IsLocal(p) ==
  LET segments == SplitOn(p, Slash)
      names(i) == {j \in 1..i : segments[j] \notin {<<>>, Dot, DotDot}}
      ups(i) == {j \in 1..i : segments[j] = DotDot}
  IN  /\ p # <<>> /\ ~IsAbs(p)
      /\ \A i \in DOMAIN segments : Cardinality(ups(i)) <= Cardinality(names(i))

HasPrefix(p, prefix) ==
  prefix = <<>> \/ LET q == FPClean(p)  pre == FPClean(prefix) IN
                   q = pre \/ IsPrefix(Append(pre, Slash), q)

\* Abs of a path when the working directory is wd.
Abs(wd, p) == IF IsAbs(p) THEN FPClean(p) ELSE FPJoin(<<wd, p>>)

RelError == <<"error">>

\* Where the walk of Rel stands after the elements that agree: the starts and
\* ends of the first elements that differ.
RECURSIVE FirstDifference(_, _, _, _)
FirstDifference(b, t, b0, t0) ==
  LET bi == ElementEnd(b, b0)  ti == ElementEnd(t, t0)
      after(s, i) == IF i <= Len(s) THEN i + 1 ELSE i
  IN  IF SubSeq(b, b0, bi - 1) # SubSeq(t, t0, ti - 1)
      THEN [b0 |-> b0, bi |-> bi, t0 |-> t0]
      ELSE FirstDifference(b, t, after(b, bi), after(t, ti))

Rel(basepath, targpath) ==
  LET base == FPClean(basepath)  targ == FPClean(targpath)
      b == IF base = Dot THEN <<>> ELSE base
      t == IF targ = Dot THEN <<>> ELSE targ
      d == FirstDifference(b, t, 1, 1)
      rest == From(t, d.t0)
      ups == FoldLeft(LAMBDA acc, c : IF c = Slash THEN acc \o Root \o DotDot
                                      ELSE acc, DotDot, From(b, d.b0))
  IN  IF base = targ THEN Dot
      ELSE IF IsAbs(b) # IsAbs(t) THEN RelError
      ELSE IF SubSeq(b, d.b0, d.bi - 1) = DotDot THEN RelError
      ELSE IF d.b0 > Len(b) THEN rest
      ELSE IF rest = <<>> THEN ups ELSE ups \o Root \o rest

-----------------------------------------------------------------------------
(* Matching, package path.  A result is [ok, err] or, for a chunk,         *)
(* [rest, ok, err].                                                        *)

Code(c) ==
  LET codes == [a |-> 97, b |-> 98] @@ ("*" :> 42) @@ ("-" :> 45) @@ ("." :> 46)
        @@ ("/" :> 47) @@ ("?" :> 63) @@ ("[" :> 91) @@ ("\\" :> 92)
        @@ ("]" :> 93) @@ ("^" :> 94)
  IN codes[c]

Chunk(rest, ok, err) == [rest |-> rest, ok |-> ok, err |-> err]
BadPattern == Chunk(<<>>, FALSE, TRUE)

\* getEsc: one possibly escaped character of a class.
GetEsc(chunk) ==
  LET esc == chunk # <<>> /\ chunk[1] = "\\"
      c == IF esc THEN Tail(chunk) ELSE chunk
  IN  [bad |-> \/ chunk = <<>> \/ chunk[1] \in {"-", "]"}
               \/ Len(c) <= 1,
       c |-> IF c = <<>> THEN "" ELSE c[1],
       rest |-> IF c = <<>> THEN <<>> ELSE Tail(c)]

\* The ranges of a class up to its "]": what is left, whether one contains r.
RECURSIVE Ranges(_, _, _, _)
Ranges(chunk, r, match, nrange) ==
  IF chunk # <<>> /\ chunk[1] = "]" /\ nrange > 0 THEN Chunk(Tail(chunk), match, FALSE)
  ELSE LET lo == GetEsc(chunk) IN
       IF lo.bad THEN BadPattern
       ELSE LET ranged == lo.rest[1] = "-"
                hi == IF ranged THEN GetEsc(Tail(lo.rest)) ELSE lo
                in == r # "" /\ Code(lo.c) <= Code(r) /\ Code(r) <= Code(hi.c)
            IN IF hi.bad THEN BadPattern
               ELSE Ranges(hi.rest, r, match \/ in, nrange + 1)

\* After a failure the loop goes on to check the syntax, without reading s.
RECURSIVE MatchChunk(_, _, _)
MatchChunk(chunk, s, didFail) ==
  LET failed == didFail \/ s = <<>>
      rest == IF failed THEN s ELSE Tail(s)
      neg == Len(chunk) > 1 /\ chunk[2] = "^"
      class == Ranges(From(chunk, IF neg THEN 3 ELSE 2),
                      IF failed THEN "" ELSE s[1], FALSE, 0)
  IN  IF chunk = <<>> THEN IF didFail THEN Chunk(<<>>, FALSE, FALSE)
                           ELSE Chunk(s, TRUE, FALSE)
      ELSE IF chunk[1] = "["
      THEN IF class.err THEN BadPattern
           ELSE MatchChunk(class.rest, rest, failed \/ class.ok = neg)
      ELSE IF chunk[1] = "?"
      THEN MatchChunk(Tail(chunk), rest, failed \/ s[1] = Slash)
      ELSE IF chunk[1] = "\\"
      THEN IF Len(chunk) = 1 THEN BadPattern ELSE MatchChunk(Tail(chunk), s, failed)
      ELSE MatchChunk(Tail(chunk), rest, failed \/ chunk[1] # s[1])

\* Where scanChunk ends the chunk that starts at i.
RECURSIVE ChunkEnd(_, _, _)
ChunkEnd(p, i, inrange) ==
  IF i > Len(p) THEN i
  ELSE IF p[i] = "\\" THEN ChunkEnd(p, IF i < Len(p) THEN i + 2 ELSE i + 1, inrange)
  ELSE IF p[i] = "*" /\ ~inrange THEN i
  ELSE ChunkEnd(p, i + 1, IF p[i] = "[" THEN TRUE
                          ELSE IF p[i] = "]" THEN FALSE ELSE inrange)

ScanChunk(pattern) ==
  LET stars == SelectInSeq(pattern, LAMBDA c : c # "*") - 1
      p == IF \A i \in DOMAIN pattern : pattern[i] = "*" THEN <<>>
           ELSE From(pattern, stars + 1)
      e == ChunkEnd(p, 1, FALSE)
  IN  [star |-> p # pattern, chunk |-> UpTo(p, e - 1), rest |-> From(p, e)]

\* The rest of the pattern is checked before an answer of "no".
RECURSIVE RestIsBad(_)
RestIsBad(pattern) ==
  pattern # <<>> /\ LET c == ScanChunk(pattern) IN
                    MatchChunk(c.chunk, <<>>, FALSE).err \/ RestIsBad(c.rest)

No(bad) == [ok |-> FALSE, err |-> bad]

RECURSIVE Match(_, _)
Match(pattern, name) ==
  LET c == ScanChunk(pattern)
      here == MatchChunk(c.chunk, name, FALSE)
      \* the number of bytes a star may skip
      reach == (IF Slash \in Range(name)
                THEN SelectInSeq(name, LAMBDA x : x = Slash) - 1 ELSE Len(name))
      fits(t) == t.ok /\ (t.rest = <<>> \/ c.rest # <<>>)
      skips == {k \in 1..reach : fits(MatchChunk(c.chunk, From(name, k + 1), FALSE))}
      first == CHOOSE k \in skips : \A j \in skips : k <= j
  IN  IF pattern = <<>> THEN [ok |-> name = <<>>, err |-> FALSE]
      ELSE IF c.star /\ c.chunk = <<>> THEN [ok |-> Slash \notin Range(name), err |-> FALSE]
      ELSE IF fits(here) THEN Match(c.rest, here.rest)
      ELSE IF here.err THEN No(TRUE)
      ELSE IF c.star /\ skips # {}
      THEN Match(c.rest, MatchChunk(c.chunk, From(name, first + 1), FALSE).rest)
      ELSE No(RestIsBad(c.rest))

-----------------------------------------------------------------------------
(* Matching, package path/filepath. *)

\* The index of the "]" that ends the class whose content starts at i; 0 if
\* there is none.
RECURSIVE ClassClose(_, _)
ClassClose(p, i) ==
  IF i > Len(p) THEN 0
  ELSE IF p[i] = "]" THEN i ELSE ClassClose(p, IF p[i] = "\\" THEN i + 2 ELSE i + 1)

ClassStart(p, i) == IF i < Len(p) /\ p[i + 1] = "^" THEN i + 2 ELSE i + 1

RECURSIVE ValidFrom(_, _)
ValidFrom(p, i) ==
  LET start == ClassStart(p, i)  close == ClassClose(p, start) IN
  IF i > Len(p) THEN TRUE
  ELSE IF p[i] = "\\" THEN i < Len(p) /\ ValidFrom(p, i + 2)
  ELSE IF p[i] = "[" THEN close > start /\ ValidFrom(p, close + 1)
  ELSE ValidFrom(p, i + 1)

\* matchCharClass: <<matched before negation, index after the class>>.
RECURSIVE ClassItems(_, _, _, _)
ClassItems(p, i, char, matched) ==
  IF i > Len(p) THEN <<matched, i>>
  ELSE IF p[i] = "]" THEN <<matched, i + 1>>
  ELSE IF p[i] = "\\" THEN ClassItems(p, i + 2, char, matched \/ p[i + 1] = char)
  ELSE IF i + 2 <= Len(p) /\ p[i + 1] = "-" /\ p[i + 2] # "]"
  THEN ClassItems(p, i + 3, char,
         matched \/ (Code(p[i]) <= Code(char) /\ Code(char) <= Code(p[i + 2])))
  ELSE ClassItems(p, i + 1, char, matched \/ p[i] = char)

RECURSIVE FPMatchFrom(_, _, _, _)
FPMatchFrom(p, i, s, j) ==
  LET class == ClassItems(p, ClassStart(p, i), s[j], FALSE)
      negated == i < Len(p) /\ p[i + 1] = "^"
      upto == {k \in j..(Len(s) + 1) : \A x \in j..(k - 1) : s[x] # Slash}
  IN  IF i > Len(p) \/ j > Len(s)
      THEN j > Len(s) /\ \A x \in i..Len(p) : p[x] = "*"
      ELSE IF p[i] = "*"
      THEN IF i = Len(p) THEN Slash \notin Range(From(s, j))
           ELSE \E k \in upto : FPMatchFrom(p, i + 1, s, k)
      ELSE IF p[i] = "?" THEN s[j] # Slash /\ FPMatchFrom(p, i + 1, s, j + 1)
      ELSE IF p[i] = "["
      THEN class[1] # negated /\ FPMatchFrom(p, class[2], s, j + 1)
      ELSE IF p[i] = "\\" THEN p[i + 1] = s[j] /\ FPMatchFrom(p, i + 2, s, j + 1)
      ELSE p[i] = s[j] /\ FPMatchFrom(p, i + 1, s, j + 1)

FPMatch(pattern, name) ==
  IF ValidFrom(pattern, 1)
  THEN [ok |-> FPMatchFrom(pattern, 1, name, 1), err |-> FALSE] ELSE No(TRUE)

-----------------------------------------------------------------------------
(* What these functions promise. *)

\* The grammar in the comment of Match: the terms of a pattern, as sets of
\* single characters they match, or Star; Malformed when there is no parse.
Star == {"any sequence"}
Malformed == <<{"malformed"}>>
Chars == {"a", "b", "*", "-", ".", "/", "?", "[", "\\", "]", "^"}

RECURSIVE ClassSet(_, _, _)
ClassSet(p, i, set) ==
  LET char(k) == IF k <= Len(p) /\ p[k] = "\\" THEN k + 1 ELSE k
      bad(k) == char(k) > Len(p) \/ (char(k) = k /\ p[k] \in {"-", "]"})
      lo == char(i)
      ranged == lo < Len(p) /\ p[lo + 1] = "-"
      hi == IF ranged THEN char(lo + 2) ELSE lo
  IN  IF i <= Len(p) /\ p[i] = "]" /\ set # {} THEN [set |-> set, next |-> i + 1]
      ELSE IF bad(i) \/ (ranged /\ bad(lo + 2)) THEN [set |-> {}, next |-> 0]
      ELSE ClassSet(p, hi + 1, set \cup {{c \in Chars : Code(p[lo]) <= Code(c)
                                                      /\ Code(c) <= Code(p[hi])}})

RECURSIVE Terms(_, _)
Terms(p, i) ==
  LET with(term, next) == LET rest == Terms(p, next) IN
        IF rest = Malformed THEN Malformed ELSE <<term>> \o rest
      class == ClassSet(p, ClassStart(p, i), {})
      negated == ClassStart(p, i) = i + 2
  IN  IF i > Len(p) THEN <<>>
      ELSE IF p[i] = "*" THEN with(Star, i + 1)
      ELSE IF p[i] = "?" THEN with(Chars \ {Slash}, i + 1)
      ELSE IF p[i] = "[" THEN IF class.next = 0 THEN Malformed
        ELSE with(IF negated THEN Chars \ UNION class.set ELSE UNION class.set,
                  class.next)
      ELSE IF p[i] = "\\" THEN IF i = Len(p) THEN Malformed ELSE with({p[i + 1]}, i + 2)
      ELSE with({p[i]}, i + 1)

RECURSIVE Denotes(_, _)
Denotes(terms, s) ==
  IF terms = <<>> THEN s = <<>>
  ELSE IF Head(terms) = Star
  THEN Denotes(Tail(terms), s) \/ (s # <<>> /\ s[1] # Slash /\ Denotes(terms, Tail(s)))
  ELSE s # <<>> /\ s[1] \in Head(terms) /\ Denotes(Tail(terms), Tail(s))

\* An escape in front of a pattern character, outside a class.
EscapesOperator(p) ==
  \E i \in 1..(Len(p) - 1) : p[i] = "\\" /\ p[i + 1] \in {"?", "[", "\\"}

\* Both implementations of Match accept exactly the names the grammar gives
\* to a well-formed pattern, and package path reports exactly the malformed
\* ones.  Not claimed: package path for an escaped operator, and which
\* malformed classes package filepath accepts.
MatchPromise(pattern, name) ==
  LET terms == Terms(pattern, 1) IN
  IF terms = Malformed THEN EscapesOperator(pattern) \/ Match(pattern, name) = No(TRUE)
  ELSE LET yes == [ok |-> Denotes(terms, name), err |-> FALSE] IN
       /\ EscapesOperator(pattern) \/ Match(pattern, name) = yes
       /\ FPMatch(pattern, name) = yes

\* The meaning of a path, read element by element: whether it is absolute,
\* how many directories it climbs, and the names it then descends.
Meaning(p) ==
  LET abs == IsAbs(p)
      step(m, s) ==
        IF s = <<>> \/ s = Dot THEN m
        ELSE IF s # DotDot THEN [m EXCEPT !.names = Append(@, s)]
        ELSE IF m.names # <<>>
        THEN [m EXCEPT !.names = UpTo(@, Len(@) - 1)]
        ELSE IF abs THEN m ELSE [m EXCEPT !.ups = @ + 1]
  IN  FoldLeft(step, [abs |-> abs, ups |-> 0, names |-> <<>>], SplitOn(p, Slash))

\* The one shortest way to write a meaning.
Canonical(m) ==
  LET elems == [i \in 1..m.ups |-> DotDot] \o m.names
      text == JoinWith(elems, Slash)
  IN  IF m.abs THEN Root \o text ELSE IF elems = <<>> THEN Dot ELSE text

\* Both implementations of Clean return the shortest path with the same
\* meaning; Join and Dir return what they name; Base and Dir name the path
\* again; IsLocal is "does not climb".
CleanPromise(p) ==
  /\ Clean(p) = Canonical(Meaning(p)) /\ FPClean(p) = Clean(p)
  /\ Split(p)[1] \o Split(p)[2] = p /\ FPSplit(p) = Split(p)
  /\ FPBase(p) = Base(p)
  /\ FPExt(p) \in {<<>>, Ext(FPBase(p))}
  /\ IsLocal(p) => Meaning(p).ups = 0 /\ ~Meaning(p).abs
  /\ Meaning(FPJoin(<<FPDir(p), FPBase(p)>>)) = Meaning(p)
       \/ From(p, Len(p)) = Root \/ Base(p) \in {Dot, DotDot}

\* Joining the result of Rel to the base gives the target; Rel fails only
\* when no purely lexical answer exists.
RelPromise(b, t) ==
  IF Rel(b, t) = RelError
  THEN \/ Meaning(b).abs # Meaning(t).abs
       \/ Meaning(b).ups > Meaning(t).ups
  ELSE /\ FPJoin(<<b, Rel(b, t)>>) = FPClean(t)
       /\ Join(<<b, Rel(b, t)>>) = Clean(t)
       /\ b # <<>> /\ HasPrefix(t, b) => Meaning(Rel(b, t)).ups = 0

-----------------------------------------------------------------------------
(* Trees of files.  A file is named by the sequence of its path elements.  *)
(* A tree is a function on a prefix-closed set of such names: a directory, *)
(* a directory that cannot be read, a file, or a link.  Directories list   *)
(* their entries in the order of Names.                                    *)

Directory == [kind |-> "dir"]
Unreadable == [kind |-> "unreadable"]
File == [kind |-> "file"]
Link(abs, elems) == [kind |-> "link", abs |-> abs, elems |-> elems]

IsDirNode(tree, p) == tree[p].kind \in {"dir", "unreadable"}
Parent(p) == SubSeq(p, 1, Len(p) - 1)

\* readDir: the children of p in order.
Entries(tree, p) ==
  LET all == [i \in DOMAIN Names |-> Append(p, Names[i])] IN
  SelectSeq(all, LAMBDA q : q \in DOMAIN tree)

-----------------------------------------------------------------------------
(* Walks.  answer[p] is what the callback returns for p; err is "nil",     *)
(* "SkipDir", "SkipAll" or "error".  Every call of the callback is logged. *)

Result(log, err) == [log |-> log, err |-> err]

\* The loop over the entries: call the walk W on each, until Stop of its
\* error ends it with the error Ends gives.
OverEntries(W(_), entries, log, Stop(_, _), Ends(_)) ==
  LET step(acc, q) ==
        LET r == W(q) IN
        IF acc.stop THEN acc
        ELSE IF r.err # "nil" /\ Stop(q, r.err)
        THEN [log |-> acc.log \o r.log, err |-> Ends(r.err), stop |-> TRUE]
        ELSE [acc EXCEPT !.log = @ \o r.log]
      end == FoldLeft(step, [log |-> log, err |-> "nil", stop |-> FALSE], entries)
  IN  Result(end.log, end.err)

\* io/fs walkDir.  SkipDir of an entry ends the directory, SkipDir of a
\* directory has become nil before.
RECURSIVE FSWalkDirFrom(_, _, _)
FSWalkDirFrom(tree, answer, p) ==
  LET isDir == IsDirNode(tree, p)
      skip(e) == IF e = "SkipDir" /\ isDir THEN "nil" ELSE e
      first == Result(<<p>>, skip(answer[p]))
      again == Result(<<p, p>>, skip(answer[p]))
  IN  IF answer[p] # "nil" \/ ~isDir THEN first
      ELSE IF tree[p].kind = "unreadable" THEN again
      ELSE OverEntries(LAMBDA q : FSWalkDirFrom(tree, answer, q),
             Entries(tree, p), <<p>>, LAMBDA q, e : TRUE,
             LAMBDA e : IF e = "SkipDir" THEN "nil" ELSE e)

FSWalkDir(tree, answer) ==
  LET r == FSWalkDirFrom(tree, answer, <<>>) IN
  IF r.err \in {"SkipDir", "SkipAll"} THEN [r EXCEPT !.err = "nil"] ELSE r

\* Mutant: SkipDir of a file goes on with the next entry.
HostWalkGoesOn(tree, answer, p) ==
  FSWalkDirFrom(tree, [q \in DOMAIN answer |->
    IF answer[q] = "SkipDir" /\ tree[q].kind = "file" THEN "nil" ELSE answer[q]], p)

\* filepath walkHost and walkDirHost.
RECURSIVE HostWalk(_, _, _)
HostWalk(tree, answer, p) ==
  LET isDir == IsDirNode(tree, p) IN
  IF answer[p] = "SkipAll" \/ (answer[p] = "SkipDir" /\ isDir)
  THEN Result(<<p>>, "nil")
  ELSE IF answer[p] # "nil" \/ ~isDir THEN Result(<<p>>, answer[p])
  ELSE IF tree[p].kind = "unreadable" THEN Result(<<p, p>>, answer[p])
  ELSE OverEntries(LAMBDA q : HostWalk(tree, answer, q), Entries(tree, p), <<p>>,
         LAMBDA q, e : e # "SkipDir" \/ ~IsDirNode(tree, q),
         LAMBDA e : IF e = "SkipAll" THEN "nil" ELSE e)

-----------------------------------------------------------------------------
(* Glob, for patterns that are sequences of element patterns.  An element  *)
(* pattern is the set of names it matches; one with a single name may also *)
(* be a literal, which is looked up without reading the directory.         *)

Literal(n) == [meta |-> FALSE, set |-> {n}]
Meta(S) == [meta |-> TRUE, set |-> S]

ReadDirNames(tree, p) ==
  IF p \in DOMAIN tree /\ tree[p].kind = "dir" THEN Entries(tree, p) ELSE <<>>

\* io/fs glob: one directory, one element pattern.
GlobDir(tree, p, pat) ==
  SelectSeq(ReadDirNames(tree, p), LAMBDA q : q[Len(q)] \in pat.set)

\* io/fs globWithLimit: split off the last element; a directory part without
\* pattern characters is used as it is, another one is globbed first.
RECURSIVE FSGlob(_, _)
FSGlob(tree, pats) ==
  LET n == Len(pats)
      path == [i \in 1..n |-> CHOOSE x \in pats[i].set : TRUE]
      dirs == IF \A i \in 1..(n - 1) : ~pats[i].meta THEN <<Parent(path)>>
              ELSE FSGlob(tree, SubSeq(pats, 1, n - 1))
  IN  IF \A i \in 1..n : ~pats[i].meta
      THEN IF path \in DOMAIN tree THEN <<path>> ELSE <<>>
      ELSE FlattenSeq([i \in DOMAIN dirs |-> GlobDir(tree, dirs[i], pats[n])])

\* filepath globHost: prefixes grow one element at a time.  The last literal
\* is appended without a look at the file system.
HostGlob(tree, pats) ==
  LET n == Len(pats)
      path == [i \in 1..n |-> CHOOSE x \in pats[i].set : TRUE]
      isDir(q) == q \in DOMAIN tree /\ IsDirNode(tree, q)
      grow(i, p) ==
        IF ~pats[i].meta
        THEN LET q == Append(p, CHOOSE x \in pats[i].set : TRUE) IN
             IF i = n \/ isDir(q) THEN <<q>> ELSE <<>>
        ELSE SelectSeq(GlobDir(tree, p, pats[i]), LAMBDA q : i = n \/ isDir(q))
      step(prefixes, i) == FlattenSeq([k \in DOMAIN prefixes |-> grow(i, prefixes[k])])
  IN  IF \A i \in 1..n : ~pats[i].meta
      THEN IF path \in DOMAIN tree THEN <<path>> ELSE <<>>
      ELSE FoldLeft(step, <<<<>>>>, [i \in 1..n |-> i])

-----------------------------------------------------------------------------
(* subFS: a directory of a tree as a tree.  Names are sequences, so a      *)
(* valid path has neither empty nor dot elements.                          *)

FullName(dir, p) == dir \o p

\* shorten: <<name, ok>>.
Shorten(dir, p) ==
  IF p = dir THEN <<<<>>, TRUE>>
  ELSE IF Len(p) > Len(dir) /\ SubSeq(p, 1, Len(dir)) = dir
  THEN <<SubSeq(p, Len(dir) + 1, Len(p)), TRUE>>
  ELSE <<<<>>, FALSE>>

SubGlob(tree, dir, pats) ==
  LET full == [i \in DOMAIN dir |-> Literal(dir[i])] \o pats
      list == FSGlob(tree, full)
  IN  [i \in DOMAIN list |-> Shorten(dir, list[i])[1]]

-----------------------------------------------------------------------------
(* EvalSymlinks.  A path is [abs, elems]; an empty last element stands for *)
(* a trailing slash.  Relative paths start in the directory cwd.           *)

MaxLinks == 3   \* bound: links followed; the code stops after 255

Up == ".."
Failed == [abs |-> FALSE, elems |-> <<"error">>]

\* The node a path without links names.
Place(cwd, path) == IF path.abs THEN path.elems ELSE cwd \o path.elems

\* What dest.slice(0, r) leaves, r the last slash at or after volLen; "keep"
\* when there is no such slash.
CutLast(vol, dest) ==
  LET n == Len(dest.elems) IN
  IF n >= 2 THEN [dest EXCEPT !.elems = Parent(@)]
  ELSE IF dest.abs /\ ~vol THEN [abs |-> FALSE, elems |-> <<>>]
  ELSE [abs |-> vol, elems |-> <<"keep">>]

\* The lexical part of a relative name, as the system resolves it: dots in
\* dest climb from real directories.
RECURSIVE Climb(_)
Climb(elems) ==
  IF \E i \in DOMAIN elems : elems[i] = Up
  THEN LET i == SelectInSeq(elems, LAMBDA e : e = Up) IN
       Climb(SubSeq(elems, 1, i - 2) \o SubSeq(elems, i + 1, Len(elems)))
  ELSE elems

\* Follow one component after the other.  vol: the path given was absolute.
RECURSIVE EvalFrom(_, _, _, _, _, _)
EvalFrom(tree, cwd, vol, dest, elems, links) ==
  LET c == Head(elems)  rest == Tail(elems)
      cut == CutLast(vol, dest)
      keep == cut.elems = <<"keep">> \/ (dest.elems # <<>> /\ dest.elems[Len(dest.elems)] = Up)
      next == [dest EXCEPT !.elems = Append(@, c)]
      at == Climb(Place(cwd, next))
      target == tree[at]
      back == CutLast(vol, next)
  IN  IF \A i \in DOMAIN elems : elems[i] = "" THEN dest
      ELSE IF c = "" THEN EvalFrom(tree, cwd, vol, dest, rest, links)
      ELSE IF c = Up
      THEN EvalFrom(tree, cwd, vol, IF keep THEN next ELSE cut, rest, links)
      ELSE IF at \notin DOMAIN tree THEN Failed
      ELSE IF target.kind # "link"
      THEN IF target.kind = "file" /\ rest # <<>> THEN Failed
           ELSE EvalFrom(tree, cwd, vol, next, rest, links)
      ELSE IF links = MaxLinks THEN Failed
      ELSE EvalFrom(tree, cwd, vol,
             IF target.abs THEN [abs |-> TRUE, elems |-> <<>>]
             ELSE IF back.elems = <<"keep">> THEN [abs |-> vol, elems |-> <<>>]
             ELSE back,
             target.elems \o rest, links + 1)

EvalSymlinks(tree, cwd, path) ==
  EvalFrom(tree, cwd, path.abs, [abs |-> path.abs, elems |-> <<>>], path.elems, 0)

-----------------------------------------------------------------------------
(* What these functions promise. *)

Before(p, q) ==  \* p comes before q in pre-order
  \/ IsStrictPrefix(p, q)
  \/ \E i \in DOMAIN p \cap DOMAIN q :
       /\ SubSeq(p, 1, i - 1) = SubSeq(q, 1, i - 1)
       /\ \E j, k \in DOMAIN Names : Names[j] = p[i] /\ Names[k] = q[i] /\ j < k

\* The files a walk must visit: those whose directories are visited and not
\* skipped, that no earlier file of the same directory skips, before the
\* first answer that ends the walk.
MustVisit(tree, answer) ==
  LET open(p) == answer[p] = "nil" /\ tree[p].kind = "dir"
      reached(p) ==
        /\ \A i \in 0..(Len(p) - 1) : open(SubSeq(p, 1, i))
        /\ \A i \in 1..Len(p), q \in DOMAIN tree :
             (/\ Len(q) = i /\ Parent(q) = SubSeq(p, 1, i - 1)
              /\ Before(q, SubSeq(p, 1, i)) /\ ~IsDirNode(tree, q))
                => answer[q] # "SkipDir"
      candidates == {p \in DOMAIN tree : reached(p)}
  IN  {p \in candidates : ~\E q \in candidates :
         Before(q, p) /\ answer[q] \in {"SkipAll", "error"}}

WalkedRight(tree, answer, r) ==
  /\ ToSet(r.log) = MustVisit(tree, answer)
  /\ \A i, j \in DOMAIN r.log : i < j => r.log[i] = r.log[j] \/ Before(r.log[i], r.log[j])
  /\ r.err = "error" <=> \E p \in MustVisit(tree, answer) : answer[p] = "error"
  /\ r.err \in {"nil", "error"}

\* io/fs.WalkDir calls the callback for exactly the files it must visit, in
\* lexical order, and returns the callback's error; so do filepath.Walk and
\* WalkDir as long as no callback answers SkipAll, except that a SkipDir for a
\* file of the root directory comes back to the caller.
WalkPromise(tree, answer) ==
  /\ WalkedRight(tree, answer, FSWalkDir(tree, answer))
  /\ (\A p \in DOMAIN tree : answer[p] # "SkipAll")
       => LET r == HostWalk(tree, answer, <<>>) IN
          WalkedRight(tree, answer,
                      IF r.err = "SkipDir" THEN [r EXCEPT !.err = "nil"] ELSE r)

\* "skip everything and stop the walk": after SkipAll no file is visited.
SkipAllStops(tree, answer) ==
  LET log == HostWalk(tree, answer, <<>>).log IN
  \A i \in DOMAIN log : answer[log[i]] = "SkipAll" => i = Len(log)

\* Glob returns the existing files whose elements match, each once, in
\* order; a subFS globs as the tree below its directory would.
GlobPromise(tree, pats) ==
  LET n == Len(pats)
      found == {p \in DOMAIN tree : /\ Len(p) = n
                                    /\ \A i \in 1..n : p[i] \in pats[i].set
                                    /\ \A i \in 0..(n - 1) : LET q == SubSeq(p, 1, i) IN
                                         i < n /\ pats[i + 1].meta => tree[q].kind = "dir"}
      inOrder(list) == \A i, j \in DOMAIN list : i < j => Before(list[i], list[j])
  IN  /\ ToSet(FSGlob(tree, pats)) = found /\ inOrder(FSGlob(tree, pats))
      /\ ToSet(HostGlob(tree, pats)) \cap DOMAIN tree = found
      /\ inOrder(HostGlob(tree, pats))
      /\ n > 1 /\ ~pats[1].meta =>
           LET dir == <<CHOOSE x \in pats[1].set : TRUE>> IN
           {FullName(dir, p) : p \in ToSet(SubGlob(tree, dir, Tail(pats)))} = found

\* The file a path names, links followed wherever they stand.
RECURSIVE NodeOf(_, _, _, _)
NodeOf(tree, at, elems, links) ==
  LET c == Head(elems)  q == Append(at, c) IN
  IF elems = <<>> THEN at
  ELSE IF c = "" THEN IF IsDirNode(tree, at) THEN NodeOf(tree, at, Tail(elems), links)
                      ELSE <<"error">>
  ELSE IF c = Up THEN NodeOf(tree, IF at = <<>> THEN at ELSE Parent(at), Tail(elems), links)
  ELSE IF q \notin DOMAIN tree THEN <<"error">>
  ELSE IF tree[q].kind = "link"
  THEN IF links = MaxLinks THEN <<"error">>
       ELSE NodeOf(tree, IF tree[q].abs THEN <<>> ELSE at,
                   tree[q].elems \o Tail(elems), links + 1)
  ELSE IF tree[q].kind = "file" /\ Tail(elems) # <<>> THEN <<"error">>
  ELSE NodeOf(tree, q, Tail(elems), links)

\* EvalSymlinks names the same file as the path it is given, without links on
\* the way.  A relative path that meets an absolute link is excepted.
EvalPromise(tree, cwd, path) ==
  LET r == EvalSymlinks(tree, cwd, path)
      start == IF path.abs THEN <<>> ELSE cwd
  IN  (path.abs \/ \A p \in DOMAIN tree : tree[p].kind = "link" => ~tree[p].abs)
        => IF r = Failed THEN NodeOf(tree, start, path.elems, 0) = <<"error">>
           ELSE Climb(Place(cwd, r)) = NodeOf(tree, start, path.elems, 0)
=============================================================================
