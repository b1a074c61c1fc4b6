----------------------------- MODULE Positions ------------------------------
(***************************************************************************)
(* Package go/token (go/token/index.ts): source positions.  A File has a   *)
(* base, a size, the offsets of its lines and the //line directives        *)
(* (infos); a FileSet places files one after the other, so that a position *)
(* is one number.  Tokens and their tables are left out.                   *)
(***************************************************************************)
EXTENDS Integers, Sequences, FiniteSets, SequencesExt

NewFile(name, base, size) ==
  [name |-> name, base |-> base, size |-> size, lines |-> <<0>>, infos |-> <<>>]
NoFile == [name |-> "", base |-> -1, size |-> -1, lines |-> <<>>, infos |-> <<>>]
EndOf(f) == f.base + f.size

\* searchInts and searchLineInfos: the last place whose value is at most the
\* offset, counted from 1; 0 when there is none.
RECURSIVE SearchLast(_, _, _, _)
SearchLast(values, offset, low, high) ==
  IF low >= high THEN low
  ELSE LET mid == (low + high) \div 2 IN
       IF values[mid + 1] > offset THEN SearchLast(values, offset, low, mid)
       ELSE SearchLast(values, offset, mid + 1, high)
SearchInts(values, offset) == SearchLast(values, offset, 0, Len(values))

FixOffset(f, offset) == IF offset < 0 THEN 0 ELSE IF offset > f.size THEN f.size ELSE offset

AddLine(f, offset) ==
  IF (f.lines = <<>> \/ Last(f.lines) < offset) /\ offset < f.size
  THEN [f EXCEPT !.lines = Append(@, offset)] ELSE f
CanMerge(f, line) == line \in 1..(Len(f.lines) - 1)
MergeLine(f, line) == [f EXCEPT !.lines = RemoveAt(@, line + 1)]
AcceptsLines(f, lines) ==
  \A i \in DOMAIN lines : (i > 1 => lines[i] > lines[i - 1]) /\ lines[i] < f.size
SetLines(f, lines) == IF AcceptsLines(f, lines) THEN [f EXCEPT !.lines = lines] ELSE f
\* A line starts at 0 and after every newline that is not the last byte.
SetLinesForContent(f, content) ==
  LET step(st, i) ==
        [lines |-> IF st.line >= 0 THEN Append(st.lines, st.line) ELSE st.lines,
         line |-> IF content[i] = "\n" THEN i ELSE -1]
  IN  [f EXCEPT !.lines =
         FoldLeft(step, [lines |-> <<>>, line |-> 0], [i \in DOMAIN content |-> i]).lines]
LineStart(f, line) == f.base + f.lines[line]
AddLineColumnInfo(f, offset, name, line, column) ==
  IF (f.infos = <<>> \/ Last(f.infos).offset < offset) /\ offset < f.size
  THEN [f EXCEPT !.infos =
          Append(@, [offset |-> offset, name |-> name, line |-> line, column |-> column])]
  ELSE f

Pos(f, offset) == f.base + FixOffset(f, offset)
Offset(f, pos) == FixOffset(f, pos - f.base)

\* Mutant: the directive's line is not moved on by the lines after it.
PositionFrozen(f, pos, adjusted) ==
  LET offset == Offset(f, pos)
      li == SearchInts(f.lines, offset)
      ii == SearchInts([i \in DOMAIN f.infos |-> f.infos[i].offset], offset)
  IN  IF adjusted /\ ii > 0
      THEN [name |-> f.infos[ii].name, line |-> f.infos[ii].line, column |-> 1]
      ELSE [name |-> f.name, line |-> li,
            column |-> IF li = 0 THEN 0 ELSE offset - f.lines[li] + 1]
Position(f, pos, adjusted) ==
  LET offset == Offset(f, pos)
      li == SearchInts(f.lines, offset)
      column == IF li = 0 THEN 0 ELSE offset - f.lines[li] + 1
      ii == SearchInts([i \in DOMAIN f.infos |-> f.infos[i].offset], offset)
      info == f.infos[ii]
      bi == SearchInts(f.lines, info.offset)
      delta == li - bi
  IN  IF ~adjusted \/ ii = 0
      THEN [name |-> f.name, line |-> li, column |-> column]
      ELSE IF bi = 0 THEN [name |-> info.name, line |-> li, column |-> column]
      ELSE [name |-> info.name, line |-> info.line + delta,
            column |-> IF info.column = 0 THEN 0
                       ELSE IF delta = 0 THEN info.column + (offset - info.offset)
                       ELSE column]

-----------------------------------------------------------------------------
(* File sets.  A refused call (a panic) leaves the set as it was. *)

NewFileSet == [base |-> 1, files |-> <<>>]
ByBase(files) == SortSeq(files, LAMBDA f, g : f.base < g.base)
AddFileTight(s, name, base, size) ==
  LET at == IF base < 0 THEN s.base ELSE base IN
  IF at < s.base \/ size < 0 THEN s
  ELSE [base |-> at + size, files |-> ByBase(Append(s.files, NewFile(name, at, size)))]
AddFile(s, name, base, size) ==
  LET at == IF base < 0 THEN s.base ELSE base IN
  IF at < s.base \/ size < 0 THEN s
  ELSE [base |-> at + size + 1, files |-> ByBase(Append(s.files, NewFile(name, at, size)))]
\* Mutant: the next file starts where the last one ends.
AddExistingFile(s, f) ==
  IF f = NoFile \/ Contains(s.files, f) THEN s
  ELSE [base |-> IF EndOf(f) + 1 > s.base THEN EndOf(f) + 1 ELSE s.base,
        files |-> ByBase(Append(s.files, f))]
RemoveFile(s, f) == [s EXCEPT !.files = SelectSeq(@, LAMBDA g : g # f)]
FileAt(s, pos) ==
  LET at == {i \in DOMAIN s.files : s.files[i].base <= pos /\ pos <= EndOf(s.files[i])}
  IN  IF pos = 0 \/ at = {} THEN NoFile
      ELSE s.files[CHOOSE i \in at : \A j \in at : i <= j]

-----------------------------------------------------------------------------
(* Promises. *)

Newlines(content, offset) == Cardinality({i \in DOMAIN content : content[i] = "\n" /\ i <= offset})
NoTrailing(content) == content # <<>> /\ Last(content) # "\n"

\* A position's line is one more than the newlines before it and its column
\* counts from the last of them, also when the scanner adds the lines one by
\* one; a //line directive moves all that follow it by the same amount.
PositionPromise(content, base, at, line) ==
  LET f == SetLinesForContent(NewFile("f", base, Len(content)), content)
      g == FoldLeft(LAMBDA acc, i : IF content[i] = "\n" THEN AddLine(acc, i) ELSE acc,
                    NewFile("f", base, Len(content)), [i \in DOMAIN content |-> i])
      h == AddLineColumnInfo(f, at, "g", line, 1)
      plain(o) == Position(f, Pos(f, o), FALSE)
  IN
  NoTrailing(content) =>
    /\ f.lines = g.lines /\ SetLines(g, f.lines) = f
    /\ \A o \in 0..Len(content) :
         /\ Offset(f, Pos(f, o)) = o
         /\ plain(o).line = 1 + Newlines(content, o)
         /\ LineStart(f, plain(o).line) + plain(o).column - 1 = Pos(f, o)
         /\ Position(h, Pos(h, o), FALSE) = plain(o)
         /\ at < Len(content) =>
              LET p == Position(h, Pos(h, o), TRUE) IN
              IF o < at THEN p = plain(o)
              ELSE p.name = "g" /\ p.line - line = plain(o).line - plain(at).line
    /\ \A l \in 1..Len(f.lines) :
         CanMerge(f, l) => AcceptsLines(f, MergeLine(f, l).lines)

\* Files of a set never share a position, whatever was added or removed, so a
\* position leads to the file it was made from.
FileSetPromise(sizes, bases, gone) ==
  LET s == FoldLeft(LAMBDA acc, i : AddFile(acc, "f", bases[i], sizes[i]),
                    NewFileSet, [i \in DOMAIN sizes |-> i])
      r == IF gone \in DOMAIN s.files THEN RemoveFile(s, s.files[gone]) ELSE s
      back == IF gone \in DOMAIN s.files THEN AddExistingFile(r, s.files[gone]) ELSE s
  IN
  /\ \A i \in DOMAIN s.files : \A o \in 0..s.files[i].size :
       FileAt(s, Pos(s.files[i], o)) = s.files[i]
  /\ \A i \in DOMAIN r.files : FileAt(r, r.files[i].base) = r.files[i]
  /\ gone \in DOMAIN s.files => FileAt(r, s.files[gone].base) = NoFile
  /\ back = s
=============================================================================
