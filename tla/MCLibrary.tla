----------------------------- MODULE MCLibrary -----------------------------
(***************************************************************************)
(* The library besides channels, package sync and the host's events.       *)
(*                                                                         *)
(* Pure functions are checked against what they promise over all inputs of *)
(* a bounded size.  A behaviour picks one input, the probe [k, a]: k names *)
(* the promise, a its arguments; the step that asks must find the promise  *)
(* kept.                                                                   *)
(*                                                                         *)
(* The objects whose state lasts over a sequence of calls follow: slices,  *)
(* buffers, reflect.Values, sync.Map, pipes, and deferred calls and        *)
(* panics.  part says which of them the behaviour is about; the variables  *)
(* of the others keep their initial values.                                *)
(***************************************************************************)
EXTENDS Integers, Sequences, FiniteSets,
        Slices, SyncMap, Buffers, ReflectValues, Pipe, Defer

VARIABLE probe

Idle == [k |-> "idle", a |-> <<>>]
Ask(k, a) == probe' = [k |-> k, a |-> a]

\* The question asked, as a state sees it and as the step that asks it does.
Asked(k) == probe.k = k
Arg(i) == probe.a[i]
Answering(k) == probe'.k = k
Given(i) == probe'.a[i]

\* The sequences over S of at most n elements.
Str(S, n) == UNION {[1..m -> S] : m \in 0..n}

-----------------------------------------------------------------------------
(* Paths, files, strings: all strings over a small alphabet that has every  *)
(* character the functions treat specially.                                 *)
Pth == INSTANCE Paths WITH Names <- <<"a", "b">>
Txt == INSTANCE Text WITH Chars <- {"a", "b", "c"}

PatternChars == {"*", "?", "[", "]", "\\", "-", "^", "a"}
ProbePaths ==
  \/ \E p \in Str({"/", ".", "a"}, 6) : Ask("clean", <<p>>)
  \/ \E b, t \in Str({"/", ".", "a"}, 3) : Ask("rel", <<b, t>>)
  \/ \E p \in Str(PatternChars, 4), n \in Str({"a", "/", "b"}, 2) : Ask("match", <<p, n>>)

\* Trees of up to five places, with links that go up, away and in circles.
TreePlaces == {<<"a">>, <<"b">>, <<"a", "a">>, <<"a", "b">>}
Closed(ps) == \A p \in ps : Len(p) = 1 \/ SubSeq(p, 1, 1) \in ps
Links == {Pth!Link(TRUE, <<"a">>), Pth!Link(FALSE, <<"b">>), Pth!Link(FALSE, <<"..", "b">>)}
Trees(nodes) ==
  UNION {{t \in [ps \cup {<<>>} -> nodes] :
            /\ t[<<>>] = Pth!Directory
            /\ \A p \in ps : Len(p) = 2 => t[SubSeq(p, 1, 1)] = Pth!Directory} :
         ps \in {qs \in SUBSET TreePlaces : Closed(qs)}}
Elements == {[meta |-> FALSE, set |-> {"a"}], [meta |-> FALSE, set |-> {"b"}],
             [meta |-> TRUE, set |-> {"a", "b"}], [meta |-> TRUE, set |-> {"b"}]}
Answers == {"nil", "SkipDir", "SkipAll", "error"}
ProbeTrees ==
  \/ \E t \in Trees({Pth!Directory, Pth!File}) :
       \/ \E ans \in [DOMAIN t -> Answers] : Ask("walk", <<t, ans>>)
       \/ \E pats \in Str(Elements, 3) : pats # <<>> /\ Ask("glob", <<t, pats>>)
  \/ \E t \in Trees({Pth!Directory, Pth!File} \cup Links), e \in Str({"a", "b", ".."}, 3),
        abs \in BOOLEAN, cwd \in {<<>>, <<"a">>} :
       /\ e # <<>> /\ cwd \in DOMAIN t /\ t[cwd] = Pth!Directory
       /\ Ask("eval", <<t, cwd, [abs |-> abs, elems |-> e]>>)

\* Bytes of one-, two- and three-byte runes, of U+FFFD, and broken ones.
Bytes == {97, 195, 169, 239, 187, 191, 255}
ProbeStrings ==
  \/ \E b \in Str(Bytes, 4) : Ask("string", <<b>>) \/ Ask("rune", <<b>>)
  \/ \E b, c \in Str(Bytes, 2) : Ask("key", <<b, c>>)

AB == {"a", "b"}
Pair(old, new) == [old |-> old, new |-> new]
ProbeText ==
  \/ \E p \in Str(AB, 5), t \in Str(AB, 7) : p # <<>> /\ Ask("finder", <<p, t>>)
  \/ \E s \in Str(AB, 6), p \in Str(AB, 2), n \in -1..4 : Ask("split", <<s, p, n>>)
  \/ \E s \in Str(AB, 5), o \in Str(AB, 2), w \in Str({"a", "c"}, 2), n \in -1..3 :
       Ask("replace", <<s, o, w, n>>)
  \/ \E s \in Str(AB, 6), f \in SUBSET AB, p \in Str(AB, 2) : Ask("trim", <<s, f, p>>)
  \/ \E o1, o2 \in Str(AB, 3), o3 \in Str(AB, 2), w \in {<<"c">>, <<"c", "a">>},
        s \in {<<"a", "b", "a", "a", "b">>, <<"b", "a", "b", "b">>, <<"a", "a", "a">>, <<>>} :
       Ask("replacer",
           << <<Pair(o1, w),
                Pair(o2, IF Len(o2) = 1 THEN <<"b">> ELSE <<>>), Pair(o3, <<"a">>)>>, s>>)

\* Cleaning, matching, walking, globbing, links, conversions between bytes,
\* runes and strings, searching, splitting and replacing agree with Go.
StringsAgree == [][(
  /\ Answering("clean") => Pth!CleanPromise(Given(1))
  /\ Answering("rel") => Pth!RelPromise(Given(1), Given(2))
  /\ Answering("match") => Pth!MatchPromise(Given(1), Given(2))
  /\ Answering("walk") => Pth!WalkPromise(Given(1), Given(2))
  /\ Answering("glob") => Pth!GlobPromise(Given(1), Given(2))
  /\ Answering("eval") => Pth!EvalPromise(Given(1), Given(2), Given(3))
  /\ Answering("string") => Txt!StringPromise(Given(1))
  /\ Answering("rune") => Txt!RunePromise(Given(1))
  /\ Answering("key") => Txt!KeyPromise(Given(1), Given(2))
  /\ Answering("finder") => Txt!FinderPromise(Given(1), Given(2))
  /\ Answering("split") => Txt!SplitPromise(Given(1), Given(2), Given(3))
  /\ Answering("replace") => Txt!ReplacePromise(Given(1), Given(2), Given(3), Given(4))
  /\ Answering("trim") => Txt!TrimPromise(Given(1), Given(2), Given(3))
  /\ Answering("replacer") => Txt!ReplacerPromise(Given(1), Given(2)))]_probe

-----------------------------------------------------------------------------
(* Integers, atomics and time: words of 8 bits where JavaScript's bit       *)
(* operators have 4 and its exact integers end at 100.                      *)
Wd == INSTANCE Words WITH W <- 8, J <- 4, Safe <- 100
Years == 1967..1978
Tv == INSTANCE TimeValues WITH NS <- 4, MS <- 2, SEC <- 2, MIN <- 2, HOUR <- 4

Edges == {-256, -129, -128, -127, -100, -2, -1, 0, 1, 2, 3, 7, 15, 16, 100, 101, 127,
          128, 129, 170, 254, 255}
JsValues == [big : BOOLEAN, v : Edges]
ProbeWords ==
  \/ \E x \in JsValues, y \in {u \in JsValues : u.v \in {-128, -100, -1, 0, 1, 3, 16, 127, 255}} :
       Ask("word", <<x, y>>)
  \/ \E x \in JsValues, bits \in 1..8 : Ask("conversion", <<x, bits>>)
  \/ \E x \in 0..255, y \in {0, 1, 3, 16, 127, 128, 170, 255} : Ask("bits", <<x, y>>)

AtomicOps == {"Load", "Store", "Swap", "CompareAndSwap", "Add", "And", "Or"}
CellValues(class) ==
  IF class.bits = 4 THEN Wd!Values(class)
  ELSE IF class.signed THEN {-128, -127, -100, -1, 0, 1, 15, 16, 100, 126, 127}
  ELSE {0, 1, 15, 16, 127, 128, 170, 254, 255}
ProbeAtomics ==
  \E c \in {Wd!Int32, Wd!Uint32, Wd!Uintptr, Wd!Int64, Wd!Uint64}, op \in AtomicOps :
    \E cell, arg \in CellValues(c) : \E old \in {cell, arg, 0} :
      Ask("atomic", <<c, op, cell, arg, old>>)

\* Days around the ends of months and years; durations around every unit.
Days == {d \in 0..2200 : d % 11 = 0 \/ d % 365 \in (360..364) \cup (0..3) \cup {58, 59}}
ProbeTimes ==
  \/ \E d \in Days, at \in {0, 7, 31}, o \in {0, -3, 5} : Ask("calendar", <<d * Tv!DayMs + at, o>>)
  \/ \E n, m \in 0..14, j \in -2..3 : Ask("instant", <<n, m, j>>)
  \/ \E d \in {-128, -127, -100, -33, -9, -8, -7, -3, -1, 0, 1, 2, 3, 4, 7, 8, 31, 32, 33,
               63, 64, 65, 100, 126, 127}, u \in 0..9 : Ask("duration", <<d, u>>)

-----------------------------------------------------------------------------
(* Encodings: bytes of two bits in encoding/binary, of four in cryptobyte   *)
(* and protobuf, so that every width has a sign, a carry and an overflow.   *)
Bin == INSTANCE BinaryEncoding WITH B <- 2, G <- 2, V <- 5
Cb == INSTANCE BinaryEncoding WITH B <- 4, G <- 2, V <- 5
Pb == INSTANCE ProtoWire WITH B <- 4, V <- 8, N <- 4

Scalar(kind, width) == [tag |-> "scalar", kind |-> kind, width |-> width]
ArrayOf(t) == [tag |-> "array", elem |-> t, count |-> 2]
StructOf(fs) == [tag |-> "struct", fields |-> fs]
Extremes(w) == LET half == 2^(2 * w - 1) IN {-half, -1, 0, 1, half - 1}
Scalars == {<<Scalar("bool", 1), TRUE>>, <<Scalar("uint", 2), 11>>, <<Scalar("int", 0), 0>>}
             \cup {<<Scalar("int", w), v>> : w \in {1, 2, 4, 8}, v \in {-1, 1}}
             \cup UNION {{<<Scalar("int", w), v>> : v \in Extremes(w)} : w \in {1, 2, 4}}
Arrays == {<<ArrayOf(x[1]), <<x[2], x[2]>>>> : x \in Scalars}
Structs == {<<StructOf(<<x[1], y[1]>>), <<x[2], y[2]>>>> : x \in Scalars \cup Arrays, y \in Scalars}
Nested == {<<StructOf(<<x[1], Scalar("uint", 2)>>), <<x[2], 7>>>> : x \in Structs}
ProbeBinary ==
  \/ \E x \in Scalars \cup Arrays \cup Structs \cup Nested, order \in {"little", "big"} :
       Ask("binary", <<order, x[1], x[2]>>)
  \/ \E bytes \in Str(0..7, 4) : Ask("varint", <<bytes>>)

OfBytes(n) == [op |-> "bytes", bytes |-> [i \in 1..n |-> i]]
Leaves == {OfBytes(n) : n \in {0, 2, 7, 9}} \cup {[op |-> "uint", n |-> 2, v |-> 37], [op |-> "fail"]}
Programs == {<<>>} \cup {<<x>> : x \in Leaves} \cup {<<x, y>> : x, y \in Leaves}
              \cup {<<OfBytes(2), [op |-> "unwrite", n |-> n]>> : n \in 1..2}
Wrapped(S) == {[op |-> o, n |-> n, body |-> p] : o \in {"prefixed", "asn1"}, n \in {1, 2}, p \in S}
Twice == Wrapped({<<w>> : w \in Wrapped(Programs)} \cup {<<OfBytes(2), w>> : w \in Wrapped(Programs)})
ProbeBuilders ==
  \/ \E w \in Twice, x \in Leaves : Ask("builder", << <<x, w>> >>) \/ Ask("builder", << <<w, x>> >>)
  \/ \E v \in -300..600, b \in {<<>>, <<1, 2>>} : Ask("asn1", <<v, b>>)

Datum(n, kind, x) == [num |-> n, kind |-> kind, x |-> x]
Listed(n, kind, elem, v) == [num |-> n, kind |-> kind, v |-> v, elem |-> elem]
WireFields(n) ==
  {Datum(n, "varint", v) : v \in {0, 1, 7, 8, 63, 64, 255}}
    \cup {Datum(n, "int32", v) : v \in {-8, -1, 7}}
    \cup {Datum(n, "sint32", v) : v \in {-8, -4, -1, 3, 7}}
    \cup {Datum(n, "sint64", v) : v \in {-128, -1, 64, 127}}
    \cup {Datum(n, "bool", 1), Datum(n, "fixed32", 9), Datum(n, "fixed64", 200)}
    \cup {Listed(n, "bytes", "", [i \in 1..m |-> 15]) : m \in {0, 1, 7, 8}}
    \cup {Listed(n, kind, e, v) : kind \in {"packed", "slice"}, e \in {"varint", "sint64"},
                                  v \in {<<>>, <<1>>, <<100, 3>>, <<0, 127, 8>>}}
    \cup {Listed(n, kind, "sint32", v) : kind \in {"packed", "slice"}, v \in {<<-8>>, <<7, -1>>}}
    \cup {Listed(n, "slice", "fixed32", <<3, 4>>)}

NilValue == [t |-> "nil"]
Plain == {NilValue, [t |-> "scalar", x |-> 0], [t |-> "scalar", x |-> 1]}
Comparable ==
  {Plain,
   {NilValue, [t |-> "slice", v |-> <<>>]} \cup {[t |-> "slice", v |-> <<x>>] : x \in Plain}
     \cup {[t |-> "slice", v |-> <<x, y>>] : x, y \in Plain},
   {NilValue, [t |-> "map", v |-> <<>>]} \cup {[t |-> "map", v |-> [n \in {2} |-> x]] : x \in Plain}
     \cup {[t |-> "map", v |-> [n \in {2, 3} |-> IF n = 2 THEN x ELSE y]] : x, y \in Plain}}

\* A message with a oneof inside a message with a oneof.
Unset == Pb!NoValue
MessageField(n, kind, repeated, oneof, T) ==
  [name |-> n, kind |-> kind, repeated |-> repeated, oneof |-> oneof, T |-> T]
Inner == <<MessageField("x", "scalar", FALSE, "", <<>>),
           MessageField("p", "scalar", FALSE, "g", <<>>), MessageField("q", "scalar", FALSE, "g", <<>>)>>
Outer == <<MessageField("s", "scalar", TRUE, "", <<>>), MessageField("m", "message", FALSE, "", Inner),
           MessageField("l", "message", TRUE, "", Inner),
           MessageField("y", "message", FALSE, "h", Inner), MessageField("z", "scalar", FALSE, "h", <<>>)>>
Sc(n) == [s |-> n]
Items(q) == [items |-> q]
Branch(b, v) == [branch |-> b, v |-> v]
Inners == [x : {Unset, Sc(1)}, g : {Unset} \cup {Branch(b, v) : b \in {"p", "q"}, v \in {Sc(1), Sc(2)}}]
Outers == [s : {Unset, Items(<<>>), Items(<<Sc(1), Sc(2)>>)}, m : {Unset} \cup Inners,
           l : {Unset, Items(<<>>)} \cup {Items(<<i>>) : i \in Inners},
           h : {Unset, Branch("z", Sc(1)), Branch("z", Unset)} \cup {Branch("y", i) : i \in Inners}]
ProbeMessages ==
  \/ \E x \in WireFields(1) : Ask("wire", << <<x>> >>) \/ \E y \in WireFields(9) : Ask("wire", << <<x, y>> >>)
  \/ \E b \in Str(0..15, 3) : Ask("anybytes", <<b>>)
  \/ \E S \in Comparable : \E x, y, z \in S : Ask("equal", <<x, y, z>>)
  \/ \E v \in Outers : Ask("bound", <<v>>)

\* 64-bit arithmetic, conversions, bit counts, carry chains, atomics, dates
\* and durations compute in Go's widths; what is encoded is decoded again, in
\* the room and with the bytes promised, and no input makes a decoder read past
\* its end.
NumbersAgree == [][(
  /\ Answering("word") => Wd!WordPromise(Given(1), Given(2))
  /\ Answering("conversion") => Wd!ConversionPromise(Given(1), Given(2))
  /\ Answering("bits") => Wd!BitsPromise(Given(1), Given(2))
  /\ Answering("atomic") => Wd!AtomicPromise(Given(1), Given(2), Given(3), Given(4), Given(5))
  /\ Answering("calendar") => Tv!CalendarPromise(Given(1), Given(2))
  /\ Answering("instant") => Tv!InstantPromise(Given(1), Given(2), Given(3))
  /\ Answering("duration") => Tv!DurationPromise(Given(1), Given(2))
  /\ Answering("binary") => Bin!BinaryPromise(Given(1), Given(2), Given(3))
  /\ Answering("varint") => Bin!VarintPromise(Given(1))
  /\ Answering("builder") => Cb!BuilderPromise(Given(1))
  /\ Answering("asn1") => Cb!ASN1Promise(Given(1), Given(2))
  /\ Answering("wire") => Pb!WirePromise(Given(1))
  /\ Answering("anybytes") => Pb!AnyBytesPromise(Given(1))
  /\ Answering("equal") => Pb!EqualPromise(Given(1), Given(2), Given(3))
  /\ Answering("bound") => Pb!BoundPromise(Given(1), Outer))]_probe

-----------------------------------------------------------------------------
(* Readers and writers of package io, and HTTP messages.                    *)
Io == INSTANCE Streams
Msg == INSTANCE HTTPMessages

\* Every way to cut up to three bytes into reads.
Cuts(base) == {<<>>} \cup {<< <<base>> >>, << <<base, base + 1>> >>, << <<base>>, <<base + 1>> >>,
                << <<base, base + 1, base + 2>> >>, << <<base>>, <<base + 1, base + 2>> >>,
                << <<base, base + 1>>, <<base + 2>> >>, << <<base>>, <<base + 1>>, <<base + 2>> >>}
Sources(base, ends) == {Io!Source(c, e, eager) : c \in Cuts(base), e \in ends, eager \in BOOLEAN}
ProbeStreams ==
  \/ \E src \in Sources(1, {"EOF", "err"}), room \in 0..4, quiet \in BOOLEAN, size \in 1..4 :
       \/ \E n \in 0..4 : Ask("copy", <<src, Io!Sink(room, quiet), size, n>>)
       \/ Ask("tee", <<src, Io!Sink(room, quiet), size>>)
  \/ \E d, off, n \in 0..4, size, j \in 0..5 :
       size > 0 /\ Ask("section", <<[i \in 1..d |-> i], off, n, size, j>>)
  \/ \E x \in Sources(1, {"EOF"}), y \in Sources(11, {"EOF"}), size \in 1..4 :
       Ask("multi", <<x, y, size>>)

Unit(t, n) == [t |-> t, bytes |-> n]
BodyChunks == Str({Unit("text", 1), Unit("crlf", 2)}, 3) \ {<<>>}
HeaderLines ==
  {[t |-> "field", key |-> [name |-> n, spelling |-> sp], v |-> v] :
     n \in {"x", "y"}, sp \in {"canonical", "other"}, v \in {<<"1">>, <<"2">>}}
    \cup {[t |-> "continuation", v |-> <<"c">>], [t |-> "bad"]}
Cookies == [Value : Str({"a", "quote", "backslash", "semicolon"}, 2), Quoted : BOOLEAN,
            Path : {<<>>, <<"p">>}, MaxAge : {-5, 0, 7}, HttpOnly : BOOLEAN, Secure : BOOLEAN,
            SameSite : 0..4]
Served == [p \in {<<>>, <<"a">>, <<"a", "b">>, <<"b">>} |->
             CASE p = <<"a", "b">> -> "file" [] p = <<"b">> -> "broken" [] OTHER -> "dir"]
ProbeHTTP ==
  \/ \E cs \in Str(BodyChunks, 2) : Ask("body", <<cs>>)
  \/ \E ls \in Str(HeaderLines, 3) : Ask("head", <<ls>>)
  \/ \E n \in 0..5, limit \in 0..6, want \in 1..7, eager \in BOOLEAN :
       Ask("limit", <<[i \in 1..n |-> i], limit, want, eager>>)
  \/ \E n \in 0..4, from, to \in -1..5 : Ask("range", <<[i \in 1..n |-> i + 10], from, to>>)
  \/ \E c \in Cookies : Ask("cookie", <<c>>)
  \/ \E prefix \in Str({"a"}, 2), ps \in Str({"a", "b", "..", ".", ""}, 4) : Ask("servedpath", <<prefix, ps>>)

\* However reads are cut and writers fail, no byte is lost, repeated or
\* counted wrongly; HTTP heads, bodies, ranges, cookies and file paths come
\* out as written.
StreamsAgree == [][(
  /\ Answering("copy") => Io!CopyPromise(Given(1), Given(2), Given(3), Given(4))
  /\ Answering("tee") => Io!TeePromise(Given(1), Given(2), Given(3))
  /\ Answering("section") => Io!SectionPromise(Given(1), Given(2), Given(3), Given(4), Given(5))
  /\ Answering("multi") => Io!PlainMultiPromise(Given(1), Given(2), Given(3))
  /\ Answering("body") => Msg!BodyPromise(Given(1))
  /\ Answering("head") => Msg!HeadPromise(Given(1))
  /\ Answering("limit") => Msg!LimitPromise(Given(1), Given(2), Given(3), Given(4))
  /\ Answering("range") => Msg!RangePromise(Given(1), Given(2), Given(3))
  /\ Answering("cookie") => Msg!CookiePromise(Given(1))
  /\ Answering("servedpath") => Msg!PathPromise(Given(1), Given(2), Served))]_probe

-----------------------------------------------------------------------------
(* Types: descriptors, assertions and reflection, over a universe of basic, *)
(* declared and composite types.                                            *)
Ty == INSTANCE Types WITH Declarations <- <<>>
Basic(n) == Ty!Basic(n)
Named(n) == Ty!Named(n)
MethodM == Ty!Method("M", <<>>, <<Basic("int")>>)
MethodN == Ty!Method("N", <<Basic("int")>>, <<>>)
Declare(name, under, methods) == [name |-> name, under |-> under, methods |-> methods]
Declarations ==
  <<Declare("S", Ty!Struct(<<Ty!Field("x", Basic("int"))>>), <<MethodM, MethodN>>),
    Declare("R", Ty!Struct(<<Ty!Field("x", Ty!Pointer(Named("R")))>>), <<>>),
    Declare("L", Ty!Slice(Basic("int")), <<>>),
    Declare("K", Ty!Slice(Basic("int")), <<MethodM>>),
    Declare("C", Basic("float64"), <<>>),
    Declare("E", Basic("int"), <<MethodM, MethodN>>),
    Declare("F", Ty!Function(<<Named("F")>>, <<>>), <<MethodN>>),
    Declare("I", Ty!Interface(<<MethodM>>), <<>>),
    Declare("J", Ty!Interface(<<MethodM, MethodN>>), <<>>)>>
RT == INSTANCE Types

Base == {Basic(n) : n \in {"int", "int8", "int16", "int64", "float64", "string", "bool"}}
          \cup {Named(n) : n \in {"S", "R", "L", "K", "C", "E", "F"}}
SmallStructs == {Ty!Struct(<<>>), Ty!Struct(<<Ty!Field("x", Basic("int"))>>),
                 Ty!Struct(<<Ty!Field("x", Basic("string"))>>)}
PairStructs == {Ty!Struct(<<Ty!Field("x", t), Ty!Field("y", u)>>) :
                  t, u \in {Basic("int"), Basic("int8"), Named("S"), Ty!Array(3, Basic("int16"))}}
Composite ==
  {Ty!Pointer(t) : t \in Base} \cup {Ty!Slice(t) : t \in {Basic("int"), Basic("string"), Named("S"), Named("E")}}
    \cup {Ty!Array(1, Basic("int")), Ty!Array(2, Basic("int")), Ty!Slice(Ty!Slice(Basic("int"))),
          Ty!Pointer(Ty!Slice(Basic("int")))}
    \cup {Ty!Map(t, u) : t \in {Basic("string"), Basic("int"), Basic("bool")}, u \in {Basic("int"), Named("S")}}
    \cup {Ty!Channel(d, t) : d \in {"both", "send"}, t \in {Basic("int"), Basic("string")}}
    \cup {Ty!Function(<<>>, <<>>), Ty!Function(<<Basic("int")>>, <<>>),
          Ty!Function(<<Ty!Slice(Basic("int"))>>, <<>>),
          [Ty!Function(<<Ty!Slice(Basic("int"))>>, <<>>) EXCEPT !.variadic = TRUE]}
Interfaces == {Named("I"), Named("J"), Ty!Interface(<<>>), Ty!Interface(<<MethodM>>),
               Ty!Interface(<<MethodM, MethodN>>)}
ConcreteTypes == Base \cup SmallStructs \cup Composite
AllTypes == ConcreteTypes \cup Interfaces
ProbeTypes ==
  \/ \E t \in ConcreteTypes, u \in AllTypes :
       Ask("identity", <<t, u>>) \/ \E isNil \in {FALSE, RT!Nilable(t)} : Ask("assert", <<t, isNil, u>>)
  \/ \E t \in AllTypes \cup PairStructs :
       Ask("type", <<t>>) \/ \E u \in AllTypes : Ask("identical", <<t, u>>)

\* Fields promoted through two levels of embedding, and calls of functions
\* built at run time.
Sof(fs) == [RT!Object("struct") EXCEPT !.fields = fs]
IntField(n) == RT!ObjectField(n, RT!BasicTypeFromName("int", ""), FALSE, 0)
Embedding(n, S) == {RT!ObjectField(n, t, TRUE, 0) : t \in S}
EmbeddedLeaves == {Sof(<<IntField("x")>>), Sof(<<IntField("y")>>), Sof(<<IntField("x"), IntField("y")>>)}
TwoFields(S) == {Sof(<<f, g>>) : f \in Embedding("A", S) \cup {IntField("x")},
                                 g \in Embedding("B", S) \cup {IntField("y")}}
ParamTypes == {Basic("int"), Basic("string"), Ty!Slice(Basic("int"))}
ProbeFields ==
  \/ \E t \in TwoFields(TwoFields(EmbeddedLeaves) \cup EmbeddedLeaves), n \in {"x", "y", "A", "B"} :
       Ask("field", <<t, n>>)
  \/ \E names \in {<<"X", "Y">>, <<"X", "X">>}, params \in Str(ParamTypes, 2), variadic \in BOOLEAN,
        args \in Str({Basic("int"), Basic("string"), Ty!Slice(Basic("int"))}, 3) :
       Ask("built", <<names, params, variadic, args>>)

\* Two objects or arrays that may share parts, for reflect.DeepEqual.
Leaf == {RT!Num(0), RT!Num(1), RT!NullValue, RT!Ref(1), RT!Ref(2), RT!Ref(3)}
HeapObjects ==
  {RT!HeapObject("array", "a", <<>>, e) :
     e \in {<<>>} \cup {<<x>> : x \in Leaf} \cup {<<x, RT!Num(0)>> : x \in Leaf}}
    \cup {RT!HeapObject("object", t, <<"f">>, <<x>>) : x \in Leaf, t \in {"S", "T"}}
    \cup {RT!HeapObject("map", "m", ks, [i \in DOMAIN ks |-> RT!Num(i)]) :
            ks \in {<<>>, <<"k">>, <<"j">>, <<"j", "k">>, <<"k", "j">>}}
ProbeDeepEqual == \E x, y, z \in HeapObjects : Ask("deepequal", << <<x, y, z>> >>)

-----------------------------------------------------------------------------
(* Sorting and editing collections, errors, the testing package, positions. *)
Col == INSTANCE Collections WITH Small <- 2
Err == INSTANCE Errors
Tst == INSTANCE Testing
Pos == INSTANCE Positions

\* Slices of elements that compare by key and are told apart by id.
Keyed(n) == UNION {{[i \in 1..m |-> [key |-> f[i], id |-> i]] : f \in [1..m -> 1..3]} : m \in 0..n}
SmallMaps == UNION {[K -> {1, 2}] : K \in SUBSET {"a", "b"}}
ProbeCollections ==
  \/ \E s \in Keyed(5), x \in 0..4 : Ask("sort", <<s, <<>>, x>>)
  \/ \E s \in Keyed(4), t \in Keyed(2) : t # <<>> /\ Ask("sort", <<s, t, 2>>)
  \/ \E s \in Keyed(3), v \in Keyed(1), del \in SUBSET (1..3) :
       \E i \in 0..Len(s) : \E j \in i..Len(s) : Ask("edit", <<s, i, j, v, del>>)
  \/ \E n \in 0..3, y \in [1..3 -> [go : BOOLEAN, later : BOOLEAN]], m1, m2 \in SmallMaps :
       Ask("loops", <<n, y, m1, m2>>)

\* Error trees three deep: wrapped, joined, and of types with methods.
NewError(n) == Err!New(n)
ErrorLeaves == {NewError(1), NewError(2), Err!Fundamental(3), Err!Custom(4, {1}, {}, <<>>),
                Err!Custom(5, {}, {"new"}, <<>>)}
Targets == ErrorLeaves \cup {Err!NilErr}
Errors2 == Targets \cup {Err!Wrap(e, 10) : e \in ErrorLeaves} \cup {Err!PkgWrap(e, 12) : e \in ErrorLeaves}
             \cup {Err!Join(<<e, f>>, 14) : e, f \in Targets} \cup {Err!Custom(16, {2}, {}, <<e>>) : e \in Targets}
Errors3 == Errors2 \cup {Err!Wrap(e, 20) : e \in Errors2} \cup {Err!WithStack(e, 22) : e \in Errors2}
             \cup {Err!Join(<<f, e>>, 24) : e \in Errors2, f \in {NewError(1), Err!Custom(4, {1}, {}, <<>>)}}
ProbeErrors ==
  \E e \in Errors3, t \in Targets, f \in {Err!NilErr, NewError(1)},
     kind \in {"new", "join", "fundamental", "custom"} : Ask("error", <<e, f, t, kind>>)

\* Tests that fail, skip, throw, clean up, set the environment and run others.
Steps == {Tst!Op(o) : o \in {"fail", "fatal", "skip", "throw", "exit"}}
           \cup {Tst!Cleanup(w) : w \in {"ok", "fail", "throw", "fatal", "skip"}}
           \cup {Tst!SetHost(h) : h \in {"env", "cwd"}}
StepsOrSub == Steps \cup {Tst!Run(r, p) : r \in {"run", "bench"}, p \in Str(Steps, 2)}
Tests == Str(Steps, 2)
  \cup {<<x, y>> : x \in StepsOrSub, y \in {Tst!Op("fail"), Tst!Op("skip"), Tst!SetHost("env"), Tst!Cleanup("ok")}}
  \cup {<<Tst!SetHost("env"), x, y>> : x \in StepsOrSub,
         y \in {Tst!SetHost("env"),
                Tst!Run("run", <<Tst!SetHost("env"), Tst!Run("run", <<Tst!Op("fail")>>)>>)}}
ProbeSuites ==
  \E p \in Tests, q \in {<<>>, <<Tst!Op("fail")>>, <<Tst!SetHost("env")>>}, n \in 1..2 :
    Ask("suite", <<<<p, q>>, n>>)

ProbePositions ==
  \/ \E n \in 1..5 : \E content \in [1..n -> {"x", "\n"}], base \in {1, 4}, at \in 0..3, line \in {1, 7} :
       Ask("position", <<content, base, at, line>>)
  \/ \E n \in 1..3 : \E sizes \in [1..n -> -1..2], bases \in [1..n -> {-1, 1, 3, 6}], gone \in 0..3 :
       Ask("fileset", <<sizes, bases, gone>>)

\* Descriptors, assertions, type objects, promoted fields, calls and DeepEqual
\* answer what Go's rules of identity, assignability and layout say; sorting is
\* a stable permutation, edits move what they should, errors are found in trees
\* of them, tests are reported as they ended and undo what they set, positions
\* name the file and line.
ValuesAgree == [][(
  /\ Answering("identity") => RT!IdentityPromise(Given(1), Given(2))
  /\ Answering("assert") => RT!AssertPromise(Given(1), Given(2), Given(3))
  /\ Answering("type") => RT!TypePromise(Given(1))
  /\ Answering("identical") => RT!IdenticalPromise(Given(1), Given(2))
  /\ Answering("field") => RT!FieldPromise(Given(1), Given(2))
  /\ Answering("built") => RT!BuiltPromise(Given(1), Given(2), Given(3), Given(4))
  /\ Answering("deepequal") => RT!DeepEqualPromise(Given(1), RT!Ref(1), RT!Ref(2))
  /\ Answering("sort") => Col!SortPromise(Given(1), Given(2), Given(3))
  /\ Answering("edit") => Col!EditPromise(Given(1), Given(2), Given(3), Given(4), Given(5))
  /\ Answering("loops") => Col!WalkPromise(Given(1), Given(2), Given(3), Given(4))
  /\ Answering("error") => Err!ErrorPromise(Given(1), Given(2), Given(3), Given(4))
  /\ Answering("suite") => Tst!SuitePromise(Given(1), Given(2), [env |-> 0, cwd |-> 0])
  /\ Answering("position") => Pos!PositionPromise(Given(1), Given(2), Given(3), Given(4))
  /\ Answering("fileset") => Pos!FileSetPromise(Given(1), Given(2), Given(3)))]_probe

-----------------------------------------------------------------------------
(* The objects. *)

CONSTANT Sections

VARIABLE part

objectVars == <<sliceVars, bufferVars, reflectVars, mapVars, pipeVars, deferVars>>
libraryVars == <<part, probe, objectVars>>

-----------------------------------------------------------------------------
LibraryInit ==
  /\ part \in Sections
  /\ probe = Idle
  /\ SliceInit /\ BufferInit /\ ReflectInit /\ SyncMapInit /\ PipeInit /\ DeferInit

ProbeStep ==
  /\ probe = Idle /\ UNCHANGED <<part, objectVars>>
  /\ \/ part = "paths" /\ ProbePaths
     \/ part = "trees" /\ ProbeTrees
     \/ part = "strings" /\ ProbeStrings
     \/ part = "text" /\ ProbeText
     \/ part = "words" /\ ProbeWords
     \/ part = "atomics" /\ ProbeAtomics
     \/ part = "times" /\ ProbeTimes
     \/ part = "binary" /\ ProbeBinary
     \/ part = "builders" /\ ProbeBuilders
     \/ part = "messages" /\ ProbeMessages
     \/ part = "streams" /\ ProbeStreams
     \/ part = "http" /\ ProbeHTTP
     \/ part = "types" /\ ProbeTypes
     \/ part = "fields" /\ ProbeFields
     \/ part = "deepequal" /\ ProbeDeepEqual
     \/ part = "collections" /\ ProbeCollections
     \/ part = "errors" /\ ProbeErrors
     \/ part = "suites" /\ ProbeSuites
     \/ part = "positions" /\ ProbePositions

SliceStep == part = "slices" /\ SliceNext
             /\ UNCHANGED <<part, probe, bufferVars, reflectVars, mapVars, pipeVars, deferVars>>
BufferStep == part = "buffers" /\ BufferNext
              /\ UNCHANGED <<part, probe, sliceVars, reflectVars, mapVars, pipeVars, deferVars>>
ReflectStep == part = "reflect" /\ ReflectNext
               /\ UNCHANGED <<part, probe, sliceVars, bufferVars, mapVars, pipeVars, deferVars>>
MapStep == part = "syncmap" /\ SyncMapNext
           /\ UNCHANGED <<part, probe, sliceVars, bufferVars, reflectVars, pipeVars, deferVars>>
PipeStep == part = "pipe" /\ PipeNext
            /\ UNCHANGED <<part, probe, sliceVars, bufferVars, reflectVars, mapVars, deferVars>>
DeferStep == part = "defer" /\ DeferNext
             /\ UNCHANGED <<part, probe, sliceVars, bufferVars, reflectVars, mapVars, pipeVars>>

LibraryNext == ProbeStep \/ SliceStep \/ BufferStep \/ ReflectStep \/ MapStep \/ PipeStep \/ DeferStep

LibrarySpec == LibraryInit /\ [][LibraryNext]_libraryVars

\* No definition names a goroutine.
Goroutines == Permutations(G)
=============================================================================
