--------------------------- MODULE BinaryEncoding ---------------------------
(***************************************************************************)
(* Packages encoding/binary and cryptobyte.                                *)
(*                                                                         *)
(* encoding/binary: byte orders, varints and the fixed-size                *)
(* encoding of nested values.  Bytes, words and varint groups keep their   *)
(* proportions at a smaller size: a byte has B bits, JavaScript's bit      *)
(* operators work on J = 4 * B bits, a varint byte carries G of the V bits *)
(* of its value.                                                           *)
(*                                                                         *)
(* cryptobyte: the Builder, whose nested continuations share one result    *)
(* array and patch their length prefixes in afterwards, and the String     *)
(* that reads it back.  The limits of ASN.1 (short lengths, high tags,     *)
(* padding) keep their place in a byte.                                    *)
(***************************************************************************)
EXTENDS Integers, Sequences, SequencesExt, FiniteSets

CONSTANTS B, G, V

J == 4 * B
Byte == 0..(2^B - 1)
AsInt(n, v) == LET u == v % 2^n IN IF u >= 2^(n - 1) THEN u - 2^n ELSE u
NoValue == "null"

-----------------------------------------------------------------------------
\* Byte orders: the unsigned word in width bytes.
LittleUint(b) == LET n == Len(b) IN FoldLeft(LAMBDA acc, i : acc + b[i] * 2^(B * (i - 1)), 0, [i \in 1..n |-> i])
BigUint(b)    == FoldLeft(LAMBDA acc, x : acc * 2^B + x, 0, b)
PutLittle(width, v) == [i \in 1..width |-> (v \div 2^(B * (i - 1))) % 2^B]
PutBig(width, v)    == [i \in 1..width |-> (v \div 2^(B * (width - i))) % 2^B]
UintIn(order, b) == IF order = "little" THEN LittleUint(b) ELSE BigUint(b)
PutIn(order, width, v) == IF order = "little" THEN PutLittle(width, v) ELSE PutBig(width, v)

\* intN: the sign bit and the modulus are computed with JavaScript's shifts,
\* whose count wraps at J bits and whose results are signed.
JShl1(k) == AsInt(J, 2^(k % J))
IntNUnsigned(v, bits) == v % 2^bits
IntN(v, bits) ==
    LET normalized == IF bits = J THEN AsInt(J, v) ELSE v % 2^bits
        negative   == (v \div 2^(bits - 1)) % 2 = 1
    IN IF negative THEN normalized - JShl1(bits) ELSE normalized

-----------------------------------------------------------------------------
\* Shapes: [tag, kind, width], [tag, elem, count] or [tag, fields].
Unsupported == [tag |-> "none"]
RECURSIVE ShapeFromType(_)
\* A type with one part of variable size (a string, a slice, a platform int:
\* width 0) has no shape at all.
ShapeFromType(t) ==
    CASE t.tag = "scalar"  -> IF t.width = 0 THEN Unsupported ELSE t
      [] t.tag = "pointer" -> ShapeFromType(t.elem)
      [] t.tag = "array"   -> IF ShapeFromType(t.elem) = Unsupported THEN Unsupported
                              ELSE [t EXCEPT !.elem = ShapeFromType(@)]
      [] t.tag = "struct"  -> LET fs == [k \in DOMAIN t.fields |-> ShapeFromType(t.fields[k])]
                              IN IF \E k \in DOMAIN fs : fs[k] = Unsupported THEN Unsupported
                                 ELSE [t EXCEPT !.fields = fs]
RECURSIVE ShapeSize(_)
ShapeSize(s) ==
    CASE s.tag = "scalar" -> s.width
      [] s.tag = "array"  -> ShapeSize(s.elem) * s.count
      [] s.tag = "struct" -> FoldLeft(LAMBDA acc, f : acc + ShapeSize(f), 0, s.fields)

EncodeScalar(order, s, v) ==
    IF s.kind = "bool" THEN <<IF v THEN 1 ELSE 0>> ELSE PutIn(order, s.width, v % 2^(B * s.width))
\* int64 and words of one byte are narrowed exactly; int16 and int32 go through intN.
DecodeScalar(order, s, b) ==
    CASE s.kind = "bool" -> b[1] # 0
      [] s.kind = "uint" -> UintIn(order, b)
      [] s.kind = "int"  -> IF s.width = 8 THEN AsInt(8 * B, UintIn(order, b))
                            ELSE IntN(UintIn(order, b), B * s.width)

Part(b, from, width) == SubSeq(b, from + 1, from + width)
Offset(fields, k) == FoldLeft(LAMBDA acc, f : acc + ShapeSize(f), 0, SubSeq(fields, 1, k - 1))

RECURSIVE ShapeEncode(_, _, _)
ShapeEncode(order, s, v) ==
    CASE s.tag = "scalar" -> EncodeScalar(order, s, v)
      [] s.tag = "array"  -> FlattenSeq([i \in 1..s.count |-> ShapeEncode(order, s.elem, v[i])])
      [] s.tag = "struct" -> FlattenSeq([k \in DOMAIN s.fields |-> ShapeEncode(order, s.fields[k], v[k])])

\* Structs are filled in place; an array of structs gets no elements.
RECURSIVE ShapeDecode(_, _, _, _)
ShapeDecode(order, s, b, nested) ==
    CASE s.tag = "scalar" -> DecodeScalar(order, s, b)
      [] s.tag = "array"  -> [i \in 1..s.count |->
             ShapeDecode(order, s.elem, Part(b, (i - 1) * ShapeSize(s.elem), ShapeSize(s.elem)), TRUE)]
      [] s.tag = "struct" -> IF nested THEN <<NoValue>>
             ELSE [k \in DOMAIN s.fields |->
                 ShapeDecode(order, s.fields[k], Part(b, Offset(s.fields, k), ShapeSize(s.fields[k])), FALSE)]

\* Encode and Decode refuse a buffer that is too small and leave the rest alone.
EncodeInto(order, s, v, buf) ==
    LET e == ShapeEncode(order, s, v)
    IN IF Len(buf) < ShapeSize(s) THEN [n |-> 0, buf |-> buf, err |-> "too small"]
       ELSE [n |-> Len(e), buf |-> e \o SubSeq(buf, Len(e) + 1, Len(buf)), err |-> "nil"]
DecodeFrom(order, s, buf) ==
    IF Len(buf) < ShapeSize(s) THEN [n |-> 0, v |-> <<NoValue>>, err |-> "too small"]
    ELSE [n |-> ShapeSize(s), v |-> ShapeDecode(order, s, Part(buf, 0, ShapeSize(s)), FALSE), err |-> "nil"]

-----------------------------------------------------------------------------
\* Varints: a set top bit says that more follows.
Group == 2^G
MaxVarintLen == (V + G - 1) \div G
LastMax == 2^(V - G * (MaxVarintLen - 1)) - 1
RECURSIVE AppendUvarint(_, _)
AppendUvarint(buf, x) ==
    IF x >= Group THEN AppendUvarint(Append(buf, (x % Group) + Group), x \div Group) ELSE Append(buf, x)

RECURSIVE UvarintFrom(_, _, _)
UvarintFrom(buf, i, x) ==
    IF i = Len(buf) THEN <<0, 0>>
    ELSE IF i = MaxVarintLen THEN <<0, -(i + 1)>>
    ELSE IF buf[i + 1] < Group
         THEN IF i = MaxVarintLen - 1 /\ buf[i + 1] > LastMax THEN <<0, -(i + 1)>>
              ELSE <<(x + buf[i + 1] * Group^i) % 2^V, i + 1>>
    ELSE UvarintFrom(buf, i + 1, x + (buf[i + 1] % Group) * Group^i)
RECURSIVE UvarintUncheckedFrom(_, _, _)
UvarintUncheckedFrom(buf, i, x) ==
    IF i = Len(buf) THEN <<0, 0>>
    ELSE IF buf[i + 1] < Group THEN <<(x + buf[i + 1] * Group^i) % 2^V, i + 1>>
    ELSE UvarintUncheckedFrom(buf, i + 1, x + (buf[i + 1] % Group) * Group^i)
UvarintUnchecked(buf) == UvarintUncheckedFrom(buf, 0, 0)
Uvarint(buf) == UvarintFrom(buf, 0, 0)

\* ReadUvarint takes its bytes one by one from a reader that then ends.
RECURSIVE ReadUvarintFrom(_, _, _)
ReadUvarintFrom(src, i, x) ==
    IF i = MaxVarintLen THEN <<x % 2^V, "overflow", i>>
    ELSE IF i = Len(src) THEN <<x % 2^V, IF i > 0 THEN "unexpected EOF" ELSE "EOF", i>>
    ELSE IF src[i + 1] < Group
         THEN IF i = MaxVarintLen - 1 /\ src[i + 1] > LastMax THEN <<x % 2^V, "overflow", i + 1>>
              ELSE <<(x + src[i + 1] * Group^i) % 2^V, "nil", i + 1>>
    ELSE ReadUvarintFrom(src, i + 1, x + (src[i + 1] % Group) * Group^i)
ReadUvarint(src) == ReadUvarintFrom(src, 0, 0)

\* Zig-zag: signed values of either sign get short encodings.
EncodeSigned(x) == LET ux == (2 * AsInt(V, x)) % 2^V IN IF x < 0 THEN 2^V - 1 - ux ELSE ux
DecodeSigned(ux) == IF ux % 2 = 1 THEN AsInt(V, -(ux \div 2) - 1) ELSE AsInt(V, ux \div 2)

-----------------------------------------------------------------------------
Plain(s) == s.tag = "scalar"
RECURSIVE InRange(_, _)
InRange(s, v) ==
    CASE s.tag = "scalar" -> s.kind # "int" \/ s.width # 4 \/ v >= 0
      [] s.tag = "array"  -> \A i \in 1..s.count : InRange(s.elem, v[i])
      [] s.tag = "struct" -> \A k \in DOMAIN s.fields : InRange(s.fields[k], v[k])

\* "Size/Append/Read/Decode handle them like Go" (decodeTarget): decoding what
\* was encoded gives the value back, in either byte order.
DecodeInverts(order, s, v) ==
    DecodeFrom(order, s, ShapeEncode(order, s, v)) = [n |-> ShapeSize(s), v |-> v, err |-> "nil"]

\* The same for every value without a negative int32, together with what
\* surrounds it: Encode touches exactly Size bytes and refuses less room, and
\* the two byte orders mirror each other for scalars (encodeData, decodeFixed).
BinaryPromise(order, t, v) ==
    LET s     == ShapeFromType(t)
        other == IF order = "little" THEN "big" ELSE "little"
        room  == [i \in 1..(ShapeSize(s) + 1) |-> 1]
    IN s # Unsupported =>
       /\ InRange(s, v) => DecodeInverts(order, s, v)
       /\ EncodeInto(order, s, v, room).n = ShapeSize(s)
       /\ EncodeInto(order, s, v, room).buf = Append(ShapeEncode(order, s, v), 1)
       /\ EncodeInto(order, s, v, Tail(Tail(room))).err = "too small"
       /\ DecodeFrom(order, s, Tail(Tail(room))).err = "too small"
       /\ Plain(s) => ShapeEncode(order, s, v) = Reverse(ShapeEncode(other, s, v))

\* A byte sequence is read as a varint exactly when its groups fit the word,
\* the two readers agree on every input, and every value of either sign comes
\* back from the shortest encoding (Uvarint, ReadUvarint, encodeSignedVarint).
VarintPromise(buf) ==
    LET u == Uvarint(buf)
        r == ReadUvarint(buf)
        ends == {i \in DOMAIN buf : buf[i] < Group}
        n    == CHOOSE i \in ends : \A j \in ends : i <= j
        value == FoldLeft(LAMBDA acc, i : acc + (buf[i] % Group) * Group^(i - 1), 0, [i \in 1..n |-> i])
    IN /\ ends # {} => /\ value < 2^V /\ n <= MaxVarintLen => u = <<value, n>> /\ r = <<value, "nil", n>>
                       /\ value >= 2^V \/ n > MaxVarintLen => u[2] < 0 /\ r[2] = "overflow"
       /\ ends = {} => /\ u[2] <= 0 /\ (u[2] < 0 <=> Len(buf) > MaxVarintLen)
                       /\ r[2] = IF buf = <<>> THEN "EOF"
                                 ELSE IF Len(buf) >= MaxVarintLen THEN "overflow" ELSE "unexpected EOF"
       /\ \A x \in (-(2^(V - 1)))..(2^(V - 1) - 1) :
             LET e == AppendUvarint(<<>>, EncodeSigned(x))
             IN /\ DecodeSigned(Uvarint(e \o buf)[1]) = x /\ Uvarint(e \o buf)[2] = Len(e)
                /\ Len(e) <= MaxVarintLen

-----------------------------------------------------------------------------
(* Package cryptobyte. *)

Base == 2^B
Half == 2^(B - 1)
HighTag == 3
Nil == "nil"
Null == [ok |-> FALSE]
Zeros(n) == [i \in 1..n |-> 0]
Drop(s, n) == SubSeq(s, n + 1, Len(s))

-----------------------------------------------------------------------------
\* Reading: every reader answers [ok, out, rest] and leaves the string alone
\* when it fails.
Took(s, n) == [ok |-> TRUE, out |-> SubSeq(s, 1, n), rest |-> Drop(s, n)]
Read(s, n) == IF Len(s) < n THEN Null ELSE Took(s, n)
ReadUint(b) == FoldLeft(LAMBDA acc, x : acc * Base + x, 0, b)
ReadLengthPrefixed(s, lenLen) ==
    LET length == ReadUint(SubSeq(s, 1, lenLen))
    IN IF Len(s) < lenLen \/ Len(s) < lenLen + length THEN Null
       ELSE [ok |-> TRUE, out |-> SubSeq(s, lenLen + 1, lenLen + length), rest |-> Drop(s, lenLen + length)]

ParseASN1(s) ==
    LET lenLen == s[2] - Half
        long   == ReadUint(SubSeq(s, 3, 2 + lenLen))
        Header(h, n) == IF Len(s) < h + n THEN Null
                        ELSE [ok |-> TRUE, tag |-> s[1], headerLen |-> h, totalLen |-> h + n]
    IN IF Len(s) < 2 \/ s[1] % 4 = HighTag THEN Null
       ELSE IF s[2] < Half THEN Header(2, s[2])
       ELSE IF lenLen = 0 \/ lenLen > 4 \/ Len(s) < 2 + lenLen \/ s[3] = 0 \/ long < Half THEN Null
       ELSE Header(2 + lenLen, long)
\* ReadASN1 (header skipped), ReadASN1Element (header kept).
ReadASN1(s, tag, skipHeader) ==
    LET p == ParseASN1(s)
    IN IF ~p.ok \/ p.tag # tag THEN Null
       ELSE [ok |-> TRUE, rest |-> Drop(s, p.totalLen),
             out |-> SubSeq(s, IF skipHeader THEN p.headerLen + 1 ELSE 1, p.totalLen)]
PeekASN1Tag(s, tag) == ParseASN1(s).ok /\ ParseASN1(s).tag = tag
\* An optional element whose tag is not next gives the default and reads nothing.
ReadOptionalASN1(s, tag, default) ==
    IF PeekASN1Tag(s, tag) THEN ReadASN1(s, tag, TRUE) ELSE [ok |-> TRUE, out |-> default, rest |-> s]

-----------------------------------------------------------------------------
\* ASN.1 scalars.
RECURSIVE UnsignedBytes(_)
UnsignedBytes(v) == IF v = 0 THEN <<>> ELSE Append(UnsignedBytes(v \div Base), v % Base)
FixedUnsignedBytes(v, n) == [i \in 1..n |-> (v \div Base^(n - i)) % Base]
EncodeASN1Unsigned(v) ==
    LET out == UnsignedBytes(v)
    IN IF out = <<>> THEN <<0>> ELSE IF out[1] >= Half THEN <<0>> \o out ELSE out
EncodeASN1Signed(v) ==
    IF v >= 0 THEN EncodeASN1Unsigned(v)
    ELSE LET n == CHOOSE k \in 1..8 : /\ v >= -(Half * Base^(k - 1))
                                      /\ \A j \in 1..(k - 1) : v < -(Half * Base^(j - 1))
         IN FixedUnsignedBytes(Base^n + v, n)
SignedBigInt(b) == ReadUint(b) - IF b # <<>> /\ b[1] >= Half THEN Base^Len(b) ELSE 0
CheckASN1Integer(b) ==
    /\ Len(b) > 0
    /\ Len(b) > 1 => /\ ~(b[1] = 0 /\ b[2] < Half)
                     /\ ~(b[1] = Base - 1 /\ b[2] >= Half)
\* writeInteger: a value out of the target's range throws, it is not refused.
WriteInteger(v, kind) ==
    LET lo == IF kind.signed THEN -(2^(kind.bits - 1)) ELSE 0
        hi == IF kind.signed THEN 2^(kind.bits - 1) - 1 ELSE 2^kind.bits - 1
    IN IF v < lo \/ v > hi THEN "integer overflow" ELSE Nil
ParseBitString(b) ==
    IF \/ b = <<>> \/ b[1] > B - 1
       \/ Len(b) = 1 /\ b[1] # 0
       \/ Len(b) > 1 /\ b[1] > 0 /\ b[Len(b)] % 2^b[1] # 0 THEN Null
    ELSE [ok |-> TRUE, bytes |-> Tail(b), bits |-> (Len(b) - 1) * B - b[1]]
AddASN1BitString(bytes, bits) ==
    LET padding == (B - (bits % B)) % B
    IN IF Len(bytes) * B - padding # bits THEN Null ELSE [ok |-> TRUE, out |-> <<padding>> \o bytes]

\* Object identifiers: groups of B - 1 bits.  The writer keeps B bits of each
\* group, so a group whose top bit is set spoils its neighbour.
RECURSIVE Base128Groups(_)
Base128Groups(v) == IF v = 0 THEN <<>>
                    ELSE Append(Base128Groups(v \div Half), IF v % Base >= Half THEN v % Base ELSE (v % Base) + Half)
AddBase128Int(v) == Append(Base128Groups(v \div Half), v % Base)
RECURSIVE ReadBase128(_, _)
ReadBase128(b, ret) ==
    IF b = <<>> \/ (ret = 0 /\ b[1] = Half) THEN Null
    ELSE IF b[1] < Half THEN [ok |-> TRUE, value |-> ret * Half + b[1], rest |-> Tail(b)]
    ELSE ReadBase128(Tail(b), ret * Half + (b[1] - Half))
RECURSIVE ReadOIDParts(_)
ReadOIDParts(b) == IF b = <<>> THEN <<>>
                   ELSE LET r == ReadBase128(b, 0) IN IF r.ok THEN <<r.value>> \o ReadOIDParts(r.rest) ELSE <<-1>>
AddASN1ObjectIdentifier(oid) ==
    IF Len(oid) < 2 \/ oid[1] > 2 \/ (oid[2] >= 40 /\ oid[1] < 2) THEN Null
    ELSE [ok |-> TRUE, out |-> FlattenSeq([i \in 1..(Len(oid) - 1) |->
                                   AddBase128Int(IF i = 1 THEN oid[1] * 40 + oid[2] ELSE oid[i + 1])])]
ReadASN1ObjectIdentifier(b) ==
    LET parts == ReadOIDParts(b)
    IN IF b = <<>> \/ \E i \in DOMAIN parts : parts[i] = -1 THEN Null
       ELSE [ok |-> TRUE, out |-> (IF parts[1] < 80 THEN <<parts[1] \div 40, parts[1] % 40>> ELSE <<2, parts[1] - 80>>)
                                  \o Tail(parts)]

-----------------------------------------------------------------------------
\* Building.  A builder is [err, result, limit]; limit < 0 is a growing one.
\* Items of a program: bytes, uint, prefixed (a continuation under a length prefix
\* of n bytes), asn1 (under a tag), unwrite, and fail (SetError, or a
\* continuation that panics with a BuildError).
SetError(b, e) == IF b.err = Nil THEN [b EXCEPT !.err = e] ELSE b
Add(b, bytes) ==
    IF b.err # Nil THEN b
    ELSE IF b.limit >= 0 /\ Len(b.result) + Len(bytes) > b.limit THEN SetError(b, "exceeding its fixed size")
    ELSE [b EXCEPT !.result = @ \o bytes]
Unwrite(b, n) ==
    IF b.err # Nil THEN b
    ELSE IF n < 0 \/ n > Len(b.result) THEN SetError(b, "invalid Unwrite")
    ELSE [b EXCEPT !.result = SubSeq(@, 1, Len(@) - n)]
EncodeASN1Length(n) == IF n < Half THEN <<n>> ELSE <<Half + Len(UnsignedBytes(n))>> \o UnsignedBytes(n)
FlushASN1LengthInPlace(r, offset, length) ==
    SubSeq(r, 1, offset) \o EncodeASN1Length(length) \o Drop(r, offset + Len(EncodeASN1Length(length)))
\* The one byte reserved for the length becomes the whole encoded length; the
\* contents are moved up to make room.
FlushASN1Length(r, offset, length) ==
    SubSeq(r, 1, offset) \o EncodeASN1Length(length) \o Drop(r, offset + 1)
FlushPrefix(r, offset, lenLen, length) ==
    SubSeq(r, 1, offset) \o FixedUnsignedBytes(length, lenLen) \o Drop(r, offset + lenLen)
\* flushChild: the child's error becomes the parent's; a length is patched in
\* only when there is none.
FlushChild(parent, child, offset, lenLen, isASN1) ==
    LET b == [parent EXCEPT !.err = IF @ = Nil THEN child.err ELSE @, !.result = child.result]
        length == Len(child.result) - (offset + lenLen)
    IN IF b.err # Nil THEN b
       ELSE IF isASN1 THEN [b EXCEPT !.result = FlushASN1Length(@, offset, length)]
       ELSE IF length >= Base^lenLen THEN SetError(b, "length prefix overflow")
       ELSE [b EXCEPT !.result = FlushPrefix(@, offset, lenLen, length)]

RECURSIVE Run(_, _)
AddLengthPrefixed(b, lenLen, isASN1, body) ==
    LET reserved == Add(b, Zeros(lenLen))
    IN IF b.err # Nil THEN b
       ELSE FlushChild(reserved, Run(reserved, body), Len(b.result), lenLen, isASN1)
\* AddUint8 to AddUint64: big endian, cut to the width.
AddUint(b, width, v) == Add(b, FixedUnsignedBytes(v, width))
Perform(b, item) ==
    CASE item.op = "bytes"    -> Add(b, item.bytes)
      [] item.op = "uint"     -> AddUint(b, item.n, item.v)
      [] item.op = "prefixed" -> AddLengthPrefixed(b, item.n, FALSE, item.body)
      [] item.op = "asn1"     -> AddLengthPrefixed(Add(b, <<item.n>>), 1, TRUE, item.body)
      [] item.op = "unwrite"  -> Unwrite(b, item.n)
      [] item.op = "fail"     -> SetError(b, "failed")
Run(b, prog) == FoldLeft(Perform, b, prog)
NewBuilder == [err |-> Nil, result |-> <<>>, limit |-> -1]
NewFixedBuilder(limit) == [NewBuilder EXCEPT !.limit = limit]
\* Builder.Bytes: a fixed builder must be full.
BuilderBytes(b) ==
    IF b.err # Nil THEN [err |-> b.err, bytes |-> <<>>]
    ELSE IF b.limit >= 0 /\ Len(b.result) # b.limit THEN [err |-> "not full", bytes |-> <<>>]
    ELSE [err |-> Nil, bytes |-> b.result]

-----------------------------------------------------------------------------
\* What a program means without offsets: bytes and lengths, bottom up.
RECURSIVE Meaning(_)
MeaningOf(item) ==
    CASE item.op = "bytes"    -> item.bytes
      [] item.op = "uint"     -> FixedUnsignedBytes(item.v, item.n)
      [] item.op = "prefixed" -> FixedUnsignedBytes(Len(Meaning(item.body)), item.n) \o Meaning(item.body)
      [] item.op = "asn1"     -> <<item.n>> \o EncodeASN1Length(Len(Meaning(item.body))) \o Meaning(item.body)
Meaning(prog) == FoldLeft(LAMBDA acc, item : IF item.op = "unwrite" THEN SubSeq(acc, 1, Len(acc) - item.n)
                                             ELSE acc \o MeaningOf(item), <<>>, prog)
Nests(item) == item.op \in {"prefixed", "asn1"}
RECURSIVE Fits(_)
Fits(prog) == \A i \in DOMAIN prog :
    Nests(prog[i]) => /\ Fits(prog[i].body)
                      /\ prog[i].op = "prefixed" => Len(Meaning(prog[i].body)) < Base^prog[i].n
RECURSIVE Uses(_, _)
Uses(op, prog) == \E i \in DOMAIN prog : prog[i].op = op \/ (Nests(prog[i]) /\ Uses(op, prog[i].body))
RECURSIVE ReadsBack(_, _)
\* The reader calls that mirror the program succeed one after the other and
\* use up exactly what was written.
ReadsBack(s, prog) ==
    IF prog = <<>> THEN s = <<>>
    ELSE LET item == Head(prog)
             r == CASE item.op = "bytes"    -> Read(s, Len(item.bytes))
                    [] item.op = "uint"     -> Read(s, item.n)
                    [] item.op = "prefixed" -> ReadLengthPrefixed(s, item.n)
                    [] item.op = "asn1"     -> ReadASN1(s, item.n, TRUE)
         IN /\ r.ok
            /\ item.op = "bytes" => r.out = item.bytes
            /\ item.op = "uint"  => ReadUint(r.out) = item.v % Base^item.n
            /\ item.op = "asn1" => /\ ReadOptionalASN1(s, item.n, <<>>) = r
                                   /\ ReadOptionalASN1(s, item.n + 1, <<>>).rest = s
            /\ Nests(item) => ReadsBack(r.out, item.body)
            /\ ReadsBack(r.rest, Tail(prog))

\* However deeply continuations nest, and whatever moving the long length
\* forms cause, the shared array ends as the bottom-up meaning of the program,
\* the mirroring reads give it back, an overflowing prefix or a failure
\* anywhere fails the whole, and a fixed builder answers the same bytes
\* exactly at its size (addLengthPrefixed, flushChild, flushASN1Length).
BuilderPromise(prog) ==
    LET answer == BuilderBytes(Run(NewBuilder, prog))
        size   == Len(Meaning(prog))
        Fixed(n) == BuilderBytes(Run(NewFixedBuilder(n), prog))
    IN IF Uses("fail", prog) THEN answer.err # Nil
       ELSE IF ~Fits(prog) THEN answer.err = "length prefix overflow"
       ELSE /\ answer = [err |-> Nil, bytes |-> Meaning(prog)]
            /\ Uses("unwrite", prog) \/ /\ ReadsBack(answer.bytes, prog)
                                        /\ Fixed(size) = answer
            /\ Fixed(size + 1).err # Nil
            /\ size > 0 => Fixed(size - 1).err # Nil

\* Integers have exactly one accepted encoding, which is the shortest; bit
\* strings come back with their length; a component of an object identifier
\* comes back when none of its groups meets the top bit of a byte
\* (encodeASN1Signed, checkASN1Integer, parseBitString, addBase128Int).
ASN1Promise(v, b) ==
    LET e == EncodeASN1Signed(v)
        RECURSIVE Fine(_)
        Fine(x) == x % Base < Half /\ (x >= Half => Fine(x \div Half))
    IN /\ CheckASN1Integer(e) /\ SignedBigInt(e) = v
       /\ CheckASN1Integer(b) => EncodeASN1Signed(SignedBigInt(b)) = b
       /\ v >= 0 => EncodeASN1Unsigned(v) = e
       /\ WriteInteger(v, [signed |-> TRUE, bits |-> B]) = Nil <=> Len(e) = 1
       /\ \A bits \in 0..(B * Len(b)) :
             LET w == AddASN1BitString(b, bits)
             IN w.ok => /\ bits > B * (Len(b) - 1)
                        /\ ParseBitString(w.out).ok <=>
                             (b = <<>> \/ b[Len(b)] % 2^(B * Len(b) - bits) = 0)
                        /\ ParseBitString(w.out).ok => ParseBitString(w.out).bits = bits
       /\ v >= 0 /\ Fine(v) =>
             LET w == AddASN1ObjectIdentifier(<<0, 1, v>>)
             IN ReadASN1ObjectIdentifier(w.out) = [ok |-> TRUE, out |-> <<0, 1, v>>]
       /\ ParseASN1(b).ok => LET p == ParseASN1(b) IN
             SubSeq(b, 2, p.headerLen) = EncodeASN1Length(p.totalLen - p.headerLen)
=============================================================================
