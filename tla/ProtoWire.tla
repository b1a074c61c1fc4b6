----------------------------- MODULE ProtoWire ------------------------------
(***************************************************************************)
(* protobuf-go-lite: the Size, Encode, Decode and Skip helpers generated   *)
(* messages are made of, its Clone and Equal helpers, and the conversion   *)
(* between Go messages and protobuf-es-lite ones.  Proportions are kept at *)
(* a smaller size: a byte has B bits, a 64-bit word V, a 32-bit word N.    *)
(***************************************************************************)
EXTENDS Integers, Sequences, SequencesExt, FiniteSets

CONSTANTS B, V, N

Group == 2^(B - 1)
MaxVarintLen == (V + B - 2) \div (B - 1)
LastMax == 2^(V - (B - 1) * (MaxVarintLen - 1)) - 1
AsInt(n, v) == LET u == v % 2^n IN IF u >= 2^(n - 1) THEN u - 2^n ELSE u
Nil == "nil"

-----------------------------------------------------------------------------
\* Varints and sizes.
NormalizedVarint(v) == v % 2^V
RECURSIVE VarintBytes(_)
VarintBytes(u) == IF u < Group THEN <<u>> ELSE <<(u % Group) + Group>> \o VarintBytes(u \div Group)
AppendVarint(v) == VarintBytes(NormalizedVarint(v))
SizeOfVarint(v) == Len(AppendVarint(v))
Zigzag(bits, v) == (IF v < 0 THEN -2 * v - 1 ELSE 2 * v) % 2^bits
SizeOfZigzag(v) == SizeOfVarint(Zigzag(V, AsInt(V, v)))
SizeBytesValue(keySize, l) == keySize + l + SizeOfVarint(l)
Total(Size(_), vals) == FoldLeft(LAMBDA acc, v : acc + Size(v), 0, vals)

\* ConsumeVarint answers <<value, bytes used>>, or -1 (too short), -2 (too big).
RECURSIVE ConsumeFrom(_, _, _)
ConsumeFrom(b, i, v) ==
    IF i = MaxVarintLen THEN <<0, -2>>
    ELSE IF i >= Len(b) THEN <<0, -1>>
    ELSE IF i = MaxVarintLen - 1 /\ b[i + 1] > LastMax THEN <<0, -2>>
    ELSE IF b[i + 1] < Group THEN <<(v + b[i + 1] * Group^i) % 2^V, i + 1>>
    ELSE ConsumeFrom(b, i + 1, v + (b[i + 1] % Group) * Group^i)
ConsumeVarint(b) == ConsumeFrom(b, 0, 0)

\* Size of a field: scalars that are zero and lists that are empty take nothing.
\* A field is [num, kind, x] for a scalar x, [num, kind, elem, v] for a list or
\* bytes v; the kinds are named after the helper's suffix.
KeySize(f) == SizeOfVarint(f.num * 8)
ElemSize(kind, v) ==
    CASE kind \in {"varint", "int32"}   -> SizeOfVarint(v)
      [] kind \in {"sint32", "sint64"} -> SizeOfZigzag(v)
      [] kind = "bool"    -> 1
      [] kind = "fixed32" -> N \div B
      [] kind = "fixed64" -> V \div B
SizeField(f) ==
    CASE f.kind = "packed" -> IF f.v = <<>> THEN 0
                              ELSE SizeBytesValue(KeySize(f), Total(LAMBDA v : ElemSize(f.elem, v), f.v))
      [] f.kind = "slice"  -> Total(LAMBDA v : KeySize(f) + ElemSize(f.elem, v), f.v)
      [] f.kind = "bytes"  -> IF f.v = <<>> THEN 0 ELSE SizeBytesValue(KeySize(f), Len(f.v))
      [] f.kind = "bool"   -> IF f.x = 0 THEN 0 ELSE KeySize(f) + 1
      [] OTHER             -> IF f.x = 0 THEN 0 ELSE KeySize(f) + ElemSize(f.kind, f.x)

-----------------------------------------------------------------------------
\* Encoding runs from the end of a sized buffer to its start; d is [buf, offset].
Put(d, at, bytes) == [d EXCEPT !.buf = [i \in DOMAIN @ |-> IF i - at \in 1..Len(bytes) THEN bytes[i - at] ELSE @[i]]]
EncodeRawBytes(d, bytes) == [Put(d, d.offset - Len(bytes), bytes) EXCEPT !.offset = d.offset - Len(bytes)]
EncodeVarint(d, v) == EncodeRawBytes(d, AppendVarint(v))
EncodeFixed(d, bits, v) == EncodeRawBytes(d, [i \in 1..(bits \div B) |-> ((v % 2^bits) \div 2^(B * (i - 1))) % 2^B])
EncodeElem(d, kind, v) ==
    CASE kind \in {"varint", "int32"} -> EncodeVarint(d, v)
      [] kind = "sint32"  -> EncodeVarint(d, Zigzag(N, v))
      [] kind = "sint64"  -> EncodeVarint(d, Zigzag(V, AsInt(V, v)))
      [] kind = "bool"    -> EncodeRawBytes(d, <<v>>)
      [] kind = "fixed32" -> EncodeFixed(d, N, v)
      [] kind = "fixed64" -> EncodeFixed(d, V, v)
WireType(f) == CASE f.kind \in {"packed", "bytes"} -> 2 [] f.kind = "fixed64" -> 1 [] f.kind = "fixed32" -> 5
                 [] f.kind = "slice" -> (IF f.elem = "fixed64" THEN 1 ELSE IF f.elem = "fixed32" THEN 5 ELSE 0)
                 [] OTHER -> 0
EncodeKey(d, f) == EncodeVarint(d, f.num * 8 + WireType(f))
\* The packed encoders first reserve the sum of the sizes, then write forward
\* from there, then the length in front.
EncodePacked(d, f) ==
    LET total == Total(LAMBDA v : ElemSize(f.elem, v), f.v)
        body  == FoldLeft(LAMBDA acc, v : acc \o
                     AppendVarint(IF f.elem = "sint32" THEN Zigzag(N, v)
                                  ELSE IF f.elem = "sint64" THEN Zigzag(V, AsInt(V, v)) ELSE v), <<>>, f.v)
        at    == [Put(d, d.offset - total, body) EXCEPT !.offset = d.offset - total]
    IN EncodeVarint(at, total)
EncodeField(d, f) ==
    CASE SizeField(f) = 0  -> d
      [] f.kind = "packed" -> EncodeKey(EncodePacked(d, f), f)
      [] f.kind = "bytes"  -> EncodeKey(EncodeVarint(EncodeRawBytes(d, f.v), Len(f.v)), f)
      [] f.kind = "slice"  -> FoldLeft(LAMBDA acc, v : EncodeKey(EncodeElem(acc, f.elem, v), f), d, Reverse(f.v))
      [] OTHER             -> EncodeKey(EncodeElem(d, f.kind, f.x), f)
\* What the generated MarshalVT does with the helpers: size first, then the
\* fields backwards into a buffer of exactly that size.
MarshalVT(msg) ==
    LET size == Total(SizeField, msg)
    IN FoldLeft(EncodeField, [buf |-> [i \in 1..size |-> -1], offset |-> size], Reverse(msg))

-----------------------------------------------------------------------------
\* Decoding: answers [v, next, err]; next counts the bytes before the next one.
Failed(e) == [v |-> 0, next |-> 0, err |-> e]
From(b, idx) == SubSeq(b, idx + 1, Len(b))
DecodeVarint(b, idx) ==
    LET r == ConsumeVarint(From(b, idx))
    IN IF r[2] < 0 THEN Failed(IF r[2] = -1 THEN "unexpected EOF" ELSE "integer overflow")
       ELSE [v |-> r[1], next |-> idx + r[2], err |-> Nil]
UnZigzag(bits, u) == IF u % 2 = 1 THEN AsInt(bits, -(u \div 2) - 1) ELSE AsInt(bits, u \div 2)
DecodeFixed(b, idx, bits) ==
    LET n == bits \div B
    IN IF idx + n > Len(b) THEN Failed("unexpected EOF")
       ELSE [v |-> FoldLeft(LAMBDA acc, i : acc * 2^B + b[idx + i], 0, Reverse([i \in 1..n |-> i])), next |-> idx + n, err |-> Nil]
DecodeElem(b, idx, kind) ==
    LET d == DecodeVarint(b, idx)
    IN CASE kind = "fixed32" -> DecodeFixed(b, idx, N)
         [] kind = "fixed64" -> DecodeFixed(b, idx, V)
         [] OTHER -> [d EXCEPT !.v = CASE kind = "varint" -> @
                                       [] kind = "int32"  -> AsInt(N, @)
                                       [] kind = "sint32" -> UnZigzag(N, @ % 2^N)
                                       [] kind = "sint64" -> UnZigzag(V, @)
                                       [] kind = "bool"   -> IF @ = 0 THEN 0 ELSE 1]
DecodeLengthDelimitedUnbounded(b, idx) ==
    LET d == DecodeVarint(b, idx)
    IN IF d.err # Nil THEN Failed(d.err) ELSE [v |-> d.next, next |-> d.next + d.v, err |-> Nil]
DecodeLengthDelimited(b, idx) ==
    LET d == DecodeVarint(b, idx)
    IN IF d.err # Nil THEN Failed(d.err)
       ELSE IF d.next + d.v > Len(b) THEN Failed("unexpected EOF")
       ELSE [v |-> d.next, next |-> d.next + d.v, err |-> Nil]
DecodeBytes(b, idx) ==
    LET d == DecodeLengthDelimited(b, idx)
    IN IF d.err # Nil THEN [v |-> <<>>, next |-> 0, err |-> d.err]
       ELSE [v |-> SubSeq(b, d.v + 1, d.next), next |-> d.next, err |-> Nil]
PackedVarintElementCount(b) == Cardinality({i \in DOMAIN b : b[i] < Group})
RECURSIVE DecodeList(_, _, _)
DecodeList(b, idx, kind) ==
    IF idx = Len(b) THEN <<>>
    ELSE LET d == DecodeElem(b, idx, kind) IN IF d.err # Nil THEN <<-1>> ELSE <<d.v>> \o DecodeList(b, d.next, kind)

\* Skip passes over one record, groups with everything in them; its own varint
\* loop stops after MaxVarintLen bytes and does not look at the last one's size.
RECURSIVE LoopVarint(_, _, _, _)
LoopVarint(b, i, k, v) ==
    IF k = MaxVarintLen THEN Failed("integer overflow")
    ELSE IF i >= Len(b) THEN Failed("unexpected EOF")
    ELSE IF b[i + 1] < Group THEN [v |-> v + b[i + 1] * Group^k, next |-> i + 1, err |-> Nil]
    ELSE LoopVarint(b, i + 1, k + 1, v + (b[i + 1] % Group) * Group^k)
RECURSIVE SkipFrom(_, _, _)
SkipFrom(b, i, depth) ==
    IF i >= Len(b) THEN Failed("unexpected EOF")
    ELSE LET key == LoopVarint(b, i, 0, 0)
             wt  == key.v % 8
             inner == LoopVarint(b, key.next, 0, 0)
             at   == CASE wt = 0 -> inner.next
                       [] wt = 1 -> key.next + V \div B
                       [] wt = 2 -> inner.next + inner.v
                       [] wt = 5 -> key.next + N \div B
                       [] OTHER  -> key.next
             nest == depth + (IF wt = 3 THEN 1 ELSE IF wt = 4 THEN -1 ELSE 0)
         IN IF key.err # Nil THEN Failed(key.err)
            ELSE IF wt \in {0, 2} /\ inner.err # Nil THEN Failed(inner.err)
            ELSE IF wt = 4 /\ depth = 0 THEN Failed("unexpected end of group")
            ELSE IF wt > 5 THEN Failed("illegal wireType")
            ELSE IF nest = 0 THEN [v |-> 0, next |-> at, err |-> Nil]
            ELSE SkipFrom(b, at, nest)
Skip(b) == SkipFrom(b, 0, 0)
SkipWithin(b, idx, limit) ==
    LET s == Skip(From(b, idx))
    IN IF s.err # Nil THEN s
       ELSE IF idx + s.next > limit THEN Failed("unexpected EOF")
       ELSE [s EXCEPT !.next = idx + @]

-----------------------------------------------------------------------------
\* Clone and Equal helpers.  A value is a record [t, v]: nil, a scalar, bytes,
\* a slice or a map of values.  In the implicit mode nil stands for empty.
NilValue == [t |-> "nil"]
Length(x) == IF x = NilValue THEN 0 ELSE Cardinality(DOMAIN x.v)
\* EqualVTImplicit: a nil message equals the empty one.
NilIsEmpty(a, b) == {a, b} = {NilValue, [t |-> "scalar", x |-> 0]}
RECURSIVE EqualValue(_, _, _)
EqualValue(a, b, implicit) ==
    IF a.t = "scalar" \/ b.t = "scalar"
    THEN a = b \/ (implicit /\ NilIsEmpty(a, b))
    ELSE /\ Length(a) = Length(b)
         /\ Length(a) > 0 => \A k \in DOMAIN a.v : k \in DOMAIN b.v /\ EqualValue(a.v[k], b.v[k], implicit)
RECURSIVE CloneValue(_)
CloneValue(x) ==
    IF x.t \in {"nil", "scalar"} THEN x ELSE [x EXCEPT !.v = [k \in DOMAIN @ |-> CloneValue(@[k])]]

-----------------------------------------------------------------------------
\* Bound messages.  A field is [name, kind, repeated, oneof, T]; a Go message is
\* a function from names (of fields and of oneof groups) to values or NoValue,
\* a group holds [branch, v]; repeated fields hold [items].
NoValue == [none |-> TRUE]
RECURSIVE ToTypeScriptMessage(_, _)
ToTypeScriptFieldValue(f, v) == IF f.kind = "message" /\ v # NoValue THEN ToTypeScriptMessage(v, f.T) ELSE v
ToTypeScriptList(f, v) ==
    IF f.repeated /\ v # NoValue THEN [items |-> [i \in DOMAIN v.items |-> ToTypeScriptFieldValue(f, v.items[i])]]
    ELSE ToTypeScriptFieldValue(f, v)
\* A branch of a oneof is kept only when its value is not nil.
ToTypeScriptMessage(value, fields) ==
    LET names == {fields[k].name : k \in {j \in DOMAIN fields : fields[j].oneof = ""}}
        groups == {fields[k].oneof : k \in DOMAIN fields} \ {""}
        Field(n) == CHOOSE f \in Range(fields) : f.name = n
    IN [n \in names \cup groups |->
          IF n \in names THEN ToTypeScriptList(Field(n), value[n])
          ELSE IF value[n] = NoValue \/ value[n].v = NoValue THEN NoValue
          ELSE [case |-> value[n].branch, value |-> ToTypeScriptList(Field(value[n].branch), value[n].v)]]
RECURSIVE FromTypeScriptMessage(_, _)
FromTypeScriptFieldValue(f, v) == IF f.kind = "message" /\ v # NoValue THEN FromTypeScriptMessage(v, f.T) ELSE v
FromTypeScriptList(f, v) ==
    IF f.repeated /\ v # NoValue THEN [items |-> [i \in DOMAIN v.items |-> FromTypeScriptFieldValue(f, v.items[i])]]
    ELSE FromTypeScriptFieldValue(f, v)
FromTypeScriptFirst(value, fields) ==
    LET Field(n) == CHOOSE f \in Range(fields) : f.name = n
    IN [n \in DOMAIN value |->
          IF \E f \in Range(fields) : f.name = n /\ f.oneof = "" THEN FromTypeScriptList(Field(n), value[n])
          ELSE IF value[n] = NoValue THEN NoValue
          ELSE LET f == CHOOSE k \in Range(fields) : k.oneof = n
               IN [branch |-> f.name, v |-> FromTypeScriptList(f, value[n].value)]]
FromTypeScriptMessage(value, fields) ==
    LET Field(n) == CHOOSE f \in Range(fields) : f.name = n
    IN [n \in DOMAIN value |->
          IF \E f \in Range(fields) : f.name = n /\ f.oneof = "" THEN FromTypeScriptList(Field(n), value[n])
          ELSE IF value[n] = NoValue THEN NoValue
          ELSE [branch |-> value[n].case, v |-> FromTypeScriptList(Field(value[n].case), value[n].value)]]

-----------------------------------------------------------------------------
\* The records of an encoded message, found by skipping over them.
RECURSIVE Records(_, _)
Records(b, idx) ==
    IF idx = Len(b) THEN <<>>
    ELSE LET s == SkipWithin(b, idx, Len(b)) IN IF s.err # Nil THEN <<-1>> ELSE <<idx>> \o Records(b, s.next)
Scalars(f) == IF f.kind \in {"slice", "packed"} THEN f.v ELSE IF f.kind = "bytes" THEN <<f.v>> ELSE <<f.x>>
ElemKind(f) == IF f.kind \in {"slice", "packed"} THEN f.elem ELSE f.kind
\* The values field f has in b, read from the records with its number.
DecodeField(b, f) ==
    LET mine == SelectSeq(Records(b, 0), LAMBDA at : DecodeVarint(b, at).v \div 8 = f.num)
        Body(at) == DecodeVarint(b, at).next
    IN CASE f.kind = "bytes"  -> IF mine = <<>> THEN <<<<>>>> ELSE <<DecodeBytes(b, Body(mine[1])).v>>
         [] f.kind = "packed" -> IF mine = <<>> THEN <<>> ELSE DecodeList(DecodeBytes(b, Body(mine[1])).v, 0, f.elem)
         [] OTHER -> LET got == [i \in DOMAIN mine |-> DecodeElem(b, Body(mine[i]), ElemKind(f)).v]
                     IN IF got = <<>> /\ f.kind # "slice" THEN <<0>> ELSE got

\* Encoding backwards into a buffer of the computed size fills it exactly, the
\* decoders find every value again, records are skipped one by one, and no
\* message cut short is read past its end (SizeOf*, Encode*, Decode*, SkipWithin).
WirePromise(msg) ==
    LET d == MarshalVT(msg)
        starts == Records(d.buf, 0)
    IN /\ d.offset = 0 /\ \A i \in DOMAIN d.buf : d.buf[i] \in 0..(2^B - 1)
       /\ \A i \in DOMAIN msg : DecodeField(d.buf, msg[i]) = Scalars(msg[i])
       /\ \A k \in DOMAIN starts : \A limit \in 0..(Len(d.buf) - 1) :
             LET cut == SubSeq(d.buf, 1, limit)
                 end == IF k = Len(starts) THEN Len(d.buf) ELSE starts[k + 1]
             IN starts[k] <= limit /\ limit < end => SkipWithin(cut, starts[k], limit).err = "unexpected EOF"
       /\ \A i \in DOMAIN msg : msg[i].kind = "packed" /\ msg[i].elem # "fixed32" /\ msg[i].v # <<>> =>
             LET at == CHOOSE s \in Range(starts) : DecodeVarint(d.buf, s).v \div 8 = msg[i].num
             IN PackedVarintElementCount(DecodeBytes(d.buf, DecodeVarint(d.buf, at).next).v) = Len(msg[i].v)

\* On any bytes at all, what Skip and the decoders accept ends where they say,
\* whatever follows, and a length never reaches past the buffer.
AnyBytesPromise(b) ==
    LET s == Skip(b)
        c == ConsumeVarint(b)
        d == DecodeLengthDelimited(b, 0)
    IN /\ s.err = Nil => s.next > 0 /\ (s.next <= Len(b) => Skip(SubSeq(b, 1, s.next)) = s)
       /\ c[2] > 0 => ConsumeVarint(SubSeq(b, 1, c[2])) = c /\ c[1] < 2^V
       /\ c[2] > 0 /\ SizeOfVarint(c[1]) = c[2] => AppendVarint(c[1]) = SubSeq(b, 1, c[2])
       /\ d.err = Nil => d.v <= d.next /\ d.next <= Len(b)

\* A message keeps its fields, its nested messages and the branch of every
\* oneof on the way to protobuf-es-lite and back (toTypeScriptMessage,
\* fromTypeScriptMessage), unless the branch holds nil.
BoundPromise(value, fields) ==
    LET groups == {fields[k].oneof : k \in DOMAIN fields} \ {""}
        back == FromTypeScriptMessage(ToTypeScriptMessage(value, fields), fields)
    IN \A n \in DOMAIN value :
         back[n] = IF n \in groups /\ value[n] # NoValue /\ value[n].v = NoValue THEN NoValue ELSE value[n]

\* Equality is an equivalence in both modes, clones are equal and keep nil
\* apart from empty, and the implicit mode is the coarser one.
EqualPromise(a, b, c) ==
    /\ \A m \in BOOLEAN : /\ EqualValue(a, b, m) = EqualValue(b, a, m)
                          /\ EqualValue(a, b, m) /\ EqualValue(b, c, m) => EqualValue(a, c, m)
                          /\ EqualValue(CloneValue(a), a, m)
    /\ EqualValue(a, b, FALSE) => EqualValue(a, b, TRUE)
    /\ CloneValue(a) = NilValue <=> a = NilValue
=============================================================================
