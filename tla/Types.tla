------------------------------- MODULE Types -------------------------------
(***************************************************************************)
(* Run-time type descriptors and type assertions (gs/builtin/type.ts),     *)
(* with the compiler's side of the contract: the descriptor it writes for  *)
(* a type and the object it makes of a value that enters an interface      *)
(* (compiler/lowering.go).                                                 *)
(*                                                                         *)
(* A type is a record; a declared type is a reference by name.  The type   *)
(* string of the code ("*main.T", "[]int") is the record it prints.  A     *)
(* JavaScript value is a record of what the code asks of it: typeof, the   *)
(* form of the object, its class, the struct-value marker, __goType,       *)
(* elements, methods.  Struct types have no tags, packages or embedding.   *)
(***************************************************************************)
EXTENDS Integers, Sequences, SequencesExt, FiniteSets, FiniteSetsExt

CONSTANT Declarations   \* sequence of [name, under, methods], in the order the modules load

Type(kind) == [kind |-> kind, name |-> "", typeName |-> "", elem |-> <<>>, key |-> <<>>, len |-> 0, dir |-> "both",
               fields |-> <<>>, methods |-> <<>>, params |-> <<>>, results |-> <<>>, variadic |-> FALSE, ctor |-> FALSE]
Basic(n) == [Type("basic") EXCEPT !.name = n]
Named(n) == [Type("ref") EXCEPT !.name = n]
Pointer(t) == [Type("pointer") EXCEPT !.elem = <<t>>]
Slice(t) == [Type("slice") EXCEPT !.elem = <<t>>]
Array(n, t) == [Type("array") EXCEPT !.elem = <<t>>, !.len = n]
Map(k, t) == [Type("map") EXCEPT !.key = <<k>>, !.elem = <<t>>]
Channel(d, t) == [Type("channel") EXCEPT !.dir = d, !.elem = <<t>>]
Function(ps, rs) == [Type("function") EXCEPT !.params = ps, !.results = rs]
Struct(fs) == [Type("struct") EXCEPT !.fields = fs]
Interface(ms) == [Type("interface") EXCEPT !.methods = ms]
Method(n, as, rs) == [name |-> n, args |-> as, returns |-> rs]
Field(n, t) == [name |-> n, type |-> t]

Declared(n) == \E i \in DOMAIN Declarations : Declarations[i].name = n
Declaration(n) == Declarations[CHOOSE i \in DOMAIN Declarations : Declarations[i].name = n]
Under(t) == IF t.kind = "ref" THEN Declaration(t.name).under ELSE t
MethodsOf(t) == IF t.kind = "ref" THEN Declaration(t.name).methods ELSE <<>>
Nilable(t) == Under(t).kind \in {"pointer", "slice", "map", "channel", "function", "interface"}

-----------------------------------------------------------------------------
(* The descriptors the compiler writes *)

Shallow(t) == LET u == Under(t) IN IF u.kind \in {"function", "interface", "struct"} THEN Type(u.kind) ELSE Basic("unknown")

RECURSIVE InfoOf(_, _)
\* runtimeTypeInfoExprWithSeen
InfoOf(t, seen) ==
    LET u == Under(t)
        Sub(s) == [i \in DOMAIN s |-> InfoOf(s[i], seen \union {t})]
        Parts == [u EXCEPT !.elem = Sub(u.elem), !.key = Sub(u.key), !.params = Sub(u.params), !.results = Sub(u.results),
                           !.fields = [i \in DOMAIN u.fields |-> Field(u.fields[i].name, InfoOf(u.fields[i].type, seen \union {t}))],
                           !.methods = [i \in DOMAIN u.methods |->
                               Method(u.methods[i].name, Sub(u.methods[i].args), Sub(u.methods[i].returns))]]
    IN CASE t \in seen -> Shallow(t)
         [] t \notin seen /\ t.kind = "ref" ->
                CASE u.kind = "basic" -> [u EXCEPT !.typeName = t.name]
                  [] u.kind = "function" -> [Parts EXCEPT !.name = t.name]
                  [] OTHER -> t
         [] OTHER -> Parts

\* registerTypeInfo, for the struct and interface declarations: the last one
\* registered under a name is the type of that name, the others are kept.
RegisterTypeInfo(registry, d) ==
    LET info == [InfoOf(d.under, {Named(d.name)}) EXCEPT !.name = d.name, !.ctor = d.under.kind = "struct",
                     !.methods = IF d.under.kind = "struct" THEN d.methods ELSE @]
        known == IF d.name \in DOMAIN registry THEN registry[d.name] ELSE <<>>
    IN [n \in DOMAIN registry \union {d.name} |->
            IF n # d.name THEN registry[n] ELSE SelectSeq(known, LAMBDA i : i # info) \o <<info>>]

Registry == FoldLeft(RegisterTypeInfo, [n \in {} |-> <<>>],
                     SelectSeq(Declarations, LAMBDA d : d.under.kind \in {"struct", "interface"}))

NormalizeTypeInfo(i) ==
    CASE i.kind # "ref" -> i
      [] i.kind = "ref" /\ i.name \in DOMAIN Registry -> Last(Registry[i.name])
      [] OTHER -> Basic(i.name)
TypeInfoRuntimeName(i) == IF i.typeName # "" THEN i.typeName ELSE i.name

-----------------------------------------------------------------------------
(* Identity of descriptors *)

\* The state of one comparison is the set of pairs met so far; an answer carries
\* it on to the comparisons that follow.
TypeInfoComparisonID(raw, i) == IF TypeInfoRuntimeName(i) # "" THEN [kind |-> i.kind, id |-> Basic(TypeInfoRuntimeName(i))]
                                ELSE [kind |-> "", id |-> raw]
MethodNames == <<"Error", "M", "N">>
SortedMethodSignatures(ms) == SortSeq(ms, LAMBDA a, b : \E i, j \in DOMAIN MethodNames : i < j /\ a.name = MethodNames[i] /\ b.name = MethodNames[j])

RECURSIVE AreIdenticalWithSeen(_, _, _)
RECURSIVE AllIdentical(_, _, _)
\* Types in step with types, to the first pair that differs.
AllIdentical(ts, us, seen) ==
    CASE Len(ts) # Len(us) -> [same |-> FALSE, seen |-> seen]
      [] Len(ts) = Len(us) /\ ts = <<>> -> [same |-> TRUE, seen |-> seen]
      [] OTHER -> LET first == AreIdenticalWithSeen(ts[1], us[1], seen)
                  IN IF first.same THEN AllIdentical(Tail(ts), Tail(us), first.seen) ELSE first
AreIdenticalWithSeen(raw1, raw2, seen) ==
    LET t1 == NormalizeTypeInfo(raw1)
        t2 == NormalizeTypeInfo(raw2)
        pair == <<TypeInfoComparisonID(raw1, t1), TypeInfoComparisonID(raw2, t2)>>
        Answer(b) == [same |-> b, seen |-> seen]
        Types(t) == CASE t.kind \in {"pointer", "slice", "array", "channel"} -> t.elem
                      [] t.kind = "map" -> t.key \o t.elem
                      [] t.kind = "function" -> t.params \o t.results
                      [] t.kind = "struct" -> [i \in DOMAIN t.fields |-> t.fields[i].type]
                      [] t.kind = "interface" -> LET ms == SortedMethodSignatures(t.methods)
                                                 IN FlattenSeq([i \in DOMAIN ms |-> ms[i].args \o ms[i].returns])
                      [] OTHER -> <<>>
        Shape(t) == LET ms == SortedMethodSignatures(t.methods)
                    IN CASE t.kind = "array" -> <<t.len>>
                         [] t.kind = "channel" -> <<t.dir>>
                         [] t.kind = "function" -> <<t.variadic, Len(t.params)>>
                         [] t.kind = "struct" -> [i \in DOMAIN t.fields |-> t.fields[i].name]
                         [] t.kind = "interface" -> [i \in DOMAIN ms |-> <<ms[i].name, Len(ms[i].args), Len(ms[i].returns)>>]
                         [] OTHER -> <<>>
    IN CASE t1 = t2 -> Answer(TRUE)
         [] t1 # t2 /\ (t1.kind # t2.kind \/ t1.typeName # t2.typeName \/ t1.name # t2.name) -> Answer(FALSE)
         [] t1 # t2 /\ t1.kind = t2.kind /\ t1.name # "" /\ t1.kind \in {"basic", "struct", "interface"} -> Answer(TRUE)
         [] OTHER -> IF pair \in seen THEN Answer(TRUE)
                     ELSE IF Shape(t1) # Shape(t2) THEN Answer(FALSE)
                     ELSE AllIdentical(Types(t1), Types(t2), seen \union {pair})
AreTypeInfosIdentical(i1, i2) == AreIdenticalWithSeen(i1, i2, {}).same

-----------------------------------------------------------------------------
(* Values *)

JS(typeof, form) == [typeof |-> typeof, form |-> form, goType |-> <<>>, class |-> "", marked |-> FALSE, elems |-> <<>>,
                     keys |-> <<>>, inner |-> <<>>, methods |-> <<>>, fn |-> <<>>, dir |-> "both", typedNil |-> FALSE]
Null == JS("object", "null")
RECURSIVE ValueOf(_)
\* A non-nil value of a type as generated code holds it, one element in each
\* container: a pointer to a declared struct is the object itself, any other
\* pointer a VarRef; a struct value is a marked object.
ValueOf(t) ==
    LET u == Under(t)
    IN CASE u.kind = "basic" /\ u.name \in {"string", "bool"} -> JS(IF u.name = "bool" THEN "boolean" ELSE "string", "plain")
         [] u.kind = "basic" /\ u.name \in {"int64", "uint64"} -> JS("bigint", "plain")
         [] u.kind = "basic" /\ u.name \notin {"string", "bool", "int64", "uint64"} -> JS("number", "plain")
         [] u.kind = "slice" /\ u.elem[1] = Basic("uint8") -> JS("object", "bytes")
         [] u.kind \in {"slice", "array"} /\ u.elem[1] # Basic("uint8") -> [JS("object", "array") EXCEPT !.elems = <<ValueOf(u.elem[1])>>]
         [] u.kind = "map" -> [JS("object", "map") EXCEPT !.keys = <<ValueOf(u.key[1])>>, !.elems = <<ValueOf(u.elem[1])>>]
         [] u.kind = "channel" -> [JS("object", "channel") EXCEPT !.dir = u.dir]
         [] u.kind = "function" -> [JS("function", "plain") EXCEPT !.fn = <<InfoOf(t, {})>>]
         [] u.kind = "struct" -> [JS("object", "struct") EXCEPT !.class = t.name, !.marked = TRUE,
                                      !.keys = [i \in DOMAIN u.fields |-> u.fields[i].name],
                                      !.elems = [i \in DOMAIN u.fields |-> IF Nilable(u.fields[i].type) THEN Null ELSE ValueOf(u.fields[i].type)],
                                      !.methods = MethodsOf(t)]
         [] u.kind = "pointer" /\ u.elem[1].kind = "ref" /\ Under(u.elem[1]).kind = "struct" -> [ValueOf(u.elem[1]) EXCEPT !.marked = FALSE]
         [] u.kind = "pointer" /\ ~(u.elem[1].kind = "ref" /\ Under(u.elem[1]).kind = "struct") ->
                [JS("object", "ref") EXCEPT !.inner = <<ValueOf(u.elem[1])>>]
         [] OTHER -> Null

\* typedNil, and interfaceValue on nil: a nil pointer to a registered struct
\* answers to the methods of the struct, with rest parameters.
TypedNil(t) ==
    LET e == IF t.kind = "pointer" THEN t.elem[1] ELSE Null
        methods == IF t.kind = "pointer" /\ e.kind = "ref" /\ e.name \in DOMAIN Registry /\ Last(Registry[e.name]).ctor
                   THEN Last(Registry[e.name]).methods ELSE <<>>
    IN [JS("object", "nil") EXCEPT !.goType = <<t>>, !.typedNil = TRUE,
            !.methods = [i \in DOMAIN methods |-> Method(methods[i].name, <<>>, methods[i].returns)]]
InterfaceValue(v, t) == CASE v = Null -> TypedNil(t)
                          [] v.typeof = "object" /\ v # Null -> [v EXCEPT !.goType = <<t>>]
                          [] OTHER -> v
\* A box's methods take rest parameters and carry the signature that the
\* descriptor of the type gives them, when it gives one.
NamedValueInterfaceValue(v, t) ==
    LET info == NormalizeTypeInfo(InfoOf(t, {}))
        Signature(m) == CASE info.kind = "function" -> <<Method(m.name, info.params, info.results)>>
                          [] info.kind \in {"struct", "interface"} -> SelectSeq(info.methods, LAMBDA s : s.name = m.name)
                          [] OTHER -> <<>>
        ms == MethodsOf(IF t.kind = "pointer" THEN t.elem[1] ELSE t)
    IN [JS("object", "box") EXCEPT !.goType = <<t>>, !.inner = <<v>>,
            !.methods = [i \in DOMAIN ms |-> [name |-> ms[i].name, args |-> <<>>, returns |-> <<>>, wraps |-> Signature(ms[i])]]]
\* lowerValueForTargetTypes, when the target is an interface.
Box(v, t) ==
    LET u == Under(t)
        HasWrapper == LET named == IF t.kind = "pointer" THEN t.elem[1] ELSE t
                      IN Under(named).kind # "struct" /\ MethodsOf(named) # <<>>
    IN CASE t.kind = "basic" /\ t.name \notin {"string", "bool"} -> NamedValueInterfaceValue(v, t)
         [] u.kind = "struct" -> InterfaceValue(v, t)
         [] u.kind # "struct" /\ HasWrapper -> NamedValueInterfaceValue(v, t)
         [] Nilable(t) /\ ~HasWrapper -> InterfaceValue(v, t)
         [] OTHER -> v

-----------------------------------------------------------------------------
(* Does the value have the type? *)

RECURSIVE CompareTypeString(_, _)
RECURSIVE MatchesType(_, _)
Names(s, info) == s.kind \in {"basic", "ref"} /\ s.name = TypeInfoRuntimeName(info)
\* The fields of an anonymous struct type, as its type string gives them.
SameFields(s, info) ==
    /\ info.kind = "struct" /\ s.fields # <<>> /\ Len(s.fields) = Len(info.fields)
    /\ \A i \in DOMAIN info.fields : \E j \in DOMAIN s.fields :
         LET f == NormalizeTypeInfo(info.fields[i].type)
         IN /\ s.fields[j].name = info.fields[i].name
            /\ f.kind = "basic" => /\ f.name \in {"string", "int"}
                                   /\ s.fields[j].type = Basic(f.name)
CompareTypeString(s, i) ==
    LET info == NormalizeTypeInfo(i)
        SameElem == s.kind = info.kind /\ CompareTypeString(s.elem[1], info.elem[1])
        IntLike == {"uint8", "int32", "int8", "int16", "int64", "uint", "uint16", "uint32", "uint64", "uintptr"}
    IN Names(s, info) \/
       CASE info.kind = "pointer" ->
                /\ s.kind = "pointer"
                /\ CASE s.elem[1].kind = "struct" -> SameFields(s.elem[1], NormalizeTypeInfo(info.elem[1]))
                     [] s.elem[1].kind # "struct" /\ info.elem[1].kind = "ref" -> s.elem[1] = info.elem[1]
                     [] OTHER -> CompareTypeString(s.elem[1], info.elem[1])
         [] info.kind = "slice" -> SameElem
         [] info.kind = "array" -> SameElem /\ s.len = info.len
         [] info.kind = "basic" -> TypeInfoRuntimeName(info) = "int" /\ s.kind = "basic" /\ s.name \in IntLike
         [] OTHER -> FALSE
GoTypeMatches(v, info) == v.goType # <<>> /\ CompareTypeString(v.goType[1], info)

MatchesBasicType(v, info) ==
    CASE info.name = "string" -> v.typeof = "string"
      [] info.name \in {"int64", "uint64"} -> v.typeof = "bigint"
      [] info.name \in {"int", "int8", "int16", "int32", "uint", "uintptr", "uint8", "uint16", "uint32", "float32", "float64"} ->
             v.typeof = "number"
      [] info.name = "bool" -> v.typeof = "boolean"
      [] OTHER -> FALSE
MatchesStructTypeUnmarked(v, info) == info.ctor /\ v.class = info.name /\ v.form = "struct"
\* An instance of a generated class keeps its fields under one property, so it
\* never has the properties of an anonymous struct.
MatchesStructType(v, info) ==
    IF info.ctor THEN v.class = info.name /\ v.form = "struct" /\ v.marked
    ELSE /\ v.form = "struct" /\ v.class = "" /\ Len(v.keys) = Len(info.fields)
         /\ \A i \in DOMAIN info.fields : \E j \in DOMAIN v.keys :
              v.keys[j] = info.fields[i].name /\ MatchesType(v.elems[j], NormalizeTypeInfo(info.fields[i].type))
Wraps(m) == IF "wraps" \in DOMAIN m THEN m.wraps ELSE <<>>
SignaturesMatch(a, r) == Len(a.args) = Len(r.args) /\ Len(a.returns) = Len(r.returns)
MatchesInterfaceType(v, info) ==
    LET target == IF v.form = "ref" THEN v.inner[1] ELSE v
    IN \/ info.methods = <<>>
       \/ /\ v.typeof = "object" /\ target.typeof \in {"object", "function"}
          /\ \A i \in DOMAIN info.methods : \E j \in DOMAIN target.methods :
               LET r == info.methods[i]
                   m == target.methods[j]
               IN /\ m.name = r.name
                  /\ Len(m.args) < Len(r.args) => Wraps(m) # <<>>
                  /\ Wraps(m) # <<>> => SignaturesMatch(Wraps(m)[1], r)
\* A property name that is a number passes for a string and for a number.
Index == JS("index", "plain")
ValidateMapKey(k, info) == /\ info.kind = "basic"
                           /\ CASE info.name = "string" -> k.typeof \in {"string", "index"}
                                [] info.name \in {"int", "float64"} -> k.typeof \in {"number", "index"}
                                [] OTHER -> FALSE
\* The entries of a Map, or of any other object: elements under their indices,
\* else properties that have not one type.  The code samples the first five;
\* the values here have fewer.
MatchesMapType(v, info) ==
    LET elems == IF v.form = "bytes" THEN <<JS("number", "plain")>> ELSE v.elems
        keys == IF v.form = "map" THEN v.keys ELSE [i \in DOMAIN elems |-> Index]
    IN /\ v.form \in {"map", "array", "bytes"}
       /\ \A i \in DOMAIN elems : /\ ValidateMapKey(keys[i], NormalizeTypeInfo(info.key[1]))
                                  /\ MatchesType(elems[i], NormalizeTypeInfo(info.elem[1]))
MatchesArrayOrSliceType(v, info) ==
    LET elem == NormalizeTypeInfo(info.elem[1])
    IN CASE v.form = "bytes" -> (info.kind = "array" => info.len = 1) /\ elem.kind = "basic" /\ elem.name \in {"int", "uint", "uint8", "float64"}
         [] v.form = "array" -> \A i \in DOMAIN v.elems : MatchesType(v.elems[i], elem)
         [] OTHER -> FALSE
MatchesPointerType(v, info) ==
    LET elem == info.elem[1]
        name == TypeInfoRuntimeName(elem)
    IN /\ v.typeof = "object"
       /\ IF v.goType # <<>> THEN CompareTypeString(v.goType[1], info)
          ELSE /\ elem.name # ""
               /\ IF v.form = "ref" THEN MatchesType(v.inner[1], NormalizeTypeInfo(elem))
                  ELSE /\ name \in DOMAIN Registry /\ Last(Registry[name]).ctor
                       /\ v.class = name /\ v.form = "struct" /\ ~v.marked
MatchesFunctionType(v, info) == v.typeof = "function" /\ v.fn # <<>> /\ AreTypeInfosIdentical(v.fn[1], info)
MatchesChannelType(v, info) == v.form = "channel" /\ v.dir = info.dir
MatchesType(v, info) ==
    /\ v # Null
    /\ \/ v.typeof = "object" /\ GoTypeMatches(v, info)
       \/ CASE info.kind = "basic" -> MatchesBasicType(v, info)
            [] info.kind = "struct" -> MatchesStructType(v, info)
            [] info.kind = "interface" -> MatchesInterfaceType(v, info)
            [] info.kind = "map" -> MatchesMapType(v, info)
            [] info.kind \in {"slice", "array"} -> MatchesArrayOrSliceType(v, info)
            [] info.kind = "pointer" -> MatchesPointerType(v, info)
            [] info.kind = "function" -> MatchesFunctionType(v, info)
            [] info.kind = "channel" -> MatchesChannelType(v, info)
            [] OTHER -> FALSE

\* typeAssert: whether the assertion succeeds, and with what.  A descriptor by
\* name also tries the other registrations of the name.
Ok(v) == [ok |-> TRUE, value |-> v]
Failed == [ok |-> FALSE, value |-> Null]
TypeAssert(v, i) ==
    LET info == NormalizeTypeInfo(i)
        others == IF i.kind = "ref" /\ i.name \in DOMAIN Registry THEN Front(Registry[i.name]) ELSE <<>>
    IN CASE v.typedNil ->
                IF info.kind = "interface" /\ MatchesInterfaceType(v, info) THEN Ok(v)
                ELSE IF info.kind = "pointer" /\ CompareTypeString(v.goType[1], info) THEN Ok(Null) ELSE Failed
         [] ~v.typedNil /\ v.typeof = "object" /\ v # Null /\ GoTypeMatches(v, info) -> Ok(IF v.form = "box" THEN v.inner[1] ELSE v)
         [] OTHER -> IF MatchesType(v, info) \/ \E k \in DOMAIN others : MatchesType(v, others[k]) THEN Ok(v) ELSE Failed
Is(v, i) == MatchesType(v, NormalizeTypeInfo(i))
\* typeSwitch: the number of the first case that takes the value, 0 for default.
TypeSwitch(v, cases) ==
    LET Takes(c) == IF Len(c) > 1 THEN \E i \in DOMAIN c : Is(v, c[i]) ELSE TypeAssert(v, c[1]).ok
        taken == {n \in DOMAIN cases : Takes(cases[n])}
    IN IF taken = {} THEN 0 ELSE CHOOSE n \in taken : \A m \in taken : n <= m

-----------------------------------------------------------------------------
\* Go's rules.
GoIdentical(t, u) ==
    \/ t = u
    \/ /\ t.kind = "interface" /\ u.kind = "interface"
       /\ {t.methods[i] : i \in DOMAIN t.methods} = {u.methods[i] : i \in DOMAIN u.methods}
\* Every method has a value receiver, so a pointer has the methods of its struct.
MethodSet(t) == LET ms == IF t.kind = "pointer" THEN MethodsOf(t.elem[1]) ELSE MethodsOf(t) IN {ms[i] : i \in DOMAIN ms}
GoAsserts(t, u) == IF Under(u).kind = "interface" THEN {Under(u).methods[i] : i \in DOMAIN Under(u).methods} \subseteq MethodSet(t)
                   ELSE GoIdentical(t, u)

\* Two descriptors are identical exactly when the Go types are, recursive
\* function types and interfaces with their methods in another order included
\* (areTypeInfosIdentical).
IdentityPromise(t, u) == AreTypeInfosIdentical(InfoOf(t, {}), InfoOf(u, {})) = GoIdentical(t, u)

Held(t, isNil) == Box(IF isNil THEN Null ELSE ValueOf(t), t)
Asserts(v, u) == TypeAssert(v, InfoOf(u, {})).ok
\* The types for which the answer rests on a name: basic types other than int
\* as a target, declared structs and pointers to them, nil or not.
Nominal(t) == \/ t.kind = "basic" /\ t.name # "int"
              \/ t.kind = "ref" /\ Under(t).kind = "struct"
              \/ t.kind = "pointer" /\ t.elem[1].kind = "ref" /\ Under(t.elem[1]).kind = "struct"
NoParameters(u) == Under(u).kind = "interface" /\ \A i \in DOMAIN Under(u).methods : Under(u).methods[i].args = <<>>
\* x.(T) on a value that went into an interface: a value comes out as the type
\* it went in with, a nil pointer too; between nominal types, and to an interface
\* whose methods take no arguments, the answer is Go's; and a case that lists two
\* types takes a value exactly when one of two cases would.
AssertPromise(t, isNil, u) ==
    LET v == Held(t, isNil)
    IN /\ t = u /\ (isNil => t.kind = "pointer") /\ (t.kind = "map" => t.key[1].name \in {"string", "int", "float64"}) => Asserts(v, u)
       /\ Nominal(t) /\ (Nominal(u) \/ NoParameters(u)) => Asserts(v, u) = GoAsserts(t, u)
       /\ (isNil => t.kind = "pointer") =>
            LET i == InfoOf(u, {}) IN (TypeSwitch(v, <<<<i, Basic("bool")>>>>) = 1) = (TypeSwitch(v, <<<<i>>, <<Basic("bool")>>>>) # 0)
\* A nil value of any type comes out of an interface as the type it went in with.
NilAsserts(t, isNil) == isNil /\ Nilable(t) => Asserts(Held(t, isNil), t)

-----------------------------------------------------------------------------
(***************************************************************************)
(* The types of package reflect (gs/reflect/type.ts): the objects its API  *)
(* hands out for Go types, what each class of them answers, and the text   *)
(* keys by which internType keeps one object per type.                     *)
(*                                                                         *)
(* A Go type and its descriptor are those of the first part.  A type       *)
(* object is a record; two objects the API returned are one object when    *)
(* their keys are the same text.  A text is a sequence of words.  A named  *)
(* struct or function object is its name: internType keeps one object per  *)
(* name, so the fields and the signature are looked up by name.  Objects   *)
(* that getTypeOf makes and does not intern are left out, and so are the   *)
(* method lists that generic descriptors add to a type.                    *)
(***************************************************************************)

IntKinds == {"int", "int8", "int16", "int32", "int64"}
UintKinds == {"uint", "uint8", "uint16", "uint32", "uint64", "uintptr"}
FloatKinds == {"float32", "float64"}
ComplexKinds == {"complex64", "complex128"}
BasicKinds == IntKinds \union UintKinds \union FloatKinds \union ComplexKinds \union {"bool", "string"}

-----------------------------------------------------------------------------
(* The objects *)

Object(kind) == [kind |-> kind, name |-> "", elem |-> <<>>, key |-> <<>>, len |-> 0, dir |-> "both", fields |-> <<>>,
                 params |-> <<>>, results |-> <<>>, variadic |-> FALSE, methods |-> <<>>]
NamedObject(kind, n) == [Object(kind) EXCEPT !.name = n]
ObjectField(n, t, anonymous, offset) == [name |-> n, type |-> t, anonymous |-> anonymous, offset |-> offset]

\* basicTypeFromName: the kind a name stands for, byte included.
BasicTypeFromName(n, typeName) ==
    NamedObject(CASE n = "byte" -> "uint8"
                  [] n = "boolean" -> "bool"
                  [] n \notin {"byte", "boolean"} /\ n \in BasicKinds -> n
                  [] OTHER -> "invalid",
                IF typeName # "" THEN typeName ELSE n)

\* What an object answers to the methods of Type: <<>> stands for a panic.
Panicking == [text |-> <<>>, size |-> 8, comparable |-> TRUE, elem |-> <<>>, key |-> <<>>, len |-> <<>>, bits |-> <<>>,
              overflow |-> <<>>, in |-> <<>>, out |-> <<>>, fields |-> <<>>, pkg |-> ""]
Package(n) == IF n # "" /\ Declared(n) THEN "main" ELSE ""
InvalidType == [Panicking EXCEPT !.text = <<"<invalid>">>, !.size = 0, !.comparable = FALSE]
\* The width that OverflowInt, OverflowUint and OverflowFloat compare with, 64
\* where they never answer true.
BasicType(t) ==
    LET bits == CASE t.kind \in {"int8", "uint8"} -> 8
                  [] t.kind \in {"int16", "uint16"} -> 16
                  [] t.kind \in {"int32", "uint32", "float32"} -> 32
                  [] t.kind = "bool" -> 1
                  [] t.kind = "complex128" -> 128
                  [] OTHER -> 64
        size == CASE t.kind \in {"string", "complex128"} -> 16
                  [] t.kind = "bool" -> 1
                  [] t.kind \in BasicKinds \ {"string", "complex128", "bool"} -> bits \div 8
                  [] OTHER -> 8
    IN [Panicking EXCEPT !.text = <<t.name>>, !.size = size, !.pkg = Package(t.name),
            !.bits = IF t.kind \in BasicKinds \ {"string"} THEN <<bits>> ELSE <<>>,
            !.overflow = IF t.kind \in IntKinds \union UintKinds \union FloatKinds THEN <<bits>> ELSE <<>>]
RECURSIVE TypeInfoString(_)
RECURSIVE InterfaceTypeString(_)
\* The text of a descriptor inside a method: a channel's direction and the dots of
\* a variadic function are not part of it.
TypeInfoString(i) ==
    LET Words(s) == FlattenSeq([k \in DOMAIN s |-> TypeInfoString(s[k]) \o <<",">>])
    IN CASE TypeInfoRuntimeName(i) # "" -> <<TypeInfoRuntimeName(i)>>
         [] i.kind = "interface" -> InterfaceTypeString(i.methods)
         [] i.kind = "struct" -> <<"struct {">> \o FlattenSeq([k \in DOMAIN i.fields |-> <<i.fields[k].name>> \o TypeInfoString(i.fields[k].type)])
                                 \o <<"}">>
         [] i.kind = "function" -> <<"func(">> \o Words(i.params) \o <<")">> \o Words(i.results)
         [] i.kind = "array" -> <<"[", ToString(i.len), "]">> \o Words(i.elem)
         [] OTHER -> <<i.kind>> \o Words(i.key) \o Words(i.elem)
InterfaceTypeString(ms) ==
    LET Words(s) == FlattenSeq([k \in DOMAIN s |-> TypeInfoString(s[k]) \o <<",">>])
    IN IF ms = <<>> THEN <<"interface{}">>
       ELSE <<"interface {">> \o FlattenSeq([k \in DOMAIN ms |-> <<ms[k].name, "(">> \o Words(ms[k].args) \o <<")">> \o Words(ms[k].returns)]) \o <<"}">>
InterfaceType(t) == [Panicking EXCEPT !.size = 16, !.text = InterfaceTypeString(t.methods)]

AlignOffset(offset, alignment) == IF alignment <= 1 THEN offset ELSE ((offset + alignment - 1) \div alignment) * alignment

RECURSIVE TypeFromTypeInfo(_)
StructFieldsFromTypeInfo(info) ==
    [i \in DOMAIN info.fields |-> ObjectField(info.fields[i].name, TypeFromTypeInfo(info.fields[i].type), FALSE, 0)]
\* typeFromTypeInfoWithSeen and typeFromStructuredTypeInfoWithSeen: a descriptor
\* by name is that of the registry, else the name of a basic type.
TypeFromTypeInfo(info) ==
    LET Sub(s) == [i \in DOMAIN s |-> TypeFromTypeInfo(s[i])]
    IN CASE info.kind = "ref" /\ info.name \in DOMAIN Registry -> TypeFromTypeInfo(Last(Registry[info.name]))
         [] info.kind = "ref" /\ info.name \notin DOMAIN Registry -> BasicTypeFromName(info.name, "")
         [] info.kind = "basic" -> BasicTypeFromName(info.name, info.typeName)
         [] info.kind = "struct" /\ info.name # "" -> NamedObject("struct", info.name)
         [] info.kind = "struct" /\ info.name = "" ->
                [Object("struct") EXCEPT !.fields = StructFieldsFromTypeInfo(info)]
         [] info.kind = "interface" -> [Object("interface") EXCEPT !.methods = info.methods]
         [] info.kind = "function" /\ info.name # "" -> NamedObject("func", info.name)
         [] info.kind = "function" /\ info.name = "" ->
                [Object("func") EXCEPT !.params = Sub(info.params), !.results = Sub(info.results), !.variadic = info.variadic]
         [] OTHER -> [Object(info.kind) EXCEPT !.elem = Sub(info.elem), !.key = Sub(info.key), !.len = info.len, !.dir = info.dir]

RECURSIVE Answers(_)
RECURSIVE TypeAlignment(_)
FieldsOf(t) == IF t.name # "" /\ t.name \in DOMAIN Registry THEN StructFieldsFromTypeInfo(Last(Registry[t.name])) ELSE t.fields
TypeAlignment(t) ==
    CASE t.kind \in {"bool", "int8", "uint8"} -> 1
      [] t.kind \in {"int16", "uint16"} -> 2
      [] t.kind \in {"int32", "uint32", "float32", "complex64"} -> 4
      [] t.kind = "array" -> TypeAlignment(t.elem[1])
      [] t.kind = "struct" -> Max({1} \union {TypeAlignment(FieldsOf(t)[i].type) : i \in DOMAIN FieldsOf(t)})
      [] OTHER -> 8
StructDescriptorSizeUnpadded(fs) == Max({0} \union {fs[i].offset + Answers(fs[i].type).size : i \in DOMAIN fs})
StructDescriptorSize(fs) ==
    AlignOffset(Max({0} \union {fs[i].offset + Answers(fs[i].type).size : i \in DOMAIN fs}),
                Max({1} \union {TypeAlignment(fs[i].type) : i \in DOMAIN fs}))
\* The offsets a run of fields gets, one after the other (StructOf; the compiler
\* writes the same ones into the descriptor of a declared struct).
Layout(types) ==
    FoldLeft(LAMBDA offsets, i : Append(offsets, AlignOffset(
                 IF i = 1 THEN 0 ELSE offsets[i - 1] + Answers(types[i - 1]).size, TypeAlignment(types[i]))),
             <<>>, [i \in DOMAIN types |-> i])
LaidOut(fs) == LET offsets == Layout([i \in DOMAIN fs |-> fs[i].type]) IN [i \in DOMAIN fs |-> [fs[i] EXCEPT !.offset = offsets[i]]]

SliceType(t) == [Panicking EXCEPT !.text = <<"[]">> \o Answers(t.elem[1]).text, !.size = 24, !.comparable = FALSE, !.elem = t.elem]
ArrayType(t) == LET e == Answers(t.elem[1])
                IN [Panicking EXCEPT !.text = <<"[", ToString(t.len), "]">> \o e.text, !.size = e.size * t.len,
                        !.comparable = e.comparable, !.elem = t.elem, !.len = <<t.len>>]
PointerType(t) == [Panicking EXCEPT !.text = <<"*">> \o Answers(t.elem[1]).text, !.elem = t.elem]
ChannelType(t) == [Panicking EXCEPT !.elem = t.elem,
    !.text = <<CASE t.dir = "receive" -> "<-chan" [] t.dir = "send" -> "chan<-" [] OTHER -> "chan">> \o Answers(t.elem[1]).text]
MapType(t) == [Panicking EXCEPT !.text = <<"map[">> \o Answers(t.key[1]).text \o <<"]">> \o Answers(t.elem[1]).text,
                   !.comparable = FALSE, !.elem = t.elem, !.key = t.key]
FormatFunctionSignature(params, results, variadic) ==
    LET Word(i) == IF variadic /\ i = Len(params) THEN <<"...">> \o Tail(Answers(params[i]).text) ELSE Answers(params[i]).text
    IN <<"func(">> \o FlattenSeq([i \in DOMAIN params |-> Word(i) \o <<",">>]) \o <<")">>
                   \o FlattenSeq([i \in DOMAIN results |-> Answers(results[i]).text \o <<",">>])
Signature(t) == IF t.name # "" /\ Declared(t.name) THEN TypeFromTypeInfo([InfoOf(Named(t.name), {}) EXCEPT !.name = ""]) ELSE t
FunctionType(t) ==
    LET s == Signature(t)
    IN [Panicking EXCEPT !.comparable = FALSE, !.in = <<s.params>>, !.out = <<s.results>>, !.pkg = Package(t.name),
            !.text = IF t.name # "" THEN <<t.name>> ELSE FormatFunctionSignature(s.params, s.results, s.variadic)]
StructType(t) ==
    LET fs == LaidOut(FieldsOf(t))
    IN [Panicking EXCEPT !.size = StructDescriptorSize(fs), !.fields = <<fs>>, !.pkg = Package(t.name),
            !.comparable = \A i \in DOMAIN fs : Answers(fs[i].type).comparable,
            !.text = IF t.name # "" THEN <<t.name>>
                     ELSE <<"struct {">> \o FlattenSeq([i \in DOMAIN fs |-> (IF fs[i].anonymous THEN <<>> ELSE <<fs[i].name>>)
                                                                            \o Answers(fs[i].type).text]) \o <<"}">>]
Answers(t) == CASE t.kind = "slice" -> SliceType(t)
                [] t.kind = "array" -> ArrayType(t)
                [] t.kind = "pointer" -> PointerType(t)
                [] t.kind = "channel" -> ChannelType(t)
                [] t.kind = "map" -> MapType(t)
                [] t.kind = "func" -> FunctionType(t)
                [] t.kind = "struct" -> StructType(t)
                [] t.kind = "interface" /\ t.name = "" -> InterfaceType(t)
                [] t.kind = "none" -> InvalidType
                [] OTHER -> BasicType(t)

-----------------------------------------------------------------------------
(* One object per type *)

\* The types already met: the short form stands for one met before.
ShortKey(t) == <<t.kind, Answers(t).pkg, t.name>> \o Answers(t).text
RECURSIVE TypeIdentityKey(_, _)
RECURSIVE TypeIdentityKeys(_, _)
TypeIdentityKeys(ts, seen) ==
    IF ts = <<>> THEN [text |-> <<>>, seen |-> seen]
    ELSE LET first == TypeIdentityKey(ts[1], seen)
             rest == TypeIdentityKeys(Tail(ts), first.seen)
         IN [text |-> first.text \o <<",">> \o rest.text, seen |-> rest.seen]
Parts(t) == CASE t.kind \in {"array", "slice", "pointer", "channel"} -> t.elem
              [] t.kind = "map" -> t.key \o t.elem
              [] t.kind = "func" -> Answers(t).in[1] \o Answers(t).out[1]
              [] t.kind = "struct" -> [i \in DOMAIN FieldsOf(t) |-> FieldsOf(t)[i].type]
              [] OTHER -> <<>>
FieldWords(t) == FlattenSeq([i \in DOMAIN FieldsOf(t) |-> <<FieldsOf(t)[i].name, IF FieldsOf(t)[i].anonymous THEN "anonymous" ELSE "named">>])
FuncWords(t) == <<ToString(Signature(t).variadic), ToString(Len(Signature(t).params))>>
TypeIdentityKeyNameless(t, seen) ==
    LET parts == TypeIdentityKeys(Parts(t), seen \union {t})
    IN IF t.kind \in {"struct", "array", "map"} THEN [text |-> <<t.kind>> \o parts.text, seen |-> parts.seen]
       ELSE [text |-> ShortKey(t), seen |-> seen \union {t}]
TypeIdentityKey(t, seen) ==
    LET parts == TypeIdentityKeys(Parts(t), seen \union {t})
        Key(words) == [text |-> words \o parts.text, seen |-> parts.seen]
        Leaf(words) == [text |-> words, seen |-> seen \union {t}]
    IN CASE t \in seen -> Leaf(ShortKey(t))
         [] t \notin seen /\ t.kind \in {"struct", "func"} /\ t.name # "" -> Leaf(<<t.kind, "named", t.name>>)
         [] t \notin seen /\ t.kind = "struct" /\ t.name = "" -> Key(<<"struct">> \o FieldWords(t))
         [] t \notin seen /\ t.kind = "func" /\ t.name = "" -> Key(ShortKey(t) \o FuncWords(t))
         [] t \notin seen /\ t.kind = "array" -> Key(<<t.kind, ToString(t.len)>>)
         [] t \notin seen /\ t.kind = "map" -> Key(<<t.kind>>)
         [] t \notin seen /\ t.kind \in {"channel", "pointer", "slice"} -> Key(<<t.kind>> \o Answers(t).text)
         [] OTHER -> Leaf(ShortKey(t))
\* internType answers with the object first kept under the key.
InternKey(t) == TypeIdentityKey(t, {}).text
SameObject(t, u) == InternKey(t) = InternKey(u)

\* typeUnderlyingIdentityKey: a name counts only below the top.
TypeUnderlyingIdentityKey(t) ==
    LET parts == TypeIdentityKeys(Parts(t), {t}).text
    IN CASE t.kind = "struct" -> <<"struct">> \o FieldWords(t) \o parts
         [] t.kind = "array" -> <<"array", ToString(t.len)>> \o parts
         [] t.kind = "channel" -> <<"chan">> \o Answers(t).text \o parts
         [] t.kind \in {"pointer", "slice", "map"} -> <<t.kind>> \o parts
         [] t.kind = "func" -> <<"func">> \o FuncWords(t) \o parts
         [] t.kind = "interface" /\ t.name = "" -> <<"interface">> \o Answers(t).text
         [] OTHER -> <<"basic", t.kind>>
TypeIsNamed(t) == t.kind # "invalid" /\ t.name \notin {"", "interface{}"}

\* typeMethods: those of the registered type, for a pointer those of what it
\* points to, else what the object itself carries.
TypeMethods(t) ==
    LET n == IF t.kind = "pointer" THEN t.elem[1].name ELSE t.name
    IN CASE n # "" /\ n \in DOMAIN Registry -> Last(Registry[n]).methods
         [] n = "" /\ t.kind = "interface" -> t.methods
         [] OTHER -> <<>>
MethodSignatureIdentical(a, b) == a.args = b.args /\ a.returns = b.returns
TypeImplementsInterface(t, i) ==
    \A k \in DOMAIN TypeMethods(i) : LET required == TypeMethods(i)[k] IN
        \E m \in Range(TypeMethods(t)) : m.name = required.name /\ MethodSignatureIdentical(m, required)
TypeAssignableTo(t, u) ==
    \/ SameObject(t, u)
    \/ (~TypeIsNamed(t) \/ ~TypeIsNamed(u)) /\ TypeUnderlyingIdentityKey(t) = TypeUnderlyingIdentityKey(u)
    \/ u.kind = "interface" /\ TypeImplementsInterface(t, u)

-----------------------------------------------------------------------------
(* Descriptors of objects, and types the program builds *)

RECURSIVE TypeInfoFromReflectType(_)
\* A named object gives its name, a dynamic one a descriptor of its parts.
TypeInfoFromReflectType(t) ==
    LET Sub(s) == [i \in DOMAIN s |-> TypeInfoFromReflectType(s[i])]
    IN CASE Answers(t).pkg # "" -> Named(t.name)
         [] Answers(t).pkg = "" /\ t.kind \in BasicKinds -> Basic(t.name)
         [] t.kind = "interface" -> Interface(TypeMethods(t))
         [] t.kind = "struct" /\ Answers(t).pkg = "" ->
                Struct([i \in DOMAIN t.fields |-> Field(t.fields[i].name, TypeInfoFromReflectType(t.fields[i].type))])
         [] t.kind = "func" /\ Answers(t).pkg = "" -> [Function(Sub(t.params), Sub(t.results)) EXCEPT !.variadic = t.variadic]
         [] t.kind \in {"slice", "array", "pointer", "map", "channel"} ->
                [Type(t.kind) EXCEPT !.elem = Sub(t.elem), !.key = Sub(t.key), !.len = t.len, !.dir = t.dir]
         [] OTHER -> Named(t.name)

\* StructOf: "panic", or the object.  An exported name needs no package.
ValidStructOfField(f) == /\ f.name # ""
                         /\ f.anonymous => ~(f.type.kind = "pointer" /\ f.type.elem[1].kind \in {"pointer", "interface"})
                         /\ f.anonymous => TypeMethods(f.type) = <<>>
StructOf(fs) ==
    IF \/ \E i \in DOMAIN fs : ~ValidStructOfField(fs[i])
       \/ \E i, j \in DOMAIN fs : i < j /\ fs[i].name = fs[j].name /\ fs[i].name # "_"
    THEN Object("panic") ELSE [Object("struct") EXCEPT !.fields = LaidOut(fs)]
FuncOf(params, results, variadic) ==
    IF variadic /\ (params = <<>> \/ Last(params).kind # "slice") THEN Object("panic")
    ELSE [Object("func") EXCEPT !.params = params, !.results = results, !.variadic = variadic]

\* visibleStructFields: the fields of a struct and of the structs embedded in it,
\* in order; a field hides deeper ones of its name, two of one depth hide both.
\* The state is [fields, visiting]; a field hidden later loses its name.
VisibleField(f, index) == [name |-> f.name, label |-> f.name, index |-> index]
AddVisibleFirst(fields, f, index) ==
    IF \E i \in DOMAIN fields : fields[i].label = f.name THEN fields ELSE Append(fields, VisibleField(f, index))
AddVisible(fields, f, index) ==
    LET at == {i \in DOMAIN fields : fields[i].label = f.name}
        old == Max({0} \union at)
        Hide(i) == [fields EXCEPT ![i].name = ""]
    IN CASE at = {} -> Append(fields, VisibleField(f, index))
         [] at # {} /\ Len(index) = Len(fields[old].index) -> Hide(old)
         [] at # {} /\ Len(index) < Len(fields[old].index) -> Append(Hide(old), VisibleField(f, index))
         [] OTHER -> fields
RECURSIVE WalkVisible(_, _, _, _)
WalkVisible(t, index, fields, visiting) ==
    LET Step(acc, i) ==
            LET f == FieldsOf(t)[i]
                below == IF f.type.kind = "pointer" THEN f.type.elem[1] ELSE f.type
                added == AddVisible(acc, f, Append(index, i))
            IN IF f.anonymous /\ below.kind = "struct" THEN WalkVisible(below, Append(index, i), added, visiting \union {t}) ELSE added
    IN IF t \in visiting THEN fields ELSE FoldLeft(Step, fields, [i \in DOMAIN FieldsOf(t) |-> i])
VisibleStructFields(t) == SelectSeq(WalkVisible(t, <<>>, <<>>, {}), LAMBDA f : f.name # "")
TypeFieldByName(t, name) == LET found == SelectSeq(VisibleStructFields(t), LAMBDA f : f.name = name)
                            IN IF found = <<>> THEN <<>> ELSE found[1].index

\* reflectCallRawArgs: whether a call with arguments of these types goes
\* through, and how many of them arrive gathered in the last slice.
ReflectCallRawArgs(f, args, op) ==
    LET in == Answers(f).in[1]
        variadic == Signature(f).variadic
        fixed == Len(in) - 1
        Each(n) == \A i \in 1 .. n : TypeAssignableTo(args[i], in[i])
    IN CASE op = "CallSlice" -> [ok |-> variadic /\ Len(args) = Len(in) /\ Each(Len(in)), gathered |-> 0]
         [] op = "Call" /\ ~variadic -> [ok |-> Len(args) = Len(in) /\ Each(Len(in)), gathered |-> 0]
         [] OTHER -> [ok |-> /\ Len(args) >= fixed /\ Each(fixed)
                             /\ \A i \in fixed + 1 .. Len(args) : TypeAssignableTo(args[i], in[Len(in)].elem[1]),
                      gathered |-> Len(args) - fixed]

-----------------------------------------------------------------------------
\* Go's rules.
RECURSIVE GoSize(_)
RECURSIVE GoAlign(_)
GoAlign(t) ==
    LET u == Under(t)
    IN CASE u.kind = "basic" -> (CASE u.name \in {"bool", "int8", "uint8"} -> 1 [] u.name \in {"int16", "uint16"} -> 2
                                   [] u.name \in {"int32", "uint32", "float32", "complex64"} -> 4 [] OTHER -> 8)
         [] u.kind = "array" -> GoAlign(u.elem[1])
         [] u.kind = "struct" -> Max({1} \union {GoAlign(u.fields[i].type) : i \in DOMAIN u.fields})
         [] OTHER -> 8
\* The least end of a struct whose fields keep their order and alignment.
GoSize(t) ==
    LET u == Under(t)
        RoundUp(n, a) == CHOOSE m \in n .. n + a - 1 : m % a = 0
    IN CASE u.kind = "basic" -> (CASE u.name \in {"string", "complex128"} -> 16 [] u.name \in {"complex64"} -> 8 [] OTHER -> GoAlign(u))
         [] u.kind = "slice" -> 24
         [] u.kind = "interface" -> 16
         [] u.kind = "array" -> u.len * GoSize(u.elem[1])
         [] u.kind = "struct" ->
                RoundUp(FoldLeft(LAMBDA n, f : RoundUp(n, GoAlign(f.type)) + GoSize(f.type), 0, u.fields), GoAlign(u))
         [] OTHER -> 8
RECURSIVE GoComparable(_)
GoComparable(t) == LET u == Under(t)
                   IN /\ u.kind \notin {"slice", "map", "function"}
                      /\ u.kind = "array" => GoComparable(u.elem[1])
                      /\ u.kind = "struct" => \A i \in DOMAIN u.fields : GoComparable(u.fields[i].type)
GoAssignable(t, u) == \/ GoIdentical(t, u)
                      \/ (\E n \in {t, u} : n.kind \notin {"ref", "basic"}) /\ GoIdentical(Under(t), Under(u))
                      \/ /\ Under(u).kind = "interface"
                         /\ Range(Under(u).methods) \subseteq MethodSet(t) \union (IF Under(t).kind = "interface" THEN Range(Under(t).methods) ELSE {})
RECURSIVE Mentions(_, _)
\* Some part of the type is of the set.
Mentions(t, S) == t \in S \/ \E p \in Range(t.elem \o t.key \o t.params \o t.results \o [i \in DOMAIN t.fields |-> t.fields[i].type]) : Mentions(p, S)
DeclaredOf(kinds) == {Named(Declarations[i].name) : i \in {j \in DOMAIN Declarations : Declarations[j].under.kind \in kinds}}

ReflectType(t) == TypeFromTypeInfo(InfoOf(t, {}))
\* What a type object answers: it panics for the kinds the comments of Type name
\* and for no other, its size and comparability are Go's, and the descriptor made
\* of it leads back to the same object.
TypePromise(t) ==
    LET o == ReflectType(t)
        a == Answers(o)
    IN ~Mentions(t, DeclaredOf({"slice", "map", "channel", "pointer", "array"})) =>
           /\ a.elem # <<>> <=> o.kind \in {"array", "channel", "map", "pointer", "slice"}
           /\ a.key # <<>> <=> o.kind = "map"
           /\ a.len # <<>> <=> o.kind = "array"
           /\ a.in # <<>> <=> o.kind = "func"
           /\ a.overflow # <<>> <=> o.kind \in IntKinds \union UintKinds \union FloatKinds
           /\ a.size = GoSize(t) /\ a.comparable = GoComparable(t)
           /\ ~Mentions(t, DeclaredOf({"basic", "function"})) => SameObject(TypeFromTypeInfo(TypeInfoFromReflectType(o)), o)
\* Two types are one object exactly when Go says they are identical, and one is
\* assignable to the other exactly when Go says so.  Declared interfaces, which
\* pass for the interface they are declared as, are left out of the first; declared
\* slices and the like, and methods of declared basic types, of the second.
IdenticalPromise(t, u) ==
    LET interfaces == DeclaredOf({"interface"})
        unclear == DeclaredOf({"slice", "map", "channel", "pointer", "array", "basic", "function"})
    IN /\ ~Mentions(t, interfaces) /\ ~Mentions(u, interfaces) => SameObject(ReflectType(t), ReflectType(u)) = GoIdentical(t, u)
       /\ ~Mentions(t, unclear) /\ ~Mentions(u, unclear) /\ Under(t).kind # "channel" =>
              TypeAssignableTo(ReflectType(t), ReflectType(u)) = GoAssignable(t, u)
\* A type built at run time is the type a declaration would give, StructOf and
\* FuncOf refuse what Go refuses, and a call through reflection goes through
\* exactly when every argument is assignable to the parameter that receives it,
\* a variadic one gathering the rest (StructOf, FuncOf, reflectCallRawArgs).
BuiltPromise(names, params, variadic, args) ==
    LET objects == [i \in DOMAIN params |-> ReflectType(params[i])]
        struct  == StructOf([i \in DOMAIN params |-> ObjectField(names[i], objects[i], FALSE, 0)])
        f       == FuncOf(objects, <<>>, variadic)
        n       == Len(params)
        fixed   == IF variadic THEN n - 1 ELSE n
        Receiver(i) == IF i <= fixed THEN params[i] ELSE params[n].elem[1]
        Call(op) == ReflectCallRawArgs(f, [i \in DOMAIN args |-> ReflectType(args[i])], op)
    IN /\ IF \E i, j \in DOMAIN params : i < j /\ names[i] = names[j] THEN struct.kind = "panic"
          ELSE SameObject(struct, ReflectType(Struct([i \in DOMAIN params |-> Field(names[i], params[i])])))
       /\ f.kind = "panic" <=> variadic /\ (n = 0 \/ params[n].kind # "slice")
       /\ f.kind # "panic" =>
            /\ SameObject(f, ReflectType([Function(params, <<>>) EXCEPT !.variadic = variadic]))
            /\ Call("Call").ok <=> /\ Len(args) = fixed \/ (variadic /\ Len(args) > fixed)
                                   /\ \A i \in DOMAIN args : GoAssignable(args[i], Receiver(i))
            /\ Call("CallSlice").ok <=> /\ variadic /\ Len(args) = n
                                        /\ \A i \in DOMAIN args : GoAssignable(args[i], params[i])
            /\ variadic /\ Call("Call").ok => Call("Call").gathered = Len(args) - fixed
\* Promotion: a name selects the one field of that name at the least depth, none
\* when that depth has two (Type.FieldByName, VisibleFields).
RECURSIVE Selections(_, _)
Selections(t, name) ==
    UNION {LET f == FieldsOf(t)[i]
               below == IF f.type.kind = "pointer" THEN f.type.elem[1] ELSE f.type
           IN (IF f.name = name THEN {<<i>>} ELSE {})
              \union (IF f.anonymous /\ below.kind = "struct" THEN {<<i>> \o s : s \in Selections(below, name)} ELSE {}) : i \in DOMAIN FieldsOf(t)}
FieldPromise(t, name) ==
    LET all == Selections(t, name)
        shallow == {s \in all : \A r \in all : Len(s) <= Len(r)}
    IN TypeFieldByName(t, name) = IF Cardinality(shallow) = 1 THEN CHOOSE s \in shallow : TRUE ELSE <<>>

-----------------------------------------------------------------------------
(* DeepEqual *)

\* A value is a number, null, or a reference to an object of a heap: an array, a
\* Map, or an object with fields (a struct, or a VarRef with the one field value).
Num(v) == [form |-> "number", v |-> v]
NullValue == [form |-> "null", v |-> 0]
Ref(o) == [form |-> "ref", v |-> o]
HeapObject(form, type, keys, elems) == [form |-> form, type |-> type, keys |-> keys, elems |-> elems]
Entry(o, k) == o.elems[CHOOSE i \in DOMAIN o.keys : o.keys[i] = k]
SameShape(a, b) == /\ a.form = b.form
                   /\ Len(a.elems) = Len(b.elems)
                   /\ ToSet(a.keys) = ToSet(b.keys)
\* Object.keys answers nothing.
Bare(o) == o.form = "map" \/ o.elems = <<>>

RECURSIVE DeepEqual(_, _, _, _)
DeepEqualByReference(heap, x, y, depth) == IF x = y THEN "equal" ELSE "different"
\* The answer of DeepEqual on a heap, or "loop" when it has gone deeper than the
\* heap has pairs of objects.
DeepEqual(heap, x, y, depth) ==
    LET a == heap[x.v]
        b == heap[y.v]
        answers == [i \in DOMAIN a.elems |->
                       DeepEqual(heap, a.elems[i], IF a.form = "array" THEN b.elems[i] ELSE Entry(b, a.keys[i]), depth - 1)]
        unequal == {i \in DOMAIN answers : answers[i] # "equal"}
    IN CASE x = y -> "equal"
         [] x # y /\ (x.form # "ref" \/ y.form # "ref") -> "different"
         [] x # y /\ x.form = "ref" /\ y.form = "ref" ->
                IF depth = 0 THEN "loop"
                ELSE IF a.form # b.form THEN (IF Bare(a) /\ Bare(b) THEN "equal" ELSE "different")
                ELSE IF ~SameShape(a, b) THEN "different"
                ELSE IF unequal = {} THEN "equal" ELSE answers[Min(unequal)]

RECURSIVE GoDeepEqual(_, _, _, _)
\* Go's: values of one type, part by part, a pair met before taken as equal.
GoDeepEqual(heap, x, y, visited) ==
    LET a == heap[x.v]
        b == heap[y.v]
    IN \/ x = y
       \/ /\ x.form = "ref" /\ y.form = "ref"
          /\ \/ <<x, y>> \in visited
             \/ /\ a.type = b.type /\ SameShape(a, b)
                /\ \A i \in DOMAIN a.elems :
                     GoDeepEqual(heap, a.elems[i], IF a.form = "array" THEN b.elems[i] ELSE Entry(b, a.keys[i]), visited \union {<<x, y>>})
RECURSIVE Reaches(_, _, _)
Reaches(heap, x, n) == IF n = 0 \/ x.form # "ref" THEN {} ELSE {x.v} \union UNION {Reaches(heap, heap[x.v].elems[i], n - 1) : i \in DOMAIN heap[x.v].elems}
Acyclic(heap, x) == \A o \in Reaches(heap, x, Cardinality(DOMAIN heap)) :
                       \A i \in DOMAIN heap[o].elems : o \notin Reaches(heap, heap[o].elems[i], Cardinality(DOMAIN heap))
Depth(heap) == Cardinality(DOMAIN heap) * Cardinality(DOMAIN heap)
\* On data without cycles DeepEqual is Go's, when the form of an object
\* tells its type and no two empty objects differ in it.
DeepEqualPromise(heap, x, y) ==
    Acyclic(heap, x) /\ Acyclic(heap, y) /\ (\A o, p \in DOMAIN heap : (heap[o].type = heap[p].type) <=> (heap[o].form = heap[p].form))
        /\ (\A o, p \in DOMAIN heap : Bare(heap[o]) /\ Bare(heap[p]) => heap[o].form = heap[p].form)
        => (DeepEqual(heap, x, y, Depth(heap)) = "equal") = GoDeepEqual(heap, x, y, {})
\* "This ensures that DeepEqual terminates": it answers on any data.
DeepEqualAnswers(heap, x, y) == DeepEqual(heap, x, y, Depth(heap)) # "loop"
=============================================================================
