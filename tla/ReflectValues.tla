--------------------------- MODULE ReflectValues ---------------------------
(***************************************************************************)
(* reflect.Value (gs/reflect/type.ts, value.ts).  A Value                  *)
(* carries the value it was made with and, when it stands for a variable,  *)
(* the place of that variable: a VarRef (Elem, Index) or a struct field    *)
(* (Field).  Setters write both; MapIndex, SetMapIndex, Len and IsNil of a *)
(* map look at the place again, the other readers at the value.            *)
(*                                                                         *)
(* A program with one variable, a struct of three fields and a slice of    *)
(* two elements runs beside what Go prescribes for the same calls.         *)
(***************************************************************************)
EXTENDS Integers, Sequences, SequencesExt, FiniteSets, FiniteSetsExt, Functions

CONSTANTS Handles,        \* the Values the program holds
          ReflectCalls,   \* bound on the calls of a behaviour
          StaleSet        \* may Set take a Value whose variable was written since?
ASSUME ReflectBounds == StaleSet \in BOOLEAN

VARIABLES cells,     \* place |-> what the program's memory holds
          maps,      \* map object |-> its entries
          vals,      \* handle |-> Value
          goCells, goMaps,   \* the same, by Go's rules
          stale,     \* the Values whose variable was written past them
          reflectCalls

reflectVars == <<cells, maps, vals, goCells, goMaps, stale, reflectCalls>>

Places == {"n", "field", "m", "bytes", "s1", "s2"}
KindOf == [n |-> "int64", field |-> "string", m |-> "map", bytes |-> "slice", s1 |-> "int", s2 |-> "int"]
MapObjects == {"M1", "M2"}
MapKeys == {"k"}
Data == 0 .. 1
\* A word is a bigint or a number; anything else is a datum, 0 its zero value.
Word(v, big) == [v |-> v, big |-> big]
NilWord == Word(-1, FALSE)
MapRef(o) == Word(IF o = "M1" THEN 1 ELSE 2, FALSE)
MapOf(w) == IF w.v = 1 THEN {"M1"} ELSE IF w.v = 2 THEN {"M2"} ELSE {}

\* new Value(value, type, parentVarRef, parentStruct, fieldName)
Value(kind, value, at) == [kind |-> kind, value |-> value, at |-> at]
InvalidValue == Value("invalid", NilWord, "")
IsValid(v) == v.kind # "invalid"
CanSet(v) == IsValid(v)
CurrentValueKept(v) == v.value
CurrentValue(v) == IF v.at # "" THEN cells[v.at] ELSE v.value
\* Int, Uint, Float, Bool, String, Interface.
Read(v) == v.value

ZeroReflectValue(kind) == IF kind \in {"map", "pointer", "func", "chan"} THEN NilWord ELSE Word(0, FALSE)
SetterKinds == [SetInt |-> {"int", "int8", "int16", "int32", "int64"},
                SetUint |-> {"uint", "uint8", "uint16", "uint32", "uint64", "uintptr"},
                SetFloat |-> {"float32", "float64"}, SetComplex |-> {"complex64", "complex128"},
                SetBool |-> {"bool"}, SetString |-> {"string"}]
Stored(kind, x) == Word(x, kind \in {"int64", "uint64"})

-----------------------------------------------------------------------------
ReflectInit ==
    /\ cells = [p \in Places |-> IF KindOf[p] = "map" THEN NilWord ELSE Stored(KindOf[p], 0)]
    /\ maps = [o \in MapObjects |-> [k \in {} |-> 0]]
    /\ vals = [h \in Handles |-> InvalidValue]
    /\ goCells = [p \in Places |-> IF KindOf[p] = "map" THEN -1 ELSE 0]
    /\ goMaps = maps
    /\ stale = {}
    /\ reflectCalls = 0

ReflectCall == reflectCalls < ReflectCalls /\ reflectCalls' = reflectCalls + 1
Of(p) == {h \in Handles : vals[h].at = p}
WrittenPast(p) == stale' = stale \union Of(p)
Made(h) == stale' = stale \ {h}

\* storeValue, and the same three lines in every setter.
StoreValueKept(h, x) == /\ vals' = [vals EXCEPT ![h].value = x]
                        /\ UNCHANGED cells
StoreValue(h, x) == /\ vals' = [vals EXCEPT ![h].value = x]
                    /\ cells' = IF vals[h].at # "" THEN [cells EXCEPT ![vals[h].at] = x] ELSE cells
\* In Go a Value of a variable is that variable.
GoStore(h, x) ==
    /\ goCells' = IF vals[h].at # "" THEN [goCells EXCEPT ![vals[h].at] = x] ELSE goCells
    /\ stale' = (IF vals[h].at # "" THEN stale \union Of(vals[h].at) ELSE stale) \ {h}
GoRead(h) == IF vals[h].at # "" THEN goCells[vals[h].at] ELSE vals[h].value.v

\* The program assigns to a variable, or makes a map.
Assign(p, x) == /\ ReflectCall /\ KindOf[p] \notin {"map"}
                /\ cells' = [cells EXCEPT ![p] = Stored(KindOf[p], x)]
                /\ goCells' = [goCells EXCEPT ![p] = x]
                /\ WrittenPast(p)
                /\ UNCHANGED <<maps, vals, goMaps>>
AssignMap(o) == /\ ReflectCall
                /\ cells' = [cells EXCEPT !["m"] = MapRef(o)]
                /\ goCells' = [goCells EXCEPT !["m"] = MapRef(o).v]
                /\ WrittenPast("m")
                /\ UNCHANGED <<maps, vals, goMaps>>
\* Elem of a pointer, Field of a struct, Index of a slice.
At(h, p) == /\ ReflectCall
            /\ vals' = [vals EXCEPT ![h] = Value(KindOf[p], cells[p], p)]
            /\ Made(h)
            /\ UNCHANGED <<cells, maps, goCells, goMaps>>
\* ValueOf: a copy that has no place.
ValueOfWord(h, x) == /\ ReflectCall
                     /\ vals' = [vals EXCEPT ![h] = Value("int", Word(x, FALSE), "")]
                     /\ Made(h)
                     /\ UNCHANGED <<cells, maps, goCells, goMaps>>
\* SetInt, SetUint, SetFloat, SetComplex, SetBool, SetString.
SetBasic(h, setter, x) == /\ ReflectCall /\ CanSet(vals[h]) /\ vals[h].kind \in SetterKinds[setter]
                          /\ StoreValue(h, Stored(vals[h].kind, x))
                          /\ GoStore(h, x)
                          /\ UNCHANGED <<maps, goMaps>>
\* Set(x) stores the value x was made with; in Go, what the variable of x holds.
Set(h, g) == /\ ReflectCall /\ CanSet(vals[h]) /\ vals[g].kind = vals[h].kind
             /\ g \in stale => StaleSet
             /\ StoreValue(h, vals[g].value)
             /\ GoStore(h, GoRead(g))
             /\ UNCHANGED <<maps, goMaps>>
SetZero(h) == /\ ReflectCall /\ CanSet(vals[h])
              /\ StoreValue(h, ZeroReflectValue(vals[h].kind))
              /\ GoStore(h, ZeroReflectValue(vals[h].kind).v)
              /\ UNCHANGED <<maps, goMaps>>
\* SetBytes keeps the bytes in the Value only.
SetBytes(h, x) == /\ ReflectCall /\ CanSet(vals[h]) /\ vals[h].kind = "slice"
                  /\ vals' = [vals EXCEPT ![h].value = Word(x, FALSE)]
                  /\ GoStore(h, x)
                  /\ UNCHANGED <<cells, maps, goMaps>>
\* SetMapIndex on the map the place holds now; an invalid element deletes.
PutEntry(m, k, e) == IF e = -1 THEN Restrict(m, DOMAIN m \ {k}) ELSE [j \in DOMAIN m \union {k} |-> IF j = k THEN e ELSE m[j]]
SetMapIndex(h, k, e) ==
    /\ ReflectCall /\ CanSet(vals[h]) /\ vals[h].kind = "map"
    /\ \E o \in MapOf(CurrentValue(vals[h])) : maps' = [maps EXCEPT ![o] = PutEntry(@, k, e)]
    /\ goMaps' = IF vals[h].at = "" THEN goMaps
                 ELSE [o \in MapObjects |-> IF o \in MapOf([v |-> goCells[vals[h].at]]) THEN PutEntry(goMaps[o], k, e) ELSE goMaps[o]]
    /\ UNCHANGED <<cells, vals, goCells, stale>>
\* SetMapIndex panics: nothing changes.
SetMapIndexNil(h) == /\ ReflectCall /\ CanSet(vals[h]) /\ vals[h].kind = "map" /\ MapOf(CurrentValue(vals[h])) = {}
                     /\ UNCHANGED <<cells, maps, vals, goCells, goMaps, stale>>

ReflectNext ==
    \/ \E p \in Places, x \in Data : Assign(p, x)
    \/ \E o \in MapObjects : AssignMap(o)
    \/ \E h \in Handles :
         \/ \E p \in Places : At(h, p)
         \/ \E x \in Data : ValueOfWord(h, x) \/ SetBytes(h, x)
         \/ \E s \in DOMAIN SetterKinds, x \in Data : SetBasic(h, s, x)
         \/ \E g \in Handles : Set(h, g)
         \/ SetZero(h)
         \/ \E k \in MapKeys, e \in Data \union {-1} : SetMapIndex(h, k, e)
         \/ SetMapIndexNil(h)
ReflectSpec == ReflectInit /\ [][ReflectNext]_reflectVars

\* What a program writes through Values, in whatever order it made them and
\* whatever it assigned in between, is in the variables and maps where Go puts it,
\* and a Value reads what its variable holds until the variable is written past it
\* (storeValue, currentValue, Set); byte slices aside.
StoresArrive ==
    /\ \A p \in Places \ {"bytes"} : cells[p].v = goCells[p]
    /\ maps = goMaps
    /\ \A h \in Handles \ stale : vals[h].at \notin {"", "bytes"} => Read(vals[h]).v = GoRead(h)
\* A Value of a variable reads what the variable holds.
ReadsCurrent == \A h \in Handles : Read(vals[h]).v = GoRead(h)
\* Bytes set through a Value are in the variable.
BytesArrive == cells["bytes"].v = goCells["bytes"]
\* A 64-bit variable holds a bigint.
WordsKept == cells["n"].big
=============================================================================
