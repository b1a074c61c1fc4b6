------------------------------ MODULE SyncMap -------------------------------
(***************************************************************************)
(* sync.Map, sync.Pool and OnceFunc of gs/sync/sync.ts.                    *)
(*                                                                         *)
(* The body of every Map operation runs without an await between taking    *)
(* and giving back the map's RWMutex (module RWMutex), so a body is one    *)
(* step; CompareAndSwap takes no lock and is one step as well.  Range      *)
(* copies the entries in one step and then calls f, which may wait, for    *)
(* each of the copies.  Keys are compared with comparableEqual after ===:  *)
(* a key is an object id of an equality class, and a class of one id is a  *)
(* primitive.                                                              *)
(***************************************************************************)
EXTENDS Naturals, Sequences, FiniteSets, SequencesExt

CONSTANTS MapVals,   \* values stored
          MapOps,    \* bound: operations of the program
          SwapEqual  \* Swap may be given an equal key that is another object

ASSUME MapBounds == MapOps \in Nat /\ SwapEqual \in BOOLEAN

VARIABLES
  mapData, \* _data: the entries in insertion order
  goMap,   \* what a Go map would hold: class -> value
  mapRet,  \* the last operation's results: [js, go]
  rng,     \* the Range in progress: copied entries, what was visited
  mapOps,
  pool,    \* _pool
  held,    \* items the program has got from the pool and not put back
  once     \* the state of a function made by OnceFunc

mapVars == <<mapData, goMap, mapRet, rng, mapOps, pool, held, once>>

Keys == {<<"k", 1>>, <<"s", 1>>, <<"s", 2>>}
Class(k) == k[1]
Absent == [found |-> FALSE, val |-> "none"]
Found(v) == [found |-> TRUE, val |-> v]
NoRange == [on |-> FALSE, left |-> <<>>, seen |-> <<>>, stay |-> {}]

SyncMapInit ==
  /\ mapData = <<>> /\ goMap = [c \in {} |-> "none"]
  /\ mapRet = [js |-> Absent, go |-> Absent]
  /\ rng = NoRange /\ mapOps = 0
  /\ pool = <<>> /\ held = {}
  /\ once = [called |-> FALSE, panicked |-> FALSE, runs |-> 0, told |-> {}]

\* Mutant: an equal key that is another object is not found.
FindEntryIdentical(k) ==
  {i \in DOMAIN mapData : mapData[i].key = k}
\* findEntry: the entry of the key itself, else of the first equal key.
FindEntry(k) ==
  LET same  == {i \in DOMAIN mapData : mapData[i].key = k}
      equal == {i \in DOMAIN mapData : Class(mapData[i].key) = Class(k)}
  IN  IF same # {} THEN same
      ELSE {i \in equal : \A j \in equal : i <= j}

Entry(k) == CHOOSE i \in FindEntry(k) : TRUE
Lookup(k) == IF FindEntry(k) = {} THEN Absent ELSE Found(mapData[Entry(k)].val)
Put(k, v) == IF FindEntry(k) = {} THEN Append(mapData, [key |-> k, val |-> v])
             ELSE [mapData EXCEPT ![Entry(k)].val = v]
Without(k) == IF FindEntry(k) = {} THEN mapData ELSE RemoveAt(mapData, Entry(k))

GoLookup(c) == IF c \in DOMAIN goMap THEN Found(goMap[c]) ELSE Absent
GoPut(c, v) == [x \in DOMAIN goMap \cup {c} |-> IF x = c THEN v ELSE goMap[x]]
GoRemove(c) == [x \in DOMAIN goMap \ {c} |-> goMap[x]]

Operation(newData, newGo, js, go) ==
  /\ mapOps < MapOps /\ mapOps' = mapOps + 1
  /\ mapData' = newData /\ goMap' = newGo
  /\ mapRet' = [js |-> js, go |-> go]
  /\ rng' = IF rng.on
            THEN [rng EXCEPT !.stay = {c \in @ : c \in DOMAIN newGo}] ELSE rng
  /\ UNCHANGED <<pool, held, once>>

-----------------------------------------------------------------------------
Load(k) == Operation(mapData, goMap, Lookup(k), GoLookup(Class(k)))
MapStore(k, v) == Operation(Put(k, v), GoPut(Class(k), v), Absent, Absent)
Delete(k) == Operation(Without(k), GoRemove(Class(k)), Absent, Absent)
Clear == Operation(<<>>, [c \in {} |-> "none"], Absent, Absent)
LoadAndDelete(k) ==
  Operation(Without(k), GoRemove(Class(k)), Lookup(k), GoLookup(Class(k)))
LoadOrStore(k, v) ==
  Operation(IF Lookup(k).found THEN mapData ELSE Append(mapData, [key |-> k, val |-> v]),
            IF GoLookup(Class(k)).found THEN goMap ELSE GoPut(Class(k), v),
            IF Lookup(k).found THEN Lookup(k) ELSE [found |-> FALSE, val |-> v],
            IF GoLookup(Class(k)).found THEN GoLookup(Class(k))
            ELSE [found |-> FALSE, val |-> v])
\* Only an entry with an equal value is changed.
CompareAndSwap(k, old, v) ==
  LET js == Lookup(k) = Found(old)   go == GoLookup(Class(k)) = Found(old) IN
  Operation(IF js THEN Put(k, v) ELSE mapData,
            IF go THEN GoPut(Class(k), v) ELSE goMap,
            [found |-> js, val |-> "none"], [found |-> go, val |-> "none"])
CompareAndDelete(k, old) ==
  LET js == Lookup(k) = Found(old)   go == GoLookup(Class(k)) = Found(old) IN
  Operation(IF js THEN Without(k) ELSE mapData,
            IF go THEN GoRemove(Class(k)) ELSE goMap,
            [found |-> js, val |-> "none"], [found |-> go, val |-> "none"])
\* Swap asks the JavaScript map itself.
Swap(k, v) ==
  LET same == {i \in DOMAIN mapData : mapData[i].key = k}
      at == CHOOSE i \in same : TRUE
  IN
  /\ SwapEqual \/ same # {} \/ FindEntry(k) = {}
  /\ Operation(IF same = {} THEN Append(mapData, [key |-> k, val |-> v])
               ELSE [mapData EXCEPT ![at].val = v],
               GoPut(Class(k), v),
               IF same = {} THEN Absent ELSE Found(mapData[at].val),
               GoLookup(Class(k)))

-----------------------------------------------------------------------------
(* Range. *)
RangeBegin ==
  /\ ~rng.on /\ mapOps < MapOps
  /\ rng' = [on |-> TRUE, left |-> mapData, seen |-> <<>>, stay |-> DOMAIN goMap]
  /\ UNCHANGED <<mapData, goMap, mapRet, mapOps, pool, held, once>>

\* f is called with the next copy, whatever the map holds by now.
RangeVisit ==
  /\ rng.on /\ rng.left # <<>>
  /\ rng' = [rng EXCEPT !.left = Tail(@),
                        !.seen = Append(@, Class(Head(rng.left).key))]
  /\ UNCHANGED <<mapData, goMap, mapRet, mapOps, pool, held, once>>

\* All copies visited, or f answered false.
RangeEnd ==
  /\ rng.on /\ (rng.seen # <<>> \/ rng.left = <<>>)
  /\ rng' = NoRange
  /\ UNCHANGED <<mapData, goMap, mapRet, mapOps, pool, held, once>>

-----------------------------------------------------------------------------
(* Pool and OnceFunc: they share nothing with the map, so (bound) a behaviour
   uses them before it uses the map. *)
BeforeMap == mapOps = 0 /\ ~rng.on
PoolItems == {"i1", "i2"}
\* Mutant: the item stays in the pool.
PoolGetPeeks(new) ==
  /\ BeforeMap
  /\ IF pool # <<>> THEN pool' = pool /\ held' = held \cup {Last(pool)}
     ELSE pool' = pool /\ new \notin held /\ held' = held \cup {new}
  /\ UNCHANGED <<mapData, goMap, mapRet, rng, mapOps, once>>
\* Get: the item put last, else a new one.
PoolGet(new) ==
  /\ BeforeMap
  /\ IF pool # <<>> THEN pool' = Front(pool) /\ held' = held \cup {Last(pool)}
     ELSE pool' = pool /\ new \notin held /\ held' = held \cup {new}
  /\ UNCHANGED <<mapData, goMap, mapRet, rng, mapOps, once>>
PoolPut(x) ==
  /\ BeforeMap
  /\ x \in held
  /\ pool' = Append(pool, x) /\ held' = held \ {x}
  /\ UNCHANGED <<mapData, goMap, mapRet, rng, mapOps, once>>

\* Mutant: called is set only when f returns.
OnceCallLate(fails) ==
  /\ BeforeMap
  /\ once' = IF once.called
             THEN [once EXCEPT !.told = @ \cup {once.panicked}]
             ELSE [called |-> ~fails, panicked |-> fails, runs |-> once.runs + 1,
                   told |-> once.told \cup {fails}]
  /\ once.runs < 3
  /\ UNCHANGED <<mapData, goMap, mapRet, rng, mapOps, pool, held>>
\* A call of the function: f runs at the first, every other call returns or
\* throws as the first one did.
OnceCall(fails) ==
  /\ BeforeMap
  /\ once' = IF once.called
             THEN [once EXCEPT !.told = @ \cup {once.panicked}]
             ELSE [called |-> TRUE, panicked |-> fails, runs |-> once.runs + 1,
                   told |-> once.told \cup {fails}]
  /\ once.runs < 3
  /\ UNCHANGED <<mapData, goMap, mapRet, rng, mapOps, pool, held>>

SyncMapNext ==
  \/ \E k \in Keys :
       \/ Load(k) \/ Delete(k) \/ LoadAndDelete(k)
       \/ \E v \in MapVals : \/ MapStore(k, v) \/ LoadOrStore(k, v) \/ Swap(k, v)
                             \/ CompareAndDelete(k, v)
                             \/ \E old \in MapVals : CompareAndSwap(k, old, v)
  \/ Clear \/ RangeBegin \/ RangeVisit \/ RangeEnd
  \/ \E x \in PoolItems : PoolGet(x) \/ PoolPut(x)
  \/ \E b \in BOOLEAN : OnceCall(b)

SyncMapSpec == SyncMapInit /\ [][SyncMapNext]_mapVars

-----------------------------------------------------------------------------
\* The map holds one entry per equality class of keys, with the value of the
\* Go map, and every operation has answered what Go's would; a Range visits no
\* key twice, and by its end every key that was there all the time.  Unlike a
\* map, a pool never hands an item to two holders, and a OnceFunc has one
\* outcome.
SyncMapAgrees ==
  /\ mapRet.js = mapRet.go
  /\ Len(mapData) = Cardinality(DOMAIN goMap)
  /\ \A i \in DOMAIN mapData : GoLookup(Class(mapData[i].key)) = Found(mapData[i].val)
  /\ Cardinality(ToSet(rng.seen)) = Len(rng.seen)
  /\ rng.on /\ rng.left = <<>> => rng.stay \subseteq ToSet(rng.seen)
  /\ ToSet(pool) \cap held = {} /\ Cardinality(ToSet(pool)) = Len(pool)
  /\ once.runs <= 1 /\ Cardinality(once.told) <= 1
=============================================================================
