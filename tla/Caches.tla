------------------------------- MODULE Caches -------------------------------
(***************************************************************************)
(* The caches of src/lib/sql behind the query plan caches: LRUCache,       *)
(* LRUKCache, GDSCache, GDFSCache and RandomCache, one of them chosen by    *)
(* the rigid variable strategy, and SQLQueryCache on top, which serialises *)
(* set and try_get with a mutex and ignores a cache of capacity 0.         *)
(*                                                                         *)
(* LRUCache and RandomCache keep their items in a list, the others in a    *)
(* heap of which only the top is ever taken: a set here, with any maximal  *)
(* element as its top.  Costs divided by sizes are kept whole numbers by   *)
(* the factor Scale.                                                       *)
(***************************************************************************)
EXTENDS Integers, FiniteSets, Sequences, SequencesExt, FiniteSetsExt

CONSTANTS
  Keys,         \* the cached keys
  K,            \* LRUKCache's K
  Sizes, Costs, \* the sizes and costs given to set()
  Scale,        \* a multiple of every size
  Capacities,   \* the capacities of construction and of resize()
  MaxAccesses   \* bound on the calls of set, get, clear and resize

VARIABLES
  strategy,         \* the class of the cache
  _capacity,
  _map,             \* LRU, Random: position of every key in _list; heaps: the keys with a handle
  _list,            \* LRU, Random: the pairs, most recently used first for LRU
  _queue,           \* LRU-K, GDS, GDFS: the entries of the heap
  _inflation,       \* GDS, GDFS
  _access_counter,  \* the calls so far; LRU-K stamps its history with it
  fetched,          \* the value the last get() returned
  uses,             \* history: the accesses of every cached key since its insertion
  latest            \* history: the value of the latest set() of every key

cacheVars == <<strategy, _capacity, _map, _list, _queue, _inflation, _access_counter, fetched, uses, latest>>
Strategies == {"LRU", "LRUK", "GDS", "GDFS", "Random"}
ListBased == strategy \in {"LRU", "Random"}

Pair(key, value) == [key |-> key, value |-> value]
Without(f, key) == [k \in DOMAIN f \ {key} |-> f[k]]
With(f, key, value) == [k \in DOMAIN f \union {key} |-> IF k = key THEN value ELSE f[k]]

-----------------------------------------------------------------------------
(* LRUCache.  _map holds list iterators, which stay with their element: a   *)
(* key maps to its pair, wherever that is in the list.                      *)

LRUEvict(map, list) == [map |-> Without(map, list[Len(list)].key), list |-> Front(list)]

LRUSet(key, value) ==
  LET pushed == <<Pair(key, value)>> \o SelectSeq(_list, LAMBDA p : key \notin DOMAIN _map \/ p # _map[key])
      map == With(_map, key, Pair(key, value))
      after == IF Cardinality(DOMAIN map) > _capacity THEN LRUEvict(map, pushed)
                                                      ELSE [map |-> map, list |-> pushed]
  IN  /\ _map' = after.map /\ _list' = after.list
      /\ UNCHANGED <<_queue, _inflation>>

LRUGet(key) ==
  /\ _list' = <<_map[key]>> \o SelectSeq(_list, LAMBDA p : p # _map[key])
  /\ fetched' = _map[key].value
  /\ UNCHANGED <<_map, _queue, _inflation>>

RECURSIVE LRUShrink(_, _, _)
LRUShrink(map, list, capacity) ==
  IF Cardinality(DOMAIN map) <= capacity THEN [map |-> map, list |-> list]
  ELSE LRUShrink(LRUEvict(map, list).map, LRUEvict(map, list).list, capacity)

-----------------------------------------------------------------------------
(* RandomCache.  _map holds indexes into _list.                             *)

RandomSet(key, value) ==
  /\ IF key \in DOMAIN _map
     THEN _list' = [_list EXCEPT ![_map[key]].value = value] /\ UNCHANGED _map
     ELSE IF Len(_list) >= _capacity
     THEN \E index \in 1.._capacity :
            /\ _map' = With(Without(_map, _list[index].key), key, index)
            /\ _list' = [_list EXCEPT ![index] = Pair(key, value)]
     ELSE /\ _list' = Append(_list, Pair(key, value))
          /\ _map' = With(_map, key, Len(_list) + 1)
  /\ UNCHANGED <<_queue, _inflation>>

RandomGet(key) ==
  /\ fetched' = _list[_map[key]].value
  /\ UNCHANGED <<_map, _list, _queue, _inflation>>

\* The first pair goes, and every index moves down by one.
RandomEvict(map, list) ==
  LET left == Without(map, list[1].key)
  IN  [map |-> [k \in DOMAIN left |-> left[k] - 1], list |-> Tail(list)]

RECURSIVE RandomShrink(_, _, _)
RandomShrink(map, list, capacity) ==
  IF Len(list) <= capacity THEN [map |-> map, list |-> list]
  ELSE RandomShrink(RandomEvict(map, list).map, RandomEvict(map, list).list, capacity)

-----------------------------------------------------------------------------
(* The heaps.  EntryBelow is the entries' operator<: the top has nothing    *)
(* above it.                                                                *)

LRUKBelow(a, b) ==
  IF Len(a.history) # Len(b.history) THEN Len(a.history) > Len(b.history) ELSE a.history[1] > b.history[1]
GreedyBelow(a, b) == a.priority > b.priority
EntryBelow(a, b) == IF strategy = "LRUK" THEN LRUKBelow(a, b) ELSE GreedyBelow(a, b)

Tops(queue) == {top \in queue : \A e \in queue : ~EntryBelow(top, e)}
Entry(key) == CHOOSE e \in _queue : e.key = key

add_history_entry(history, counter) ==
  IF Len(history) < K THEN Append(history, counter)
  ELSE [i \in 1..K |-> IF i = K THEN counter ELSE history[i + 1]]

GDSPriority(inflation, cost, size) == inflation + (cost * Scale) \div size
GDFSPriority(inflation, frequency, size) == inflation + (frequency * Scale) \div size

\* set() on a cached key: the entry is changed in place and the heap updated.
LRUKUpdated(e, value) == [e EXCEPT !.value = value, !.history = add_history_entry(@, _access_counter + 1)]
GDSUpdated(e, value, cost, size) ==
  [e EXCEPT !.value = value, !.size = size, !.cost = cost, !.priority = GDSPriority(_inflation, cost, size)]

GDFSUpdated(e, value, size) ==
  [e EXCEPT !.value = value, !.size = size, !.frequency = @ + 1,
            !.priority = GDFSPriority(_inflation, e.frequency + 1, size)]
Updated(e, value, cost, size) ==
  CASE strategy = "LRUK" -> LRUKUpdated(e, value)
    [] strategy = "GDS" -> GDSUpdated(e, value, cost, size)
    [] strategy = "GDFS" -> GDFSUpdated(e, value, size)

\* get() of a cached key.
LRUKRead(e) == [e EXCEPT !.history = add_history_entry(@, _access_counter + 1)]
GDSRead(e) == [e EXCEPT !.priority = GDSPriority(_inflation, e.cost, e.size)]
GDFSRead(e) == [e EXCEPT !.frequency = @ + 1, !.priority = GDFSPriority(_inflation, e.frequency + 1, e.size)]
Read(e) == CASE strategy = "LRUK" -> LRUKRead(e) [] strategy = "GDS" -> GDSRead(e) [] strategy = "GDFS" -> GDFSRead(e)

\* A new entry, stamped or weighed with the inflation after an eviction.
NewEntry(key, value, cost, size, inflation) ==
  CASE strategy = "LRUK" -> [key |-> key, value |-> value, history |-> <<_access_counter + 1>>]
    [] strategy = "GDS" -> [key |-> key, value |-> value, cost |-> cost, size |-> size,
                            priority |-> GDSPriority(inflation, cost, size)]
    [] strategy = "GDFS" -> [key |-> key, value |-> value, frequency |-> 1, size |-> size,
                             priority |-> GDFSPriority(inflation, 1, size)]

\* _evict() sets the inflation to the priority of the entry it removes; LRU-K has none.
InflationAfter(top) == IF strategy = "LRUK" THEN _inflation ELSE top.priority
\* Mutant: an item is evicted only when the cache holds one too many.
HeapSetEvictsLate(key, value, cost, size) ==
  /\ IF key \in _map
     THEN /\ _queue' = (_queue \ {Entry(key)}) \union {Updated(Entry(key), value, cost, size)}
          /\ UNCHANGED <<_map, _inflation>>
     ELSE IF Cardinality(_queue) > _capacity
     THEN \E top \in Tops(_queue) :
            /\ _inflation' = InflationAfter(top)
            /\ _map' = (_map \ {top.key}) \union {key}
            /\ _queue' = (_queue \ {top}) \union {NewEntry(key, value, cost, size, InflationAfter(top))}
     ELSE /\ _map' = _map \union {key}
          /\ _queue' = _queue \union {NewEntry(key, value, cost, size, _inflation)}
          /\ UNCHANGED _inflation
  /\ UNCHANGED _list

HeapSet(key, value, cost, size) ==
  /\ IF key \in _map
     THEN /\ _queue' = (_queue \ {Entry(key)}) \union {Updated(Entry(key), value, cost, size)}
          /\ UNCHANGED <<_map, _inflation>>
     ELSE IF Cardinality(_queue) >= _capacity
     THEN \E top \in Tops(_queue) :
            /\ _inflation' = InflationAfter(top)
            /\ _map' = (_map \ {top.key}) \union {key}
            /\ _queue' = (_queue \ {top}) \union {NewEntry(key, value, cost, size, InflationAfter(top))}
     ELSE /\ _map' = _map \union {key}
          /\ _queue' = _queue \union {NewEntry(key, value, cost, size, _inflation)}
          /\ UNCHANGED _inflation
  /\ UNCHANGED _list

HeapGet(key) ==
  /\ fetched' = Entry(key).value
  /\ _queue' = (_queue \ {Entry(key)}) \union {Read(Entry(key))}
  /\ UNCHANGED <<_map, _list, _inflation>>

\* resize() pops tops until the rest fits: one pop at a time, each setting the inflation.
RECURSIVE HeapShrink(_, _, _, _)
HeapShrink(map, queue, inflation, capacity) ==
  IF Cardinality(queue) <= capacity THEN {<<map, queue, inflation>>}
  ELSE UNION {HeapShrink(map \ {top.key}, queue \ {top},
                         IF strategy = "LRUK" THEN inflation ELSE top.priority, capacity) : top \in Tops(queue)}

-----------------------------------------------------------------------------
(* SQLQueryCache: the calls, each whole under its mutex.                    *)

Accessed(key) == [k \in DOMAIN uses |-> IF k = key THEN Append(uses[k], _access_counter + 1) ELSE uses[k]]

\* The keys cached after a step; the history of the others is forgotten.
CachedNow == IF ListBased THEN DOMAIN _map ELSE _map
Cached(k) == k \in CachedNow

Bounded == _access_counter < MaxAccesses /\ _access_counter' = _access_counter + 1

set(key, value, cost, size) ==
  /\ Bounded /\ _capacity # 0
  /\ CASE strategy = "LRU" -> LRUSet(key, value)
       [] strategy = "Random" -> RandomSet(key, value)
       [] OTHER -> HeapSet(key, value, cost, size)
  /\ UNCHANGED <<strategy, _capacity, fetched>>
  /\ uses' = [k \in Keys |-> IF Cached(k)' THEN Accessed(key)[k] ELSE <<>>]
  /\ latest' = [latest EXCEPT ![key] = value]

try_get(key) ==
  /\ Bounded /\ _capacity # 0 /\ Cached(key)
  /\ CASE strategy = "LRU" -> LRUGet(key)
       [] strategy = "Random" -> RandomGet(key)
       [] OTHER -> HeapGet(key)
  /\ UNCHANGED <<strategy, _capacity, latest>>
  /\ uses' = Accessed(key)

clear_cache ==
  /\ Bounded
  /\ _map' = (IF ListBased THEN <<>> ELSE {}) /\ _list' = <<>> /\ _queue' = {}
  /\ UNCHANGED <<strategy, _capacity, _inflation, fetched, latest>>
  /\ uses' = [k \in Keys |-> <<>>]

resize_cache(capacity) ==
  /\ Bounded
  /\ CASE strategy = "LRU" ->
            /\ _map' = LRUShrink(_map, _list, capacity).map /\ _list' = LRUShrink(_map, _list, capacity).list
            /\ UNCHANGED <<_queue, _inflation>>
       [] strategy = "Random" ->
            /\ _map' = RandomShrink(_map, _list, capacity).map /\ _list' = RandomShrink(_map, _list, capacity).list
            /\ UNCHANGED <<_queue, _inflation>>
       [] OTHER ->
            /\ \E left \in HeapShrink(_map, _queue, _inflation, capacity) :
                 _map' = left[1] /\ _queue' = left[2] /\ _inflation' = left[3]
            /\ UNCHANGED _list
  /\ _capacity' = capacity
  /\ UNCHANGED <<strategy, fetched, latest>>
  /\ uses' = [k \in Keys |-> IF Cached(k)' THEN uses[k] ELSE <<>>]

InitCache ==
  /\ strategy \in Strategies /\ _capacity \in Capacities
  /\ _map = (IF ListBased THEN <<>> ELSE {}) /\ _list = <<>> /\ _queue = {}
  /\ _inflation = 0 /\ _access_counter = 0 /\ fetched = 0
  /\ uses = [k \in Keys |-> <<>>]
  /\ latest = [k \in Keys |-> 0]

\* A set() stores a value no other did: the number of the call.
SetAny == \E key \in Keys, cost \in Costs, size \in Sizes : set(key, _access_counter + 1, cost, size)
TryGetAny == \E key \in Keys : try_get(key)
ResizeAny == \E capacity \in Capacities : resize_cache(capacity)

NextCache == SetAny \/ TryGetAny \/ clear_cache \/ ResizeAny
CacheSpec == InitCache /\ [][NextCache]_cacheVars

-----------------------------------------------------------------------------
(* Properties                                                               *)

contents ==
  [k \in CachedNow |-> CASE strategy = "LRU" -> _map[k].value
                         [] strategy = "Random" -> _list[_map[k]].value
                         [] OTHER -> Entry(k).value]

Abstract == INSTANCE KeyValueCache WITH capacity <- _capacity, Values <- 1..MaxAccesses

\* Every strategy implements the abstract cache: get() returns the key's item, a set() evicts
\* exactly one item and only from a full cache, a resize() evicts no more than it has to.
ImplementsCache == Abstract!Spec

\* The item of a cached key is the one its latest set() stored, also when the key was cached
\* already, or was evicted in between.
ServesLatest == \A k \in CachedNow : contents[k] = latest[k]

\* The two structures of a cache name the same keys: no handle, iterator or index of
\* _map points at another key's item, whatever evictions moved in between.
MapMatchesItems ==
  CASE strategy = "LRU" -> ToSet(_list) = {_map[k] : k \in DOMAIN _map} /\ \A k \in DOMAIN _map : _map[k].key = k
    [] strategy = "Random" -> /\ Len(_list) = Cardinality(DOMAIN _map)
                              /\ \A k \in DOMAIN _map : _map[k] \in DOMAIN _list /\ _list[_map[k]].key = k
    [] OTHER -> /\ _map = {e.key : e \in _queue} /\ Cardinality(_map) = Cardinality(_queue)

\* GreedyDual: no entry's priority lies below the inflation, so an item that was not
\* used since the last eviction goes before one that was used as often after it.
InflationIsLowest == \A e \in _queue : strategy # "LRUK" => e.priority >= _inflation

\* The K latest accesses of a key.
Recent(k) == LET n == IF strategy = "LRU" THEN 1 ELSE K
             IN  IF Len(uses[k]) <= n THEN uses[k] ELSE SubSeq(uses[k], Len(uses[k]) - n + 1, Len(uses[k]))

\* The K latest accesses of a key decide: no key that LRU or LRU-K evicts was used more
\* often, up to K times, or more recently at its K-th latest access, than one it keeps.
EvictsOldest ==
  [][(strategy \in {"LRU", "LRUK"}) =>
       \A gone \in {k \in CachedNow : ~Cached(k)'}, kept \in {k \in CachedNow : Cached(k)'} :
          \/ Len(Recent(gone)) < Len(Recent(kept))
          \/ /\ Len(Recent(gone)) = Len(Recent(kept))
             /\ Recent(gone)[1] < Recent(kept)[1]]_cacheVars
=============================================================================
