--------------------------- MODULE KeyValueCache ---------------------------
(***************************************************************************)
(* What AbstractCache promises whatever the eviction strategy: at most     *)
(* capacity items, get() hands out the value of the latest set(), a set()  *)
(* evicts one item when the cache is full and none otherwise.              *)
(***************************************************************************)
EXTENDS Integers, FiniteSets, Functions

CONSTANTS Keys, Values, Capacities

VARIABLES
  contents,   \* the cached value of every cached key
  capacity,
  fetched     \* what the last get() returned

Full == Cardinality(DOMAIN contents) >= capacity

\* The item is stored; a new one takes the place of another when the cache is full.
StoreIn(kept, key, value) == contents' = [k \in kept \union {key} |-> IF k = key THEN value ELSE contents[k]]

Set(key, value) ==
  /\ IF key \in DOMAIN contents \/ ~Full
     THEN StoreIn(DOMAIN contents, key, value)
     ELSE \E evicted \in DOMAIN contents : StoreIn(DOMAIN contents \ {evicted}, key, value)
  /\ UNCHANGED <<capacity, fetched>>

Get(key) ==
  /\ key \in DOMAIN contents
  /\ fetched' = contents[key]
  /\ UNCHANGED <<contents, capacity>>

Clear == contents' = Restrict(contents, {}) /\ UNCHANGED <<capacity, fetched>>

\* Shrinking keeps as many items as still fit.
Resize(n) ==
  /\ \E kept \in SUBSET DOMAIN contents :
       /\ Cardinality(kept) = IF Cardinality(DOMAIN contents) > n THEN n ELSE Cardinality(DOMAIN contents)
       /\ contents' = Restrict(contents, kept)
  /\ capacity' = n
  /\ UNCHANGED fetched

Init == Cardinality(DOMAIN contents) = 0 /\ capacity \in Capacities
Next ==
  \/ \E key \in Keys, value \in Values : Set(key, value)
  \/ \E key \in Keys : Get(key)
  \/ Clear
  \/ \E n \in Capacities : Resize(n)
Spec == Init /\ [][Next]_<<contents, capacity, fetched>>
=============================================================================
