------------------------ MODULE UninitializedVector ------------------------
(***************************************************************************)
(* uninitialized_vector, the container of the hash join's partitions: a    *)
(* block of memory of which a first part is in use.  A vector is modelled  *)
(* by the cells of its block (_begin to _endOfStorage) and the number of   *)
(* those in use (_end - _begin); a block that was just allocated, and one  *)
(* that was deallocated, holds Garbage.                                    *)
(*                                                                         *)
(* An element is passed by reference.  A reference is a value outside of   *)
(* the vectors or one of the vector's own cells, and is read only when the *)
(* room for the element has been made.                                     *)
(***************************************************************************)
EXTENDS Naturals, Sequences, SequencesExt

CONSTANTS
  Value, Garbage,
  MaxSize         \* bound: elements of a vector

VARIABLE vectors

Vector == {1, 2}

size(v) == v.size
capacity(v) == Len(v.cells)

Elements(v) == SubSeq(v.cells, 1, v.size)

Allocate(n) == [k \in 1..n |-> Garbage]
Fill(n, x) == [k \in 1..n |-> x]

(* memcpy, memmove and the loops: the list goes to the cells after p.      *)
Write(cells, p, list) ==
  [k \in DOMAIN cells |-> IF k \in (p + 1)..(p + Len(list)) THEN list[k - p] ELSE cells[k]] \o <<>>

-----------------------------------------------------------------------------
(* Construction.                                                           *)
NullVector == [cells |-> <<>>, size |-> 0]
ConstructUninitialized(n) == [cells |-> Allocate(n), size |-> n]
ConstructFilled(n, x) == [cells |-> Write(Allocate(n), 0, Fill(n, x)), size |-> n]
construct_from_range(list) == [cells |-> Write(Allocate(Len(list)), 0, list), size |-> Len(list)]
ConstructFromList(list) == construct_from_range(list)
ConstructCopy(other) == construct_from_range(Elements(other))

-----------------------------------------------------------------------------
(* Room for more elements.                                                 *)
enlarge_size(v, extra) == v.size + (IF v.size > extra THEN v.size ELSE extra)

enlarge(v, n) == [v EXCEPT !.cells = Write(Allocate(n), 0, Elements(v))]


enlarge_for_insert(v, n, p, count) ==
  [cells |-> Write(Write(Allocate(n), 0, SubSeq(v.cells, 1, p)),
                   p + count, SubSeq(v.cells, p + 1, v.size)),
   size |-> v.size + count]

reserve(v, n) == IF capacity(v) < n THEN enlarge(v, n) ELSE v

resize(v, n) ==
  [(IF capacity(v) < n THEN enlarge(v, enlarge_size(v, n)) ELSE v) EXCEPT !.size = n]

resize_filled(v, n, x) ==
  LET room == IF capacity(v) < n THEN enlarge(v, n) ELSE v IN
  [cells |-> IF v.size < n THEN Write(room.cells, v.size, Fill(n - v.size, x)) ELSE room.cells,
   size |-> n]

shrink_to_fit(v) ==
  IF v.size = 0 THEN NullVector
  ELSE IF v.size < capacity(v) THEN enlarge(v, v.size) ELSE v

(* A gap of n cells at p, with or without a new block.                     *)
insert_uninitialized(v, p, n) ==
  IF capacity(v) < v.size + n
  THEN enlarge_for_insert(v, enlarge_size(v, n), p, n)
  ELSE [cells |-> Write(v.cells, p + n, SubSeq(v.cells, p + 1, v.size)), size |-> v.size + n]

-----------------------------------------------------------------------------
(* References: what is there when the room for the element is made.  The   *)
(* own cells of a vector that has got a new block are deallocated by then. *)
Outside(x) == [own |-> 0, value |-> x]
Own(k) == [own |-> k, value |-> Garbage]

Deref(reference, old, room) ==
  CASE reference.own = 0 -> reference.value
    [] reference.own > 0 /\ capacity(room) = capacity(old) -> room.cells[reference.own]
    [] OTHER -> Garbage

insert(v, p, item) ==
  LET room == insert_uninitialized(v, p, 1) IN
  [room EXCEPT !.cells[p + 1] = Deref(item, v, room)]

emplace(v, p, item) == insert(v, p, item)

insert_filled(v, p, n, item) ==
  LET room == insert_uninitialized(v, p, n) IN
  [room EXCEPT !.cells = Write(@, p, Fill(n, Deref(item, v, room)))]

insert_from_range(v, p, list) ==
  LET room == insert_uninitialized(v, p, Len(list)) IN
  [room EXCEPT !.cells = Write(@, p, list)]

insert_list(v, p, list) == insert_from_range(v, p, list)

push_back(v, item) ==
  LET room == IF v.size = capacity(v) THEN enlarge(v, enlarge_size(v, 1)) ELSE v IN
  [cells |-> [room.cells EXCEPT ![v.size + 1] = Deref(item, v, room)], size |-> v.size + 1]

emplace_back(v, item) == push_back(v, item)

push_back_filled(v, n, item) ==
  LET room == IF capacity(v) - v.size < n THEN enlarge(v, enlarge_size(v, n)) ELSE v IN
  [cells |-> Write(room.cells, v.size, Fill(n, Deref(item, v, room))), size |-> v.size + n]

push_back_range(v, list) ==
  LET room == IF Len(list) > capacity(v) - v.size
              THEN enlarge(v, enlarge_size(v, Len(list))) ELSE v IN
  [cells |-> Write(room.cells, v.size, list), size |-> v.size + Len(list)]

push_back_list(v, list) == push_back_range(v, list)

push_back_uninitialized(v, n) == resize(v, v.size + n)

-----------------------------------------------------------------------------
(* Removal and assignment.                                                 *)
pop_back(v) == [v EXCEPT !.size = @ - 1]

erase_range(v, p, q) ==
  [cells |-> Write(v.cells, p, SubSeq(v.cells, q + 1, v.size)), size |-> v.size - (q - p)]

erase(v, p) == erase_range(v, p, p + 1)

clear(v) == [v EXCEPT !.size = 0]

assign_from_range(v, list) ==
  [cells |-> Write(IF Len(list) > capacity(v) THEN Allocate(Len(list)) ELSE v.cells, 0, list),
   size |-> Len(list)]

assign_list(v, list) == assign_from_range(v, list)

assign(v, n, item) ==
  LET room == [v EXCEPT !.cells = IF n > capacity(v) THEN Allocate(n) ELSE @] IN
  [cells |-> Write(room.cells, 0, Fill(n, Deref(item, v, room))), size |-> n]

(* operator=: the number of elements is set only with a new block.         *)
assign_copy_from(v, other) ==
  IF other.size > capacity(v)
  THEN construct_from_range(Elements(other))
  ELSE [v EXCEPT !.cells = Write(@, 0, Elements(other))]

-----------------------------------------------------------------------------
InitVectors == vectors = [i \in Vector |-> NullVector]

Becomes(i, v) == v.size <= MaxSize /\ vectors' = [vectors EXCEPT ![i] = v]

References(i) == {Outside(x) : x \in Value} \cup {Own(k) : k \in 1..vectors[i].size}

Arguments == BoundedSeq(Value, MaxSize)

Constructs(i) ==
  \/ \E n \in 0..MaxSize, x \in Value :
       Becomes(i, ConstructUninitialized(n)) \/ Becomes(i, ConstructFilled(n, x))
  \/ \E list \in Arguments : Becomes(i, ConstructFromList(list))
  \/ \E j \in Vector : Becomes(i, ConstructCopy(vectors[j]))

Enlarges(i) ==
  \E n \in 0..MaxSize, x \in Value :
    \/ Becomes(i, resize(vectors[i], n)) \/ Becomes(i, resize_filled(vectors[i], n, x))
    \/ Becomes(i, reserve(vectors[i], n)) \/ Becomes(i, shrink_to_fit(vectors[i]))
    \/ Becomes(i, push_back_uninitialized(vectors[i], n))

Inserts(i) ==
  \E p \in 0..vectors[i].size :
    \/ \E item \in References(i) :
         \/ Becomes(i, insert(vectors[i], p, item)) \/ Becomes(i, emplace(vectors[i], p, item))
         \/ \E n \in 0..MaxSize : Becomes(i, insert_filled(vectors[i], p, n, item))
    \/ \E list \in Arguments :
         Becomes(i, insert_list(vectors[i], p, list))

PushesBack(i) ==
  \/ \E item \in References(i) :
       \/ Becomes(i, push_back(vectors[i], item)) \/ Becomes(i, emplace_back(vectors[i], item))
       \/ \E n \in 0..MaxSize : Becomes(i, push_back_filled(vectors[i], n, item))
  \/ \E list \in Arguments : Becomes(i, push_back_list(vectors[i], list))

Removes(i) ==
  \/ vectors[i].size > 0 /\ Becomes(i, pop_back(vectors[i]))
  \/ \E p, q \in 0..vectors[i].size : p <= q /\ Becomes(i, erase_range(vectors[i], p, q))
  \/ \E p \in 0..(vectors[i].size - 1) : vectors[i].size > 0 /\ Becomes(i, erase(vectors[i], p))
  \/ Becomes(i, clear(vectors[i]))

Assigns(i) ==
  \/ \E list \in Arguments : Becomes(i, assign_list(vectors[i], list))
  \/ \E n \in 0..MaxSize, item \in References(i) : Becomes(i, assign(vectors[i], n, item))

CopyAssign(i, j) ==
  /\ i # j
  /\ Becomes(i, assign_copy_from(vectors[i], vectors[j]))

assign_move_from(i, j) ==
  /\ i # j
  /\ vectors' = [vectors EXCEPT ![i] = vectors[j], ![j] = NullVector]

swap(i, j) ==
  /\ i # j
  /\ vectors' = [vectors EXCEPT ![i] = vectors[j], ![j] = vectors[i]]

NextVectors ==
  \/ \E i \in Vector : \/ Constructs(i) \/ Enlarges(i) \/ Inserts(i)
                       \/ PushesBack(i) \/ Removes(i) \/ Assigns(i)
  \/ \E i, j \in Vector : CopyAssign(i, j) \/ assign_move_from(i, j) \/ swap(i, j)

-----------------------------------------------------------------------------
(* What std::vector does to a sequence of elements; Garbage stands for     *)
(* elements that are left uninitialized.                                   *)
InsertBefore(e, p, list) == SubSeq(e, 1, p) \o list \o SubSeq(e, p + 1, Len(e))

Resized(e, n, x) == IF n <= Len(e) THEN SubSeq(e, 1, n) ELSE e \o Fill(n - Len(e), x)

Agrees(v, e) ==
  /\ v.size = Len(e) /\ v.size <= capacity(v)
  /\ \A k \in DOMAIN e : e[k] \in {Garbage, v.cells[k]}

Meant(v, item) == IF item.own = 0 THEN item.value ELSE v.cells[item.own]

=============================================================================
