------------------------------- MODULE Indexes -------------------------------
(***************************************************************************)
(* The chunk indexes of src/lib/storage/index: group key, composite group  *)
(* key, B-tree and adaptive radix tree (ART), and the IndexScan operator.  *)
(* An index orders the chunk offsets of a segment; its iterators are       *)
(* positions in that order, counted from 0.                                *)
(***************************************************************************)
EXTENDS Encodings, TLC

CONSTANTS
  ArtPartBits,     \* bits of a partial key, 8 in the code
  ArtParts,        \* partial keys of a value id, sizeof(ValueID) = 4 in the code
  ArtCapacities    \* children of the four node types: <<4, 16, 48, 256>> in the code

-----------------------------------------------------------------------------
(* GroupKeyIndex: for every value id the first of its postings.  The       *)
(* vector _index_offsets has no entry behind the one that ends the last    *)
(* value id, the one that NULLs increment; only the entries it has count.  *)

GroupKeyIndex(segment) ==
    LET n == Len(segment.dictionary)
        ids == segment.attribute_vector
        index_offsets == [id \in 0..n |-> Cardinality({i \in DOMAIN ids : ids[i] < id})]
        written(i) == Cardinality({j \in 1..(i - 1) : ids[j] = ids[i]})
    IN [segment |-> segment, index_offsets |-> index_offsets,
        index_postings |-> [p \in DOMAIN ids |->
            CHOOSE i \in DOMAIN ids : index_offsets[ids[i]] + written(i) = p - 1]]

_get_postings_iterator_at(index, value_id) ==
    IF value_id = INVALID_VALUE_ID THEN Len(index.index_postings) ELSE index.index_offsets[value_id]

GroupKeyLowerBound(index, value) ==
    _get_postings_iterator_at(index, lower_bound(index.segment, value, LessInt))
GroupKeyUpperBound(index, value) ==
    _get_postings_iterator_at(index, upper_bound(index.segment, value, LessInt))

-----------------------------------------------------------------------------
(* VariableLengthKey: bytes, the least significant first.                  *)

VariableLengthKey(bytes_per_key) == [i \in 1..bytes_per_key |-> 0]

ShiftKeyLeft(key, shift) ==
    LET byte_shift == shift \div ByteBits
        bit_shift == shift % ByteBits
        byte(i) == IF i - byte_shift \in DOMAIN key THEN key[i - byte_shift] ELSE 0
    IN [i \in DOMAIN key |-> ((byte(i) * 2^bit_shift) % 2^ByteBits)
                             | (byte(i - 1) \div 2^(ByteBits - bit_shift))]

OrKey(key, other) ==
    [i \in DOMAIN key |-> key[i] | ((other \div 2^(ByteBits * (i - 1))) % 2^ByteBits)]

shift_and_set(key, value, bits_to_set) == OrKey(ShiftKeyLeft(key, bits_to_set), value % 2^bits_to_set)

KeyLess(left, right) ==
    LET differ == {i \in DOMAIN left : left[i] # right[i]}
    IN differ # {} /\ left[Max(differ)] < right[Max(differ)]

(* CompositeGroupKeyIndex: a row's key concatenates the value ids of its   *)
(* columns; the unique keys are kept with the first position of each.      *)

byte_width(segment) == UintBytes(MaxValueId(Len(segment.dictionary)))
KeyBytes(segments, from) == FoldLeft(LAMBDA n, s : n + byte_width(s), 0, SubSeq(segments, from, Len(segments)))

CompositeKey(segments, i) ==
    FoldLeft(LAMBDA key, s : shift_and_set(key, s.attribute_vector[i], byte_width(s) * ByteBits),
             VariableLengthKey(KeyBytes(segments, 1)), segments)

CompositeGroupKeyIndex(segments) ==
    LET size == Len(segments[1].attribute_vector)
        keys == [i \in 1..size |-> CompositeKey(segments, i)]
        positions == SortSeq([i \in 1..size |-> i], LAMBDA a, b : KeyLess(keys[a], keys[b]))
        starts == SelectSeq([k \in 1..size |-> k],
                            LAMBDA k : k = 1 \/ keys[positions[k]] # keys[positions[k - 1]])
    IN [segments |-> segments, position_list |-> positions,
        keys |-> [u \in DOMAIN starts |-> keys[positions[starts[u]]]],
        key_offsets |-> [u \in DOMAIN starts |-> starts[u] - 1]]

(* All values but the last are looked up with lower_bound, the last one    *)
(* with the bound asked for; columns without a value are filled with zeros. *)
_create_composite_key(index, values, is_upper_bound) ==
    LET bound(k) == IF k = Len(values) /\ is_upper_bound
                    THEN upper_bound(index.segments[k], values[k], LessInt)
                    ELSE lower_bound(index.segments[k], values[k], LessInt)
        set(key, k) == shift_and_set(key, bound(k), byte_width(index.segments[k]) * ByteBits)
        empty_bits == (KeyBytes(index.segments, Len(values) + 1) * ByteBits) % 256
    IN ShiftKeyLeft(FoldLeft(set, VariableLengthKey(KeyBytes(index.segments, 1)),
                             [k \in DOMAIN values |-> k]), empty_bits)

_get_position_iterator_for_key(index, key) ==
    LET below == Cardinality({u \in DOMAIN index.keys : KeyLess(index.keys[u], key)})
    IN IF below = Len(index.keys) THEN Len(index.position_list) ELSE index.key_offsets[below + 1]

CompositeLowerBound(index, values) ==
    _get_position_iterator_for_key(index, _create_composite_key(index, values, FALSE))
CompositeUpperBound(index, values) ==
    _get_position_iterator_for_key(index, _create_composite_key(index, values, TRUE))

-----------------------------------------------------------------------------
(* BTreeIndexImpl: the rows that are not NULL, sorted by value; the tree   *)
(* maps every value to the first of its positions.                         *)

_bulk_insert(segment) ==
    LET cells == SequentialCells(segment)
        values == SortSeq(SelectSeq([i \in DOMAIN cells |-> i], LAMBDA i : cells[i] # Null),
                          LAMBDA a, b : cells[a] < cells[b])
        first(v) == Min({k \in DOMAIN values : cells[values[k]] = v}) - 1
    IN [chunk_offsets |-> values,
        btree |-> [v \in {cells[values[k]] : k \in DOMAIN values} |-> first(v)]]


BTreeBound(index, keys) == IF keys = {} THEN Len(index.chunk_offsets) ELSE index.btree[Min(keys)]
BTreeLowerBound(index, value) == BTreeBound(index, {v \in DOMAIN index.btree : v >= value})
BTreeUpperBound(index, value) == BTreeBound(index, {v \in DOMAIN index.btree : v > value})

-----------------------------------------------------------------------------
(* The adaptive radix tree.  A node is a leaf with its range of positions, *)
(* or one of four types by its number of children; INVALID_INDEX marks the *)
(* unused entries and is a valid partial key at the same time.             *)

INVALID_INDEX == 2^ArtPartBits - 1

(* The partial keys of a value id, the most significant first.             *)
BinaryComparable(value) == [p \in 1..ArtParts |-> (value \div 2^(ArtPartBits * (ArtParts - p))) % 2^ArtPartBits]

Leaf(lower, upper) == [type |-> "Leaf", begin |-> lower, end |-> upper]

(* children is a sequence of [partial_key, node], sorted by partial key.   *)
ARTNode(children) ==
    LET type == CASE Len(children) <= ArtCapacities[1] -> 1
                  [] Len(children) > ArtCapacities[1] /\ Len(children) <= ArtCapacities[2] -> 2
                  [] Len(children) > ArtCapacities[2] /\ Len(children) <= ArtCapacities[3] -> 3
                  [] OTHER -> 4
        of(key) == {c \in DOMAIN children : children[c].partial_key = key}
    IN [type |-> <<"ARTNode4", "ARTNode16", "ARTNode48", "ARTNode256">>[type],
        children |-> [c \in DOMAIN children |-> children[c].node],
        partial_keys |-> [i \in 1..ArtCapacities[type] |->
                             IF i \in DOMAIN children THEN children[i].partial_key ELSE INVALID_INDEX],
        index_to_child |-> [key \in 0..INVALID_INDEX |-> IF of(key) = {} THEN 0 ELSE CHOOSE c \in of(key) : TRUE]]

(* Leaves append their chunk offsets in the order of the keys.             *)
RECURSIVE ArtBulkInsert(_, _, _)
ArtBulkInsert(pairs, depth, chunk_offsets) ==
    IF \A i \in DOMAIN pairs : pairs[i].key = pairs[1].key
    THEN [node |-> Leaf(Len(chunk_offsets), Len(chunk_offsets) + Len(pairs)),
          chunk_offsets |-> chunk_offsets \o [i \in DOMAIN pairs |-> pairs[i].chunk_offset]]
    ELSE LET add(s, partition_id) ==
                 LET partition == SelectSeq(pairs, LAMBDA p : p.key[depth] = partition_id)
                     child == ArtBulkInsert(partition, depth + 1, s.chunk_offsets)
                 IN IF partition = <<>> THEN s
                    ELSE [children |-> Append(s.children, [partial_key |-> partition_id, node |-> child.node]),
                          chunk_offsets |-> child.chunk_offsets]
             all == FoldLeft(add, [children |-> <<>>, chunk_offsets |-> chunk_offsets],
                             [i \in 1..2^ArtPartBits |-> i - 1])
         IN [node |-> ARTNode(all.children), chunk_offsets |-> all.chunk_offsets]

AdaptiveRadixTreeIndex(segment) ==
    LET tree == ArtBulkInsert([i \in DOMAIN segment.attribute_vector |->
                                  [key |-> BinaryComparable(segment.attribute_vector[i]), chunk_offset |-> i]],
                              1, <<>>)
    IN [segment |-> segment, root |-> tree.node, chunk_offsets |-> tree.chunk_offsets]

RECURSIVE ArtBegin(_)
ArtBegin(node) == IF node.type = "Leaf" THEN node.begin ELSE ArtBegin(node.children[1])

(* Where a node ends.  ARTNode48 and ARTNode256 return where their last    *)
(* child begins.                                                           *)
LastChild(node) == node.children[Len(node.children)]

ARTNode48End(node) == ArtBegin(LastChild(node))
ARTNode256End(node) == ArtBegin(LastChild(node))

RECURSIVE ArtEnd(_)
ArtEnd(node) ==
    CASE node.type = "Leaf" -> node.end
      [] node.type \in {"ARTNode4", "ARTNode16"} -> ArtEnd(LastChild(node))
      [] node.type = "ARTNode48" -> ARTNode48End(node)
      [] node.type = "ARTNode256" -> ARTNode256End(node)

(* _delegate_to_child: the child to descend into (found), or the next      *)
(* larger one to begin at, or none (0).                                    *)
Delegate(child, found) == [child |-> child, found |-> found]

ARTNode4Delegate(node, partial_key) ==
    LET at == {i \in DOMAIN node.partial_keys : node.partial_keys[i] >= partial_key}
    IN IF at = {} THEN Delegate(0, FALSE)
       ELSE IF node.partial_keys[Min(at)] = partial_key THEN Delegate(Min(at), TRUE)
       ELSE Delegate(IF Min(at) \in DOMAIN node.children THEN Min(at) ELSE 0, FALSE)

ARTNode16Delegate(node, partial_key) ==
    LET partial_key_pos == LowerBound(node.partial_keys, partial_key, LessInt) + 1
    IN IF partial_key_pos \notin DOMAIN node.partial_keys THEN Delegate(0, FALSE)
       ELSE IF node.partial_keys[partial_key_pos] = partial_key THEN Delegate(partial_key_pos, TRUE)
       ELSE Delegate(IF partial_key_pos \in DOMAIN node.children THEN partial_key_pos ELSE 0, FALSE)

ARTNode48Delegate(node, partial_key) ==
    LET larger == {key \in (partial_key + 1)..INVALID_INDEX : node.index_to_child[key] # 0}
    IN IF node.index_to_child[partial_key] # 0 THEN Delegate(node.index_to_child[partial_key], TRUE)
       ELSE Delegate(IF larger = {} THEN 0 ELSE node.index_to_child[Min(larger)], FALSE)

ARTNode256Delegate(node, partial_key) == ARTNode48Delegate(node, partial_key)

_delegate_to_child(node, partial_key) ==
    CASE node.type = "ARTNode4" -> ARTNode4Delegate(node, partial_key)
      [] node.type = "ARTNode16" -> ARTNode16Delegate(node, partial_key)
      [] node.type = "ARTNode48" -> ARTNode48Delegate(node, partial_key)
      [] node.type = "ARTNode256" -> ARTNode256Delegate(node, partial_key)

RECURSIVE ArtNodeLowerBound(_, _, _)
ArtNodeLowerBound(node, key, depth) ==
    IF node.type = "Leaf" THEN node.begin
    ELSE LET d == _delegate_to_child(node, key[depth])
         IN IF d.found THEN ArtNodeLowerBound(node.children[d.child], key, depth + 1)
            ELSE IF d.child # 0 THEN ArtBegin(node.children[d.child]) ELSE ArtEnd(node)

ArtBound(index, value_id) ==
    IF value_id = INVALID_VALUE_ID THEN Len(index.chunk_offsets)
    ELSE ArtNodeLowerBound(index.root, BinaryComparable(value_id), 1)
ArtLowerBound(index, value) == ArtBound(index, lower_bound(index.segment, value, LessInt))
ArtUpperBound(index, value) == ArtBound(index, upper_bound(index.segment, value, LessInt))

-----------------------------------------------------------------------------
(* An index of some type on a segment of integers, and IndexScan, which    *)
(* reads one or two ranges of the index.                                   *)

IndexTypes == {"GroupKey", "CompositeGroupKey", "BTree", "AdaptiveRadixTree"}

BuildIndex(type, value_segment) ==
    LET dictionary_segment == EncodeDictionary(value_segment, LessInt)
    IN CASE type = "GroupKey" -> GroupKeyIndex(dictionary_segment)
         [] type = "CompositeGroupKey" -> CompositeGroupKeyIndex(<<dictionary_segment>>)
         [] type = "BTree" -> _bulk_insert(Encode("Unencoded", value_segment))
         [] type = "AdaptiveRadixTree" -> AdaptiveRadixTreeIndex(dictionary_segment)

IndexPositions(type, index) ==
    CASE type = "GroupKey" -> index.index_postings
      [] type = "CompositeGroupKey" -> index.position_list
      [] type \in {"BTree", "AdaptiveRadixTree"} -> index.chunk_offsets

IndexLowerBound(type, index, value) ==
    CASE type = "GroupKey" -> GroupKeyLowerBound(index, value)
      [] type = "CompositeGroupKey" -> CompositeLowerBound(index, <<value>>)
      [] type = "BTree" -> BTreeLowerBound(index, value)
      [] type = "AdaptiveRadixTree" -> ArtLowerBound(index, value)

IndexUpperBound(type, index, value) ==
    CASE type = "GroupKey" -> GroupKeyUpperBound(index, value)
      [] type = "CompositeGroupKey" -> CompositeUpperBound(index, <<value>>)
      [] type = "BTree" -> BTreeUpperBound(index, value)
      [] type = "AdaptiveRadixTree" -> ArtUpperBound(index, value)

(* IndexScan::_scan_chunk                                                  *)
_scan_chunk(type, index, condition, value, value2) ==
    LET positions == IndexPositions(type, index)
        lower == IndexLowerBound(type, index, value)
        upper == IndexUpperBound(type, index, value)
        cend == Len(positions)
        range(begin, end) == SubSeq(positions, begin + 1, end)
    IN CASE condition = "Equals" -> range(lower, upper)
         [] condition = "NotEquals" -> range(0, lower) \o range(upper, cend)
         [] condition = "LessThan" -> range(0, lower)
         [] condition = "LessThanEquals" -> range(0, upper)
         [] condition = "GreaterThan" -> range(upper, cend)
         [] condition = "GreaterThanEquals" -> range(lower, cend)
         [] condition = "Between" -> range(lower, IndexUpperBound(type, index, value2))
=============================================================================
