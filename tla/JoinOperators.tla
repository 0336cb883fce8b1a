--------------------------- MODULE JoinOperators ----------------------------
(***************************************************************************)
(* The hash join, the nested loop join, the index join, the sort-merge     *)
(* join and the first phases of JoinMPSM, as functions from the tables     *)
(* they read to the pairs of rows they emit; the jobs of JoinMPSM.         *)
(***************************************************************************)
EXTENDS Indexes

-----------------------------------------------------------------------------
(***************************************************************************)
(* JoinHash: both inputs are materialised chunk by chunk, partitioned by    *)
(* the radix of the hash of the key, a hash table is built for every        *)
(* partition of the build side, and the partitions of the probe side look   *)
(* their keys up in it.                                                     *)
(***************************************************************************)

CONSTANT murmur2(_)     \* the hash of a key, a natural number

ASSUME HashIsNatural == murmur2(DefaultValue) \in Nat

num_partitions(radix_bits) == 2 ^ radix_bits

Radix(element, radix_bits) == element.partition_hash % num_partitions(radix_bits)

PartitionedElement(table, row) ==
  [row_id         |-> IteratorRow(table, row),
   partition_hash |-> murmur2(RawValue(Cell(table, row))),
   value          |-> RawValue(Cell(table, row))]

EmptyElement == [row_id |-> NULL_ROW_ID, partition_hash |-> 0, value |-> DefaultValue]

\* One job per chunk: the elements of the chunk, filled up with empty elements
\* to the size of the chunk, and a histogram of their radixes.
materialize_input(table, radix_bits, keep_nulls) ==
  [c \in DOMAIN table |->
     LET kept     == SelectSeq(RowsOfChunk(table, c),
                               LAMBDA r : keep_nulls \/ ~IsNull(Cell(table, r)))
         elements == [i \in DOMAIN kept |-> PartitionedElement(table, kept[i])]
     IN  [elements  |-> elements \o [i \in 1..(Len(table[c]) - Len(kept)) |-> EmptyElement],
          histogram |-> [p \in 0..(num_partitions(radix_bits) - 1) |->
                           Cardinality({i \in DOMAIN elements : Radix(elements[i], radix_bits) = p})]]]
\* Where the elements of chunk c with radix p start in the partitioned buffer:
\* after all smaller partitions and the same partition of all earlier chunks.
OutputOffset(materialized, c, p) ==
  MapThenSumSet(LAMBDA q : materialized[q[1]].histogram[q[2]],
    {q \in (DOMAIN materialized) \X (0..p) : q[2] < p \/ q[1] < c})

\* The contiguous buffer as a function from slots, and where partitions start.
partition_radix_parallel(materialized, radix_bits, keep_nulls) ==
  LET moved(c) == SelectSeq(materialized[c].elements,
                            LAMBDA e : keep_nulls \/ e.row_id # NULL_ROW_ID)
      slot(c, i) ==
        LET e == moved(c)[i]
        IN  OutputOffset(materialized, c, Radix(e, radix_bits))
            + Cardinality({j \in 1..(i - 1) : Radix(moved(c)[j], radix_bits) = Radix(e, radix_bits)})
      places == UNION {{<<c, i>> : i \in DOMAIN moved(c)} : c \in DOMAIN materialized}
  IN  [elements |-> [s \in {slot(q[1], q[2]) : q \in places} |->
                       LET q == CHOOSE q \in places : slot(q[1], q[2]) = s IN moved(q[1])[q[2]]],
       partition_offsets |-> [p \in 0..num_partitions(radix_bits) |->
                                OutputOffset(materialized, 1, p)]]

\* The elements of one partition, read from the buffer.
Partition(container, p) ==
  [i \in 1..(container.partition_offsets[p + 1] - container.partition_offsets[p]) |->
     container.elements[container.partition_offsets[p] + i - 1]]

\* A hash table maps a key to the rows that have it.  A partition without
\* elements gets no hash table, here the one with no key.
build(container, radix_bits) ==
  [p \in 0..(num_partitions(radix_bits) - 1) |->
     LET partition == Partition(container, p)
         rows(v)   == SelectSeq(partition, LAMBDA e : e.value = v)
     IN  [v \in {partition[i].value : i \in DOMAIN partition} |->
            [i \in DOMAIN rows(v) |-> rows(v)[i].row_id]]]

\* The pairs <<build row, probe row>> one element of the probe side adds.
ProbeRow(hashtable, element, mode) ==
  LET hit == element.value \in DOMAIN hashtable
  IN  CASE hit -> [i \in DOMAIN hashtable[element.value] |->
                     <<hashtable[element.value][i], element.row_id>>]
        [] ~hit /\ mode \in {"Left", "Right"} -> <<<<NULL_ROW_ID, element.row_id>>>>
        [] OTHER -> <<>>

probe(container, hashtables, mode) ==
  FlattenSeq([q \in 1..Cardinality(DOMAIN hashtables) |->
    LET partition == Partition(container, q - 1)
    IN  FlattenSeq([i \in DOMAIN partition |->
                      ProbeRow(hashtables[q - 1], partition[i], mode)])])

probe_semi_anti(container, hashtables, mode) ==
  FlattenSeq([q \in 1..Cardinality(DOMAIN hashtables) |->
    LET hit(e) == e.value \in DOMAIN hashtables[q - 1]
        kept   == SelectSeq(Partition(container, q - 1), LAMBDA e : hit(e) = (mode = "Semi"))
    IN  [i \in DOMAIN kept |-> <<kept[i].row_id>>]])


\* The build side is the left input unless the inputs are swapped.
SwapInputs(left, right, mode) ==
  mode \in {"Left", "Anti", "Semi"} \/ row_count(left) > row_count(right)

\* JoinHash::_on_execute and JoinHashImpl::_on_execute: pairs <<left row, right row>>.
JoinHashOutput(left, right, mode, radix_bits) ==
  LET swapped    == SwapInputs(left, right, mode)
      build_in   == IF swapped THEN right ELSE left
      probe_in   == IF swapped THEN left ELSE right
      keep_nulls == mode \in {"Left", "Right"}
      radix(table, keep) ==
        partition_radix_parallel(materialize_input(table, radix_bits, keep), radix_bits, keep)
      hashtables == build(radix(build_in, FALSE), radix_bits)
      probed     == radix(probe_in, keep_nulls)
      pairs      == probe(probed, hashtables, mode)
  IN  IF mode \in {"Semi", "Anti"} THEN probe_semi_anti(probed, hashtables, mode)
      ELSE IF swapped THEN [i \in DOMAIN pairs |-> <<pairs[i][2], pairs[i][1]>>]
      ELSE pairs

\* Two columns of a reference table whose position lists are the same share them:
\* every column is given the first column with its lists.
setup_pos_lists_by_segment(columns) ==
  [c \in DOMAIN columns |-> Min({d \in DOMAIN columns : columns[d] = columns[c]})]

\* The output segments of one input, a position list per column.
write_output_segments(columns, pos_list) ==
  LET shared == setup_pos_lists_by_segment(columns)
  IN  [c \in DOMAIN columns |-> Dereference(columns[shared[c]], pos_list)]

\* The columns of the output: those of the left and then those of the right input.
JoinHashSegments(left_columns, right_columns, output, mode) ==
  IF mode \in {"Semi", "Anti"} THEN write_output_segments(left_columns, LeftRows(output))
  ELSE write_output_segments(left_columns, LeftRows(output))
       \o write_output_segments(right_columns, RightRows(output))

-----------------------------------------------------------------------------
(***************************************************************************)
(* JoinNestedLoop: every row of the left input is compared with every row  *)
(* of the right one; outer joins add the rows that no comparison marked.   *)
(***************************************************************************)

JoinModes == {"Inner", "Left", "Right", "Outer"}

\* The position lists, and the rows marked as matched on either side.
NoMatches == [pairs |-> <<>>, left_matches |-> {}, right_matches |-> {}]

_process_match(params, left_row_id, right_row_id) ==
  [pairs         |-> Append(params.pairs, <<left_row_id, right_row_id>>),
   left_matches  |-> params.left_matches \cup {left_row_id},
   right_matches |-> params.right_matches \cup {right_row_id}]

\* All pairs of a left and a right chunk, the left row in the outer loop.
_join_two_typed_segments(left, right, chunk_left, chunk_right, condition, params) ==
  LET scanned == FlattenSeq([l \in DOMAIN left[chunk_left] |->
                   [r \in DOMAIN right[chunk_right] |-> <<<<chunk_left, l>>, <<chunk_right, r>>>>]])
      visit(p, pair) ==
        IF /\ ~IsNull(Cell(left, pair[1])) /\ ~IsNull(Cell(right, pair[2]))
           /\ with_comparator(condition, Cell(left, pair[1]), Cell(right, pair[2]))
        THEN _process_match(p, pair[1], pair[2]) ELSE p
  IN  FoldLeft(visit, params, scanned)

\* The unmatched rows of the left chunk follow its matches.
JoinLeftChunk(left, right, mode, condition, chunk_left, params) ==
  LET joined    == FoldLeft(LAMBDA p, c : _join_two_typed_segments(left, right, chunk_left, c, condition, p),
                            params, [c \in DOMAIN right |-> c])
      unmatched == SelectSeq(RowsOfChunk(left, chunk_left), LAMBDA r : r \notin joined.left_matches)
  IN  IF mode = "Inner" THEN joined
      ELSE [joined EXCEPT !.pairs = @ \o [k \in DOMAIN unmatched |-> <<unmatched[k], NULL_ROW_ID>>]]

\* A full outer join ends with the unmatched rows of the right input.  Without a
\* chunk on the left no vector of right matches has been sized, and its bits are
\* read all the same: unread is the set of right rows such a read finds unset.
UnmatchedRight(left, right, joined, unread) ==
  SelectSeq([k \in DOMAIN Rows(right) |-> IteratorRow(right, Rows(right)[k])],
            LAMBDA r : r \notin joined.right_matches /\ (left = <<>> => r \in unread))

_write_output_chunks(pos_lists, pos_list) == Dereference(pos_lists, pos_list)

\* For a Right join the inputs change places, but the condition stays.
NestedLoopSwaps(mode) == mode = "Right"

\* Pairs <<left row, right row>>, resolved through the inputs' position lists.
JoinNestedLoopOutput(left, right, left_pos, right_pos, mode, condition, unread) ==
  LET swapped == NestedLoopSwaps(mode)
      outer   == IF swapped THEN right ELSE left
      inner   == IF swapped THEN left ELSE right
      joined  == FoldLeft(LAMBDA p, c : JoinLeftChunk(outer, inner, mode, condition, c, p),
                          NoMatches, [c \in DOMAIN outer |-> c])
      extra   == UnmatchedRight(left, right, joined, unread)
      pairs   == joined.pairs \o IF mode # "Outer" THEN <<>>
                                 ELSE [k \in DOMAIN extra |-> <<NULL_ROW_ID, extra[k]>>]
  IN  Zip(_write_output_chunks(left_pos, IF swapped THEN RightRows(pairs) ELSE LeftRows(pairs)),
          _write_output_chunks(right_pos, IF swapped THEN LeftRows(pairs) ELSE RightRows(pairs)))

-----------------------------------------------------------------------------
(***************************************************************************)
(* JoinIndex: the rows of the left input are looked up in the indexes of   *)
(* the right input's chunks; a chunk without an index is joined by a       *)
(* nested loop.                                                            *)
(***************************************************************************)

\* The segment of a chunk of the right input, a data table.
RightSegment(right, c) ==
  FoldLeft(LAMBDA s, cell : ValueSegmentAppend(s, cell, DefaultValue), ValueSegment(TRUE), right[c])

\* The range of the index that matches a value, with the sides of the condition
\* exchanged: value < key for LessThan.
IndexMatches(type, index, condition, value) ==
  LET positions == IndexPositions(type, index)
      lower     == IndexLowerBound(type, index, value)
      upper     == IndexUpperBound(type, index, value)
      range(begin, end) == SubSeq(positions, begin + 1, end)
      cend      == Len(positions)
  IN  CASE condition = "Equals"            -> range(lower, upper)
        [] condition = "NotEquals"         -> range(0, lower) \o range(upper, cend)
        [] condition = "GreaterThan"       -> range(0, lower)
        [] condition = "GreaterThanEquals" -> range(0, upper)
        [] condition = "LessThan"          -> range(upper, cend)
        [] condition = "LessThanEquals"    -> range(lower, cend)

_append_matches(params, offsets, left_row, chunk_right) ==
  FoldLeft(LAMBDA p, o : _process_match(p, left_row, <<chunk_right, o>>), params, offsets)

_join_two_segments_using_index(left, chunk_left, chunk_right, type, index, condition, params) ==
  FoldLeft(LAMBDA p, r : IF IsNull(Cell(left, r)) THEN p
                         ELSE _append_matches(p, IndexMatches(type, index, condition, Cell(left, r)),
                                              r, chunk_right),
           params, RowsOfChunk(left, chunk_left))

JoinRightChunk(left, right, indexes, condition, chunk_right, params) ==
  LET type  == indexes[chunk_right]
      index == BuildIndex(type, RightSegment(right, chunk_right))
      join(p, c) == IF chunk_right \in DOMAIN indexes
                    THEN _join_two_segments_using_index(left, c, chunk_right, type, index, condition, p)
                    ELSE _join_two_typed_segments(left, right, c, chunk_right, condition, p)
  IN  FoldLeft(join, params, [c \in DOMAIN left |-> c])

IndexJoinWriteOutput(pos_lists, pos_list) == Dereference(pos_lists, pos_list)

\* indexes maps the chunks of the right input that have an index to its type.
JoinIndexOutput(left, right, left_pos, indexes, mode, condition) ==
  LET joined == FoldLeft(LAMBDA p, c : JoinRightChunk(left, right, indexes, condition, c, p),
                         NoMatches, [c \in DOMAIN right |-> c])
      left_unmatched  == SelectSeq(Rows(left), LAMBDA r : r \notin joined.left_matches)
      right_unmatched == SelectSeq(Rows(right), LAMBDA r : r \notin joined.right_matches)
      pairs == joined.pairs
               \o (IF mode \notin {"Left", "Outer"} THEN <<>>
                   ELSE [k \in DOMAIN left_unmatched |-> <<left_unmatched[k], NULL_ROW_ID>>])
               \o (IF mode \notin {"Right", "Outer"} THEN <<>>
                   ELSE [k \in DOMAIN right_unmatched |-> <<NULL_ROW_ID, right_unmatched[k]>>])
  IN  Zip(IndexJoinWriteOutput(left_pos, LeftRows(pairs)), RightRows(pairs))

-----------------------------------------------------------------------------
(***************************************************************************)
(* The two joins that sort and merge.                                      *)
(*                                                                         *)
(* JoinSortMerge: both inputs are materialised, clustered (by radix for an *)
(* equi join, by ranges otherwise), the clusters are sorted, and runs of   *)
(* equal values of a left and a right cluster are merged.                  *)
(*                                                                         *)
(* JoinMPSM, the NUMA-aware equi join.  Each table is materialised into one *)
(* partition per NUMA node and every partition is clustered by radix.  The *)
(* left clusters are moved so that cluster c lies on node c; one job per   *)
(* cluster then merges left cluster c with cluster c of every right        *)
(* partition.  The jobs run in parallel and share the output lists.        *)
(***************************************************************************)

\* 2 ^ floor(log2(n)) of the larger number of chunks.
determine_number_of_clusters(left, right) ==
  LET chunks == Max({chunk_count(left), chunk_count(right)})
  IN  2 ^ Max({k \in 0..chunks : 2 ^ k <= chunks})

SortByValue(entries) == SortSeq(entries, LAMBDA a, b : a.value < b.value)

\* ColumnMaterializer: the cells that are not NULL, chunk by chunk, and the
\* rows whose cell is NULL.
MaterializedSegment(table, c, sort) ==
  LET kept    == SelectSeq(RowsOfChunk(table, c), LAMBDA r : ~IsNull(Cell(table, r)))
      entries == [i \in DOMAIN kept |-> [row_id |-> kept[i], value |-> Cell(table, kept[i])]]
  IN  IF sort THEN SortByValue(entries) ELSE entries

materialize(table, sort) == [c \in DOMAIN table |-> MaterializedSegment(table, c, sort)]

NullRows(table) ==
  LET null == SelectSeq(Rows(table), LAMBDA r : IsNull(Cell(table, r)))
  IN  [i \in DOMAIN null |-> IteratorRow(table, null[i])]

-----------------------------------------------------------------------------
(* RadixClusterSort                                                          *)

\* Every chunk writes its entries behind those of the chunks before it.
cluster(segments, cluster_count, clusterer(_)) ==
  [k \in 1..cluster_count |->
     FlattenSeq([c \in DOMAIN segments |->
       SelectSeq(segments[c], LAMBDA e : clusterer(e.value) = k)])]

radix_cluster(segments, cluster_count) ==
  cluster(segments, cluster_count, LAMBDA v : (v % cluster_count) + 1)

\* The sample a chunk contributes to the border after cluster k.  A chunk
\* without values is read past its end: it contributes any value.
pick_sample_value(segment, k, cluster_count, garbage) ==
  IF segment = <<>> THEN garbage
  ELSE segment[((Len(segment) * k) \div cluster_count) + 1].value

\* The border after cluster k is the number of times the commonest sample
\* occurs: the code reads ->second of the map entry.
split_value(segments, k, cluster_count, garbage) ==
  LET sample(c) == pick_sample_value(segments[c], k, cluster_count, garbage)
  IN  Max({Cardinality({c \in DOMAIN segments : sample(c) = sample(d)}) : d \in DOMAIN segments})

range_cluster(left, right, cluster_count, garbage) ==
  LET split(k) == split_value(left \o right, k, cluster_count, garbage)
      clusterer(v) == Min({k \in 1..(cluster_count - 1) : v <= split(k)} \cup {cluster_count})
  IN  <<cluster(left, cluster_count, clusterer), cluster(right, cluster_count, clusterer)>>

sort_clusters(clusters) == [k \in DOMAIN clusters |-> SortByValue(clusters[k])]

concatenate_chunks(segments) == <<FlattenSeq(segments)>>

\* RadixClusterSort::execute: the sorted clusters of both inputs.
RadixClusterSort(left, right, equi_case, cluster_count, garbage) ==
  LET l == materialize(left, ~equi_case)
      r == materialize(right, ~equi_case)
      clusters ==
        IF cluster_count = 1 THEN <<concatenate_chunks(l), concatenate_chunks(r)>>
        ELSE IF equi_case THEN <<radix_cluster(l, cluster_count), radix_cluster(r, cluster_count)>>
        ELSE range_cluster(l, r, cluster_count, garbage)
  IN  [left |-> sort_clusters(clusters[1]), right |-> sort_clusters(clusters[2])]

-----------------------------------------------------------------------------
(* The merge.  A position is <<cluster, index>>, a range goes from a start   *)
(* up to, and not including, an end; j is a join: the sorted clusters left   *)
(* and right, the condition op and the mode.                                 *)

To(start, end) == [start |-> start, end |-> end]

TableRange(k, from, to) == To(<<k, from>>, <<k, to>>)

end_of_table(table) == <<Len(table), Len(table[Len(table)]) + 1>>

for_every_row_id(table, range) ==
  LET part(k) == SubSeq(table[k], IF k = range.start[1] THEN range.start[2] ELSE 1,
                                  IF k = range.end[1] THEN range.end[2] - 1 ELSE Len(table[k]))
      entries == FlattenSeq([i \in 1..(range.end[1] - range.start[1] + 1) |->
                               part(range.start[1] + i - 1)])
  IN  [i \in DOMAIN entries |-> entries[i].row_id]

emit_all_combinations(j, left_range, right_range) ==
  LET l == for_every_row_id(j.left, left_range)
      r == for_every_row_id(j.right, right_range)
  IN  FlattenSeq([i \in DOMAIN l |-> [k \in DOMAIN r |-> <<l[i], r[k]>>]])

emit_right_null_combinations(j, left_range) ==
  LET l == for_every_row_id(j.left, left_range)
  IN  [i \in DOMAIN l |-> <<l[i], NULL_ROW_ID>>]

emit_left_null_combinations(j, right_range) ==
  LET r == for_every_row_id(j.right, right_range)
  IN  [i \in DOMAIN r |-> <<NULL_ROW_ID, r[i]>>]

Emit(condition, pairs) == IF condition THEN pairs ELSE <<>>

compare(a, b) == IF a < b THEN "Less" ELSE IF a = b THEN "Equal" ELSE "Greater"

\* What two runs of equal values add to the output.
join_runs(j, l, r, result) ==
  LET to_left_end(position)  == To(position, end_of_table(j.left))
      to_right_end(position) == To(position, end_of_table(j.right))
      equal == result = "Equal"   less == result = "Less"   greater == result = "Greater"
  IN  IF j.op = "Equals"
      THEN Emit(equal, emit_all_combinations(j, l, r))
           \o Emit(less /\ j.mode \in {"Left", "Outer"}, emit_right_null_combinations(j, l))
           \o Emit(greater /\ j.mode \in {"Right", "Outer"}, emit_left_null_combinations(j, r))
      ELSE Emit(\/ greater /\ j.op \in {"NotEquals", "GreaterThan", "GreaterThanEquals"}
                \/ equal /\ j.op = "GreaterThanEquals",
                emit_all_combinations(j, to_left_end(l.start), r))
           \o Emit(equal /\ j.op \in {"NotEquals", "GreaterThan"},
                   emit_all_combinations(j, to_left_end(l.end), r))
           \o Emit(equal /\ j.op \in {"NotEquals", "LessThan"},
                   emit_all_combinations(j, l, to_right_end(r.end)))
           \o Emit(\/ less /\ j.op \in {"NotEquals", "LessThan", "LessThanEquals"}
                   \/ equal /\ j.op = "LessThanEquals",
                   emit_all_combinations(j, l, to_right_end(r.start)))

\* Where the run of equal values that starts at an index ends.
run_end(values, start) ==
  start + Cardinality({i \in start..Len(values) : values[i].value = values[start].value})

\* The merge of cluster k: the smaller run is joined and passed, both if equal;
\* what is left of one side is joined as one run.
join_cluster(j, k) ==
  LET lc == j.left[k]
      rc == j.right[k]
      rest(ls, rs, result) ==
        join_runs(j, TableRange(k, ls, Len(lc) + 1), TableRange(k, rs, Len(rc) + 1), result)
      merge[ls \in 1..(Len(lc) + 1), rs \in 1..(Len(rc) + 1)] ==
        IF ls <= Len(lc) /\ rs <= Len(rc)
        THEN LET le     == run_end(lc, ls)
                 re     == run_end(rc, rs)
                 result == compare(lc[ls].value, rc[rs].value)
             IN  join_runs(j, TableRange(k, ls, le), TableRange(k, rs, re), result)
                 \o merge[IF result = "Greater" THEN ls ELSE le, IF result = "Less" THEN rs ELSE re]
        ELSE Emit(ls <= Len(lc), rest(ls, rs, "Less"))
             \o Emit(ls > Len(lc) /\ rs <= Len(rc), rest(ls, rs, "Greater"))
  IN  merge[1, 1]

-----------------------------------------------------------------------------
(* Outer joins on a condition other than equality                            *)

Values(table) == {e.value : e \in ToSet(FlattenSeq(table))}

Positions(table) == UNION {{<<k, i>> : i \in DOMAIN table[k]} : k \in DOMAIN table}

Before(p, q) == p[1] < q[1] \/ (p[1] = q[1] /\ p[2] <= q[2])

\* The first position whose value satisfies the condition, as a set of at most
\* one; a cluster is only searched when its last value satisfies it.
first_value_that_satisfies(table, condition(_)) ==
  LET found == {p \in Positions(table) : /\ condition(table[p[1]][Len(table[p[1]])].value)
                                         /\ condition(table[p[1]][p[2]].value)}
  IN  {p \in found : \A q \in found : Before(p, q)}

\* The position behind the last value that satisfies it.
first_value_that_satisfies_reverse(table, condition(_)) ==
  LET found == {p \in Positions(table) : /\ condition(table[p[1]][1].value)
                                         /\ condition(table[p[1]][p[2]].value)}
  IN  {<<p[1], p[2] + 1>> : p \in {p \in found : \A q \in found : Before(q, p)}}

\* The rows of a table before the first, or behind the last value that has a
\* partner among values: none of them when no value has one.
RangeWithoutPartner(table, values, op) ==
  LET satisfies(v) == CASE op = "LessThan"          -> v > Min(values)
                        [] op = "LessThanEquals"    -> v >= Min(values)
                        [] op = "GreaterThan"       -> v < Max(values)
                        [] op = "GreaterThanEquals" -> v <= Max(values)
  IN  IF op \in {"LessThan", "LessThanEquals"}
      THEN {To(<<1, 1>>, p) : p \in first_value_that_satisfies(table, satisfies)}
      ELSE {To(p, end_of_table(table)) : p \in first_value_that_satisfies_reverse(table, satisfies)}

Mirror(op) ==
  CASE op = "LessThan"          -> "GreaterThan"
    [] op = "LessThanEquals"    -> "GreaterThanEquals"
    [] op = "GreaterThan"       -> "LessThan"
    [] op = "GreaterThanEquals" -> "LessThanEquals"

\* For a left outer join the code looks for partnerless rows of the right table,
left_outer_non_equi_join(j) ==
  LET ranges == RangeWithoutPartner(j.right, Values(j.left), j.op)
  IN  IF ranges = {} THEN <<>> ELSE emit_left_null_combinations(j, CHOOSE r \in ranges : TRUE)

\* and for a right outer join for those of the left table.
right_outer_non_equi_join(j) ==
  LET ranges == RangeWithoutPartner(j.left, Values(j.right), Mirror(j.op))
  IN  IF ranges = {} THEN <<>> ELSE emit_right_null_combinations(j, CHOOSE r \in ranges : TRUE)

\* _table_min_value() and _table_max_value() throw on a table without values.
MinValueThrows(left, right, mode, op) ==
  /\ op # "Equals"
  /\ \/ mode \in {"Left", "Outer"} /\ \A r \in ToSet(Rows(left)) : IsNull(Cell(left, r))
     \/ mode \in {"Right", "Outer"} /\ \A r \in ToSet(Rows(right)) : IsNull(Cell(right, r))

\* The constructor asserts that an outer join is not on inequality, and the
\* clustering that there is a cluster.
Supported(left, right, mode, op) ==
  /\ op = "NotEquals" => mode = "Inner"
  /\ chunk_count(left) + chunk_count(right) > 0

perform_join(j) ==
  FlattenSeq([k \in DOMAIN j.left |->
    Emit(~(j.mode = "Inner" /\ j.op = "Equals" /\ <<>> \in {j.left[k], j.right[k]}),
         join_cluster(j, k))])
  \o Emit(j.mode \in {"Left", "Outer"} /\ j.op # "Equals", left_outer_non_equi_join(j))
  \o Emit(j.mode \in {"Right", "Outer"} /\ j.op # "Equals", right_outer_non_equi_join(j))

dereference_pos_list(pos_lists, pos_list) == Dereference(pos_lists, pos_list)

\* JoinSortMergeImpl::_on_execute, for inputs that do not make it throw.
JoinSortMergeOutput(left, right, left_pos, right_pos, mode, op, garbage) ==
  LET sorted  == RadixClusterSort(left, right, op = "Equals",
                                  determine_number_of_clusters(left, right), garbage)
      j       == [left |-> sorted.left, right |-> sorted.right, op |-> op, mode |-> mode]
      null(t) == NullRows(t)
      pairs   == perform_join(j)
                 \o Emit(mode \in {"Left", "Outer"},
                         [i \in DOMAIN null(left) |-> <<null(left)[i], NULL_ROW_ID>>])
                 \o Emit(mode \in {"Right", "Outer"},
                         [i \in DOMAIN null(right) |-> <<NULL_ROW_ID, null(right)[i]>>])
  IN  Zip(dereference_pos_list(left_pos, LeftRows(pairs)),
          dereference_pos_list(right_pos, RightRows(pairs)))

-----------------------------------------------------------------------------
(* JoinMPSM.                                                                 *)

\* The modes that keep the rows of the left, or the right, table.
LeftModes  == {"Left", "Outer"}
RightModes == {"Right", "Outer"}

VARIABLES
  _mode,                    \* the join mode
  _sorted_left_table,       \* cluster -> its sorted entries
  _sorted_right_table,      \* partition -> cluster -> its sorted entries
  _output_pos_lists_left,   \* cluster -> list, a set of at most one: {} is nullptr
  _output_pos_lists_right,  \* partition -> cluster -> list, likewise
  job,                      \* cluster -> what its job does next
  crashed                   \* a job pushed to a list that does not exist

mpsm_vars == <<_mode, _sorted_left_table, _sorted_right_table,
               _output_pos_lists_left, _output_pos_lists_right, job, crashed>>

\* The largest power of two that is at most the number of nodes.
_determine_number_of_clusters(nodes) == 2 ^ Max({k \in 0..nodes : 2 ^ k <= nodes})

\* The cells of one chunk that are not NULL.
_materialize_segment(table, c) ==
  LET kept == SelectSeq(RowsOfChunk(table, c), LAMBDA r : ~IsNull(Cell(table, r)))
  IN  [i \in DOMAIN kept |-> [row_id |-> IteratorRow(table, kept[i]), value |-> Cell(table, kept[i])]]

\* The segments of the chunks that lie on a node, in the order of the chunks.
MaterializePartition(table, placement, node) ==
  LET chunks == SelectSeq([c \in DOMAIN table |-> c], LAMBDA c : placement[c] = node)
  IN  [i \in DOMAIN chunks |-> _materialize_segment(table, chunks[i])]

MaterializeNullRows(table) ==
  LET null == SelectSeq(Rows(table), LAMBDA r : IsNull(Cell(table, r)))
  IN  [i \in DOMAIN null |-> IteratorRow(table, null[i])]

\* A partition's entries by radix, those of an earlier chunk first.
_cluster(segments, cluster_count) ==
  [k \in 1..cluster_count |->
     SelectSeq(FlattenSeq(segments), LAMBDA e : e.value % cluster_count = k - 1)]

\* Only as many partitions as there are clusters are read.
_radix_cluster_numa(table, placement, cluster_count) ==
  [n \in 1..cluster_count |-> _cluster(MaterializePartition(table, placement, n), cluster_count)]

\* Cluster k of every partition, one behind the other, on node k.
_repartition_clusters(partitions) ==
  [k \in DOMAIN partitions |-> FlattenSeq([n \in DOMAIN partitions |-> partitions[n][k]])]

_sort_cluster(entries) == SortSeq(entries, LAMBDA a, b : a.value < b.value)

\* RadixClusterSortNUMA::execute.
SortedLeft(table, placement, cluster_count) ==
  LET clusters == _repartition_clusters(_radix_cluster_numa(table, placement, cluster_count))
  IN  [k \in DOMAIN clusters |-> _sort_cluster(clusters[k])]

SortedRight(table, placement, cluster_count) ==
  LET partitions == _radix_cluster_numa(table, placement, cluster_count)
  IN  [n \in DOMAIN partitions |-> [k \in DOMAIN partitions |-> _sort_cluster(partitions[n][k])]]

-----------------------------------------------------------------------------
(* The merge of a left cluster with a cluster of one right partition         *)

_run_end(values, start) ==
  start + Cardinality({i \in start..Len(values) : values[i].value = values[start].value})

_emit_all_combinations(lc, rc, ls, le, rs, re) ==
  FlattenSeq([i \in 1..(le - ls) |-> [k \in 1..(re - rs) |->
                <<lc[ls + i - 1].row_id, rc[rs + k - 1].row_id>>]])

\* A right run without a partner in this left cluster.
_emit_left_null_combinations(rc, rs, re, mode) ==
  IF mode \in RightModes THEN [k \in 1..(re - rs) |-> <<NULL_ROW_ID, rc[rs + k - 1].row_id>>]
  ELSE <<>>

_emit_right_null_combinations(lc, joined, mode) ==
  IF mode \in LeftModes
  THEN LET alone == SelectSeq([i \in DOMAIN lc |-> i], LAMBDA i : i \notin joined)
       IN  [i \in DOMAIN alone |-> <<lc[alone[i]].row_id, NULL_ROW_ID>>]
  ELSE <<>>

\* The emitted pairs, and the left entries that found a partner.
_join_runs(lc, rc, mode) ==
  LET merge[ls \in 1..(Len(lc) + 1), rs \in 1..(Len(rc) + 1)] ==
        IF ls > Len(lc) \/ rs > Len(rc)
        THEN [pairs  |-> _emit_left_null_combinations(rc, rs, Len(rc) + 1, mode), joined |-> {}]
        ELSE LET le == _run_end(lc, ls)
                 re == _run_end(rc, rs)
                 l  == lc[ls].value
                 r  == rc[rs].value
                 rest == merge[IF l > r THEN ls ELSE le, IF l < r THEN rs ELSE re]
                 run  == IF l = r THEN _emit_all_combinations(lc, rc, ls, le, rs, re)
                         ELSE IF l > r THEN _emit_left_null_combinations(rc, rs, re, mode)
                         ELSE <<>>
             IN  [pairs  |-> run \o rest.pairs,
                  joined |-> rest.joined \cup (IF l = r THEN ls..(le - 1) ELSE {})]
  IN  merge[1, 1]

-----------------------------------------------------------------------------
(* The jobs of _perform_join                                                 *)

Clusters == DOMAIN _sorted_left_table

\* _emit_combination appends to the two lists of partition c and cluster 1.
Emitted(c, pairs) ==
  /\ crashed' = (crashed \/ (pairs # <<>> /\ _output_pos_lists_right[c][1] = {}))
  /\ _output_pos_lists_left' =
       [_output_pos_lists_left EXCEPT ![c] = {list \o LeftRows(pairs) : list \in @}]
  /\ _output_pos_lists_right' =
       [_output_pos_lists_right EXCEPT ![c][1] = {list \o RightRows(pairs) : list \in @}]

StartJob(c) ==
  /\ job[c].step = "scheduled"
  /\ _output_pos_lists_left' = [_output_pos_lists_left EXCEPT ![c] = {<<>>}]
  /\ job' = [job EXCEPT ![c].step = "create"]
  /\ UNCHANGED <<_mode, _sorted_left_table, _sorted_right_table, _output_pos_lists_right, crashed>>

\* The job of cluster c creates the list of every right partition for cluster c,
CreateRightList(c) ==
  /\ job[c].step = "create"
  /\ _output_pos_lists_right' = [_output_pos_lists_right EXCEPT ![job[c].node][c] = {<<>>}]
  /\ job' = [job EXCEPT ![c].step = "merge"]
  /\ UNCHANGED <<_mode, _sorted_left_table, _sorted_right_table, _output_pos_lists_left, crashed>>

\* but emits to the lists of partition c for cluster 1.
MergeRightPartition(c) ==
  LET n      == job[c].node
      merged == _join_runs(_sorted_left_table[c], _sorted_right_table[n][c], _mode)
  IN  /\ job[c].step = "merge"
      /\ Emitted(c, merged.pairs)
      /\ job' = [job EXCEPT ![c].joined = @ \cup merged.joined,
                            ![c].step   = IF n = Len(_sorted_right_table) THEN "rest" ELSE "create",
                            ![c].node   = n + 1]
      /\ UNCHANGED <<_mode, _sorted_left_table, _sorted_right_table>>

FinishJob(c) ==
  /\ job[c].step = "rest"
  /\ Emitted(c, _emit_right_null_combinations(_sorted_left_table[c], job[c].joined, _mode))
  /\ job' = [job EXCEPT ![c].step = "done"]
  /\ UNCHANGED <<_mode, _sorted_left_table, _sorted_right_table>>

_join_cluster(c) == StartJob(c) \/ CreateRightList(c) \/ MergeRightPartition(c) \/ FinishJob(c)

\* The constructor, and the input sorted by _on_execute.
InitMPSM(left, right, left_placement, right_placement, cluster_count, mode) ==
  /\ _mode = mode
  /\ _sorted_left_table = SortedLeft(left, left_placement, cluster_count)
  /\ _sorted_right_table = SortedRight(right, right_placement, cluster_count)
  /\ _output_pos_lists_left = [c \in 1..cluster_count |-> {}]
  /\ _output_pos_lists_right = [n \in 1..cluster_count |-> [c \in 1..cluster_count |-> {}]]
  /\ job = [c \in 1..cluster_count |-> [step |-> "scheduled", node |-> 1, joined |-> {}]]
  /\ crashed = FALSE

AllJobsDone == \A c \in Clusters : job[c].step = "done"

_concatenate_pos_lists(lists) == FlattenSeq([i \in DOMAIN lists |-> CHOOSE l \in lists[i] : TRUE])

_dereference_pos_list(pos_lists, pos_list) == Dereference(pos_lists, pos_list)

\* What _on_execute hands to _add_output_segments for the left and the right table.
OutputLeft(left, right, left_pos) ==
  _dereference_pos_list(left_pos,
    _concatenate_pos_lists(_output_pos_lists_left)
    \o (IF _mode \in LeftModes THEN MaterializeNullRows(left) ELSE <<>>)
    \o (IF _mode \in RightModes THEN [i \in DOMAIN MaterializeNullRows(right) |-> NULL_ROW_ID] ELSE <<>>))

OutputRight(left, right, right_pos) ==
  _dereference_pos_list(right_pos,
    _concatenate_pos_lists(FlattenSeq(_output_pos_lists_right))
    \o (IF _mode \in LeftModes THEN [i \in DOMAIN MaterializeNullRows(left) |-> NULL_ROW_ID] ELSE <<>>)
    \o (IF _mode \in RightModes THEN MaterializeNullRows(right) ELSE <<>>))

=============================================================================
