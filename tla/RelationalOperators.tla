------------------------ MODULE RelationalOperators -------------------------
(***************************************************************************)
(* The operators that rearrange whole rows: Sort, UnionPositions, UnionAll, *)
(* Difference, Product, Limit, Projection, Alias, GetTable and Aggregate;   *)
(* below them TableScan, on segments.                                       *)
(*                                                                         *)
(* A table is a record: of type "Data", its chunks being sequences of rows  *)
(* and a row a tuple of cells, or of type "References".  A chunk of a       *)
(* reference table holds position lists into a base table and, for every    *)
(* column, the number of the list it uses; two columns with the same number *)
(* share one PosList object.  Column i refers to column i of the base.      *)
(***************************************************************************)
EXTENDS Encodings, LikeMatcher, TLC

ChunkSize(table, c) ==
  IF table.type = "Data" THEN Len(table.chunks[c]) ELSE Len(table.chunks[c].lists[1])

\* The PosList a column uses, 0 being nullptr: a data table has none.
InPosList(table, c, column) == IF table.type = "Data" THEN 0 ELSE table.chunks[c].of[column]

\* The row id an output has to reference for the row at an offset.
InRowID(table, c, list, offset) == IF list = 0 THEN <<c, offset>> ELSE table.chunks[c].lists[list][offset]

\* BaseSegment::operator[] of a data or a reference segment.
Value(base, table, c, column, offset) ==
  IF table.type = "Data" THEN table.chunks[c][offset][column]
  ELSE LET row == table.chunks[c].lists[table.chunks[c].of[column]][offset]
       IN  IF row = NULL_ROW_ID THEN Null ELSE base.chunks[row[1]][row[2]][column]

Columns(table) == DOMAIN table.columns

TableRows(table) ==
  FlattenSeq([c \in DOMAIN table.chunks |-> [o \in 1..ChunkSize(table, c) |-> <<c, o>>]])

\* The values of a row, and those of all rows in order.
RowValues(base, table, row) == [i \in Columns(table) |-> Value(base, table, row[1], i, row[2])]
AllValues(base, table) ==
  LET rows == TableRows(table) IN [k \in DOMAIN rows |-> RowValues(base, table, rows[k])]

Referencing(table, chunks) == [type |-> "References", columns |-> table.columns, chunks |-> chunks]

NonEmptyChunks(chunks) == SelectSeq(chunks, LAMBDA chunk : chunk.lists[1] # <<>>)

-----------------------------------------------------------------------------
(* Sort                                                                      *)

\* The row an iterator reports: the first of the chunk for NULL_ROW_ID.
ReportedRow(table, row, column) ==
  IF table.type = "References" /\ InRowID(table, row[1], InPosList(table, row[1], column), row[2]) = NULL_ROW_ID
  THEN <<row[1], 1>> ELSE row

_materialize_sort_column(base, table, column, null) ==
  LET rows == SelectSeq(TableRows(table), LAMBDA r : (Value(base, table, r[1], column, r[2]) = Null) = null)
  IN  [k \in DOMAIN rows |-> [row   |-> ReportedRow(table, rows[k], column),
                              value |-> Value(base, table, rows[k][1], column, rows[k][2])]]
\* std::stable_sort: insertion behind the last entry that is not greater.
_sort_with_operator(entries, Less(_, _)) ==
  FoldLeft(LAMBDA sorted, e :
             LET k == Cardinality({i \in DOMAIN sorted : ~Less(e.value, sorted[i].value)})
             IN  SubSeq(sorted, 1, k) \o <<e>> \o SubSeq(sorted, k + 1, Len(sorted)),
           <<>>, entries)

\* The values are copied column by column into chunks of the output size.
SortImplMaterializeOutput(base, table, entries, output_chunk_size) ==
  LET chunk_count_out == (Len(entries) + output_chunk_size - 1) \div output_chunk_size
      size(c) == IF c < chunk_count_out THEN output_chunk_size
                 ELSE Len(entries) - (c - 1) * output_chunk_size
  IN  [type |-> "Data", columns |-> table.columns,
       chunks |-> [c \in 1..chunk_count_out |-> [o \in 1..size(c) |->
                     RowValues(base, table, entries[(c - 1) * output_chunk_size + o].row)]]]

OrderByModes == {"Ascending", "Descending", "AscendingNullsLast", "DescendingNullsLast"}

Sort(base, table, column, order_by_mode, output_chunk_size) ==
  LET values == _materialize_sort_column(base, table, column, FALSE)
      null   == _materialize_sort_column(base, table, column, TRUE)
      sorted == IF order_by_mode \in {"Ascending", "AscendingNullsLast"}
                THEN _sort_with_operator(values, LAMBDA a, b : a < b)
                ELSE _sort_with_operator(values, LAMBDA a, b : a > b)
      all    == IF order_by_mode \in {"AscendingNullsLast", "DescendingNullsLast"}
                THEN sorted \o null ELSE null \o sorted
  IN  SortImplMaterializeOutput(base, table, all, output_chunk_size)

-----------------------------------------------------------------------------
(* UnionPositions                                                            *)

RowIDLess(a, b) == a[1] < b[1] \/ (a[1] = b[1] /\ a[2] < b[2])

\* NULL_ROW_ID has the largest chunk id and the largest offset.
LessRowID(a, b) == a # NULL_ROW_ID /\ (b = NULL_ROW_ID \/ RowIDLess(a, b))

\* Mutant: only the left input's position lists are looked at.
ColumnSegmentOffsetsOfLeft(left, right) ==
  SetToSortSeq({i \in Columns(left) : i = 1 \/ InPosList(left, 1, i) # InPosList(left, 1, i - 1)}, <)

\* The columns of either input, in its first chunk, whose list differs from that
\* of the column before: each starts a column of the reference matrices.
column_segment_offsets(left, right) ==
  LET starts(table) == {i \in Columns(table) : i = 1 \/ InPosList(table, 1, i) # InPosList(table, 1, i - 1)}
  IN  SetToSortSeq(starts(left) \cup starts(right), <)

\* A row of the matrix is a tuple of row ids, one per such column.
_build_reference_matrix(table, offsets) ==
  LET rows == TableRows(table)
  IN  [k \in DOMAIN rows |-> [s \in DOMAIN offsets |->
         InRowID(table, rows[k][1], InPosList(table, rows[k][1], offsets[s]), rows[k][2])]]

_compare_reference_matrix_rows(a, b) ==
  \E s \in DOMAIN a : LessRowID(a[s], b[s]) /\ \A t \in 1..(s - 1) : a[t] = b[t]

\* std::set_union of the sorted matrices.
MergeReferenceMatrices(left, right) ==
  LET merge[l \in 1..(Len(left) + 1), r \in 1..(Len(right) + 1)] ==
        IF l > Len(left) THEN SubSeq(right, r, Len(right))
        ELSE IF r > Len(right) THEN SubSeq(left, l, Len(left))
        ELSE IF _compare_reference_matrix_rows(right[r], left[l]) THEN <<right[r]>> \o merge[l, r + 1]
        ELSE <<left[l]>> \o merge[l + 1, IF _compare_reference_matrix_rows(left[l], right[r]) THEN r ELSE r + 1]
  IN  merge[1, 1]

\* The emitted rows cut into chunks; a column of the matrix stands for all
\* columns up to the next start.
EmitChunks(table, rows, offsets, out_chunk_size) ==
  LET count    == (Len(rows) + out_chunk_size - 1) \div out_chunk_size
      chunk(c) == SubSeq(rows, (c - 1) * out_chunk_size + 1, Min({c * out_chunk_size, Len(rows)}))
  IN  Referencing(table, [c \in 1..count |->
        [lists |-> [s \in DOMAIN offsets |-> [k \in DOMAIN chunk(c) |-> chunk(c)[k][s]]],
         of    |-> [i \in Columns(table) |-> Max({s \in DOMAIN offsets : offsets[s] <= i})]]])

UnionPositions(left, right, out_chunk_size) ==
  LET offsets == column_segment_offsets(left, right)
      sorted(table) == SortSeq(_build_reference_matrix(table, offsets), _compare_reference_matrix_rows)
  IN  IF TableRows(left) = <<>> THEN right
      ELSE IF TableRows(right) = <<>> THEN left
      ELSE EmitChunks(left, MergeReferenceMatrices(sorted(left), sorted(right)), offsets, out_chunk_size)

UnionAll(left, right) == [left EXCEPT !.chunks = @ \o right.chunks]

-----------------------------------------------------------------------------
(* Difference, Limit, Product                                                *)

\* The PosLists of the output: one for every different one of the input chunk.
OutPosLists(table, c, rows) ==
  LET keys  == SetToSortSeq({InPosList(table, c, i) : i \in Columns(table)}, <)
  IN  [lists |-> [s \in DOMAIN keys |-> [k \in DOMAIN rows |-> InRowID(table, c, keys[s], rows[k])]],
       of    |-> [i \in Columns(table) |-> SelectInSeq(keys, LAMBDA key : key = InPosList(table, c, i))]]

\* A cell is an integer: type_cast<std::string> gives its decimal digits.
Digits(n) ==
  LET digits[k \in Nat] == IF k < 10 THEN <<k>> ELSE Append(digits[k \div 10], k % 10) IN digits[n]

NullString == <<-1>>

_append_string_representation(value) ==
  LET string == IF value = Null THEN NullString ELSE Digits(value) IN Append(string, Len(string))

RowString(base, table, row) ==
  FlattenSeq([i \in Columns(table) |-> _append_string_representation(Value(base, table, row[1], i, row[2]))])

Difference(base, left, right) ==
  LET right_input_row_set == {RowString(base, right, r) : r \in ToSet(TableRows(right))}
      kept(c) == SelectSeq([o \in 1..ChunkSize(left, c) |-> o],
                           LAMBDA o : RowString(base, left, <<c, o>>) \notin right_input_row_set)
  IN  Referencing(left, NonEmptyChunks([c \in DOMAIN left.chunks |-> OutPosLists(left, c, kept(c))]))

\* Chunks are taken as long as rows are missing, the last one in part.
Limit(table, num_rows) ==
  LET before(c) == Len(SelectSeq(TableRows(table), LAMBDA r : r[1] < c))
      count(c)  == Min({ChunkSize(table, c), num_rows - before(c)})
      taken     == SelectSeq([c \in DOMAIN table.chunks |-> c], LAMBDA c : before(c) < num_rows)
      column_lists(c) == [lists |-> [i \in Columns(table) |-> [o \in 1..count(c) |->
                                       InRowID(table, c, InPosList(table, c, i), o)]],
                          of    |-> [i \in Columns(table) |-> i]]
  IN  Referencing(table, [k \in DOMAIN taken |-> column_lists(taken[k])])

\* The left rows are repeated one by one, the right ones as a sequence.
_add_product_of_two_chunks(left, right, c, d) ==
  LET n    == ChunkSize(left, c)
      m    == ChunkSize(right, d)
      l    == OutPosLists(left, c, [i \in 1..(n * m) |-> ((i - 1) \div m) + 1])
      r    == OutPosLists(right, d, [i \in 1..(n * m) |-> ((i - 1) % m) + 1])
  IN  [lists |-> l.lists \o r.lists,
       of    |-> l.of \o [i \in DOMAIN r.of |-> r.of[i] + Len(l.lists)]]

Product(left, right) ==
  [type |-> "References", columns |-> left.columns \o right.columns,
   chunks |-> FlattenSeq([c \in DOMAIN left.chunks |->
                [d \in DOMAIN right.chunks |-> _add_product_of_two_chunks(left, right, c, d)]])]

-----------------------------------------------------------------------------
(* Projection, Alias and GetTable                                            *)

\* An expression is [type |-> "PQPColumn", column_id |-> i], or of another type
\* and computed from the values of the row.
Evaluate(expression, values) ==
  IF expression.type = "PQPColumn" THEN values[expression.column_id] ELSE expression.compute[values]

ForwardColumns(table, expressions) ==
  (\A k \in DOMAIN expressions : expressions[k].type = "PQPColumn") \/ table.type = "Data"

\* The values of a chunk of the output: a forwarded segment is the input's.
ProjectionOutput(base, table, expressions) ==
  LET output(row, e) ==
        IF e.type = "PQPColumn" /\ ForwardColumns(table, expressions)
        THEN Value(base, table, row[1], e.column_id, row[2])
        ELSE Evaluate(e, RowValues(base, table, row))
  IN  [c \in DOMAIN table.chunks |-> [o \in 1..ChunkSize(table, c) |->
         [k \in DOMAIN expressions |-> output(<<c, o>>, expressions[k])]]]

\* One definition per input column; segments in the order of the column ids.
AliasDefinitions(table, column_ids, aliases) ==
  [i \in Columns(table) |-> [name |-> aliases[i], type |-> table.columns[column_ids[i]]]]

AliasSegments(base, table, column_ids) ==
  LET rows == TableRows(table)
  IN  [k \in DOMAIN rows |-> [i \in DOMAIN column_ids |->
         Value(base, table, rows[k][1], column_ids[i], rows[k][2])]]

GetTable(table, excluded_chunk_ids) ==
  LET kept == SelectSeq([c \in DOMAIN table.chunks |-> c], LAMBDA c : c \notin excluded_chunk_ids)
  IN  [table EXCEPT !.chunks = [k \in DOMAIN kept |-> table.chunks[kept[k]]]]

-----------------------------------------------------------------------------
(***************************************************************************)
(* Aggregate: every row gets a key made of one number per GROUP BY column;  *)
(* each aggregate keeps a hash map from keys to its results, and the output *)
(* columns are written by walking over these maps one after the other.      *)
(* An aggregate is [function, column]; column 0 stands for the count of rows. *)
(***************************************************************************)

\* The values of a column in the order in which a job meets them, without NULL.
NonNull(base, table, column) ==
  SelectSeq(LET rows == TableRows(table)
            IN  [k \in DOMAIN rows |-> Value(base, table, rows[k][1], column, rows[k][2])],
            LAMBDA v : v # Null)

\* The id of a value: 0 for NULL, else its place among the different values.
GroupID(base, table, column, value) ==
  IF value = Null THEN 0
  ELSE LET values == NonNull(base, table, column)
           first  == SelectInSeq(values, LAMBDA v : v = value)
       IN  Cardinality(ToSet(SubSeq(values, 1, first)))

AggregateKey(base, table, groupby, row) ==
  [g \in DOMAIN groupby |->
     GroupID(base, table, groupby[g], Value(base, table, row[1], groupby[g], row[2]))]

\* get_aggregate_function: an aggregate without a value yet is Null.
AggregateFunctor(function, new_value, current_aggregate) ==
  CASE function = "Min" -> IF current_aggregate = Null \/ new_value < current_aggregate
                           THEN new_value ELSE current_aggregate
    [] function = "Max" -> IF current_aggregate = Null \/ new_value > current_aggregate
                           THEN new_value ELSE current_aggregate
    [] function \in {"Sum", "Avg"} -> IF current_aggregate = Null THEN new_value
                                      ELSE current_aggregate + new_value
    [] function \in {"Count", "CountDistinct"} -> current_aggregate

NoResult == [current_aggregate |-> Null, aggregate_count |-> 0, distinct_values |-> {}, row_id |-> NULL_ROW_ID]

\* One row updates the entry of its group.
_aggregate_segment(aggregate, value, entry, row) ==
  IF aggregate.column = 0
  THEN [entry EXCEPT !.row_id = row, !.aggregate_count = @ + 1]
  ELSE IF value = Null THEN [entry EXCEPT !.row_id = row]
  ELSE [row_id            |-> row,
        current_aggregate |-> AggregateFunctor(aggregate.function, value, entry.current_aggregate),
        aggregate_count   |-> entry.aggregate_count + 1,
        distinct_values   |-> IF aggregate.function = "CountDistinct" THEN entry.distinct_values \cup {value}
                              ELSE entry.distinct_values]

\* The result of the group with a key: its rows, in order, folded into one entry.
GroupResult(base, table, groupby, aggregate, key) ==
  LET rows == SelectSeq(TableRows(table), LAMBDA r : AggregateKey(base, table, groupby, r) = key)
      value(r) == IF aggregate.column = 0 THEN Null ELSE Value(base, table, r[1], aggregate.column, r[2])
  IN  FoldLeft(LAMBDA entry, r : _aggregate_segment(aggregate, value(r), entry, r), NoResult, rows)

\* Counts are never NULL; an average is the pair of the sum and the count.
write_aggregate_values(function, entry) ==
  CASE function \in {"Min", "Max", "Sum"} -> entry.current_aggregate
    [] function = "Avg" -> IF entry.current_aggregate = Null THEN Null
                           ELSE <<entry.current_aggregate, entry.aggregate_count>>
    [] function = "Count" -> entry.aggregate_count
    [] function = "CountDistinct" -> Cardinality(entry.distinct_values)

\* Without groups and without GROUP BY there is one row all the same.
ValueWithoutRows(function) == IF function \in {"Count", "CountDistinct"} THEN 0 ELSE Null

DummyAggregate == [function |-> "Count", column |-> 0]

\* order is the order in which a hash map hands out its keys: the maps of all
\* aggregates were filled with the same keys in the same order.
Aggregate(base, table, groupby, aggregates, order) ==
  LET used    == IF aggregates = <<>> THEN <<DummyAggregate>> ELSE aggregates
      result(a, key) == GroupResult(base, table, groupby, a, key)
      groups(key) == LET row == result(used[1], key).row_id
                     IN  [g \in DOMAIN groupby |-> Value(base, table, row[1], groupby[g], row[2])]
      values(key) == [a \in DOMAIN aggregates |->
                        write_aggregate_values(aggregates[a].function, result(aggregates[a], key))]
  IN  IF order = <<>> /\ groupby = <<>> THEN <<[a \in DOMAIN aggregates |-> ValueWithoutRows(aggregates[a].function)]>>
      ELSE [k \in DOMAIN order |-> groups(order[k]) \o values(order[k])]

\* The keys of a table, in any order.
KeyOrders(base, table, groupby) ==
  SetToSeqs({AggregateKey(base, table, groupby, r) : r \in ToSet(TableRows(table))})

-----------------------------------------------------------------------------
(* What GROUP BY has to compute: one row per combination of group values,    *)
(* NULL being a group of its own, and the aggregates of the values that are  *)
(* not NULL.                                                                 *)

AggregateOf(function, column, values, count) ==
  LET present == SelectSeq(values, LAMBDA v : v # Null)
      sum == FoldLeft(LAMBDA s, v : s + v, 0, present)
  IN  CASE function = "Count" -> IF column = 0 THEN count ELSE Len(present)
        [] function = "CountDistinct" -> Cardinality(ToSet(present))
        [] present = <<>> -> Null
        [] function = "Min" -> Min(ToSet(present))
        [] function = "Max" -> Max(ToSet(present))
        [] function = "Sum" -> sum
        [] function = "Avg" -> <<sum, Len(present)>>

GroupedRows(base, table, groupby, aggregates) ==
  LET all == AllValues(base, table)
      key(values) == [g \in DOMAIN groupby |-> values[groupby[g]]]
      row(k) == LET members == SelectSeq(all, LAMBDA values : key(values) = k)
                    column(a) == [i \in DOMAIN members |-> IF a.column = 0 THEN 0 ELSE members[i][a.column]]
                IN  k \o [a \in DOMAIN aggregates |->
                            AggregateOf(aggregates[a].function, aggregates[a].column,
                                        column(aggregates[a]), Len(members))]
      keys == {key(all[k]) : k \in DOMAIN all} \cup (IF groupby = <<>> THEN {<<>>} ELSE {})
  IN  {row(k) : k \in keys}

-----------------------------------------------------------------------------
(***************************************************************************)
(* TableScan and its implementations (src/lib/operators/table_scan.cpp and *)
(* table_scan/): comparison with a value, with another column, IS NULL and *)
(* LIKE, on value, dictionary and encoded segments and on reference        *)
(* segments that point into them.                                          *)
(*                                                                         *)
(* A data table is a sequence of segments, one per chunk.  A reference     *)
(* table's chunk is a position list into a data table.                     *)
(***************************************************************************)

(* An entry of an iterator: the cell and the offset it reports.            *)
Entry(cell, chunk_offset) == [cell |-> cell, chunk_offset |-> chunk_offset]

Sequential(segment) ==
    LET cells == SequentialCells(segment) IN [i \in DOMAIN cells |-> Entry(cells[i], i)]

(* mapped is a list of [into_referencing, into_referenced].                *)
PointAccess(segment, mapped) ==
    LET cells == PointAccessCells(segment, [k \in DOMAIN mapped |-> mapped[k].into_referenced])
    IN [k \in DOMAIN mapped |-> Entry(cells[k], mapped[k].into_referencing)]

Identity(n) == [i \in 1..n |-> [into_referencing |-> i, into_referenced |-> i]]

with_iterators(segment, mapped) ==
    IF mapped = Identity(SegmentSize(segment)) THEN Sequential(segment) ELSE PointAccess(segment, mapped)

(* The hot loops of BaseTableScanImpl: NULLs never match.                  *)
Offsets(entries) == [k \in DOMAIN entries |-> entries[k].chunk_offset]

_unary_scan(entries, Matches(_)) ==
    Offsets(SelectSeq(entries, LAMBDA e : e.cell # Null /\ Matches(e.cell)))

_binary_scan(left, right, condition) ==
    Offsets(SelectSeq([k \in DOMAIN left |-> [left[k] EXCEPT !.cell = <<left[k].cell, right[k].cell>>]],
                      LAMBDA e : /\ e.cell[1] # Null /\ e.cell[2] # Null
                                 /\ with_comparator(condition, e.cell[1], e.cell[2])))

-----------------------------------------------------------------------------
(* SingleColumnTableScanImpl on a dictionary segment: the value is looked  *)
(* up once and the attribute vector is compared with its id.               *)

_get_search_value_id(dictionary_segment, condition, value) ==
    IF condition \in {"Equals", "NotEquals", "LessThan", "GreaterThanEquals"}
    THEN lower_bound(dictionary_segment, value, LessInt)
    ELSE upper_bound(dictionary_segment, value, LessInt)

_right_value_matches_all(segment, condition, value, search_value_id) ==
    LET upper == upper_bound(segment, value, LessInt)
    IN CASE condition = "Equals" -> search_value_id # upper /\ Len(segment.dictionary) = 1
         [] condition = "NotEquals" -> search_value_id = upper
         [] condition \in {"LessThan", "LessThanEquals"} -> search_value_id = INVALID_VALUE_ID
         [] condition \in {"GreaterThan", "GreaterThanEquals"} -> search_value_id = 0

_right_value_matches_none(segment, condition, value, search_value_id) ==
    LET upper == upper_bound(segment, value, LessInt)
    IN CASE condition = "Equals" -> search_value_id = upper
         [] condition = "NotEquals" -> search_value_id = upper /\ Len(segment.dictionary) = 1
         [] condition \in {"LessThan", "LessThanEquals"} -> search_value_id = 0
         [] condition \in {"GreaterThan", "GreaterThanEquals"} -> search_value_id = INVALID_VALUE_ID

_with_operator_for_dict_segment_scan(condition, value_id, search_value_id) ==
    CASE condition = "Equals" -> value_id = search_value_id
      [] condition = "NotEquals" -> value_id # search_value_id
      [] condition \in {"LessThan", "LessThanEquals"} -> value_id < search_value_id
      [] condition \in {"GreaterThan", "GreaterThanEquals"} -> value_id >= search_value_id

(* AttributeVectorIterable: the ids instead of the values.                 *)
ValueIds(segment, mapped) ==
    [k \in DOMAIN mapped |->
        LET value_id == segment.attribute_vector[mapped[k].into_referenced]
        IN Entry(IF value_id = segment.null_value_id THEN Null ELSE value_id, mapped[k].into_referencing)]

ScanDictionarySegment(segment, mapped, condition, value) ==
    LET search_value_id == _get_search_value_id(segment, condition, value)
        left == ValueIds(segment, mapped)
    IN IF _right_value_matches_all(segment, condition, value, search_value_id)
       THEN _unary_scan(left, LAMBDA id : TRUE)
       ELSE IF _right_value_matches_none(segment, condition, value, search_value_id) THEN <<>>
       ELSE _unary_scan(left, LAMBDA id :
                _with_operator_for_dict_segment_scan(condition, id, search_value_id))

SingleColumnScan(segment, mapped, condition, value) ==
    IF segment.encoding = "Dictionary"
    THEN ScanDictionarySegment(segment.data, mapped, condition, value)
    ELSE _unary_scan(with_iterators(segment, mapped), LAMBDA v : with_comparator(condition, v, value))

-----------------------------------------------------------------------------
(* IsNullTableScanImpl.  A value segment that is not nullable is not read. *)

_matches_all(value_segment, condition) == condition = "IsNotNull" /\ ~value_segment.nullable
_matches_none(value_segment, condition) == condition = "IsNull" /\ ~value_segment.nullable

_scan(entries, condition) ==
    Offsets(SelectSeq(entries, LAMBDA e : (e.cell = Null) = (condition = "IsNull")))

IsNullScan(segment, mapped, condition) ==
    IF segment.encoding = "Unencoded" /\ _matches_all(segment.data, condition)
    THEN [k \in DOMAIN mapped |-> mapped[k].into_referencing]
    ELSE IF segment.encoding = "Unencoded" /\ _matches_none(segment.data, condition) THEN <<>>
    ELSE _scan(with_iterators(segment, mapped), condition)

-----------------------------------------------------------------------------
(* Reference segments: the positions are split by the chunk they point to, *)
(* keeping their place in the position list; NULL_ROW_ID goes nowhere.     *)

split_pos_list_by_chunk_id(pos_list, chunk) ==
    SelectSeq([k \in DOMAIN pos_list |-> [into_referencing |-> k, into_referenced |-> pos_list[k][2],
                                          chunk_id |-> pos_list[k][1]]],
              LAMBDA e : e.chunk_id = chunk /\ pos_list[e.into_referencing] # NULL_ROW_ID)

(* The values a condition compares with; no value for IS [NOT] NULL.       *)
ScanSegment(segment, mapped, condition, value) ==
    IF condition \in {"IsNull", "IsNotNull"} THEN IsNullScan(segment, mapped, condition)
    ELSE SingleColumnScan(segment, mapped, condition, value)

(* The offsets that scan_chunk returns for a chunk of a reference table.   *)
ScanReferenceSegment(data_table, pos_list, condition, value) ==
    FlattenSeq([c \in DOMAIN data_table |->
        ScanSegment(data_table[c], split_pos_list_by_chunk_id(pos_list, c), condition, value)])
    \o IF condition # "IsNull" THEN <<>>
       ELSE SelectSeq([k \in DOMAIN pos_list |-> k], LAMBDA k : pos_list[k] = NULL_ROW_ID)

(* SingleColumnTableScanImpl::scan_chunk: nothing compares with NULL.      *)
scan_chunk(data_table, c, condition, value) ==
    IF condition \notin {"IsNull", "IsNotNull"} /\ value = Null THEN <<>>
    ELSE ScanSegment(data_table[c], Identity(SegmentSize(data_table[c])), condition, value)

ScanReferenceChunk(data_table, pos_list, condition, value) ==
    IF condition \notin {"IsNull", "IsNotNull"} /\ value = Null THEN <<>>
    ELSE ScanReferenceSegment(data_table, pos_list, condition, value)

(* ReferenceSegmentIterable: reads every position through an accessor.     *)
ReferenceCells(data_table, pos_list) ==
    [k \in DOMAIN pos_list |-> IF pos_list[k] = NULL_ROW_ID THEN Null
                               ELSE get_typed_value(data_table[pos_list[k][1]], pos_list[k][2])]

(* ColumnComparisonTableScanImpl.                                          *)
ColumnComparisonScan(left_segment, right_segment, condition) ==
    _binary_scan(Sequential(left_segment), Sequential(right_segment), condition)

ColumnComparisonReferenceScan(left_table, right_table, pos_list, condition) ==
    LET entries(table) == LET cells == ReferenceCells(table, pos_list)
                          IN [k \in DOMAIN cells |-> Entry(cells[k], IF cells[k] = Null THEN 1 ELSE k)]
    IN _binary_scan(entries(left_table), entries(right_table), condition)

(* TableScan::_on_execute: the output is a table of references to the data *)
(* table, one chunk per input chunk with a match; the positions of a       *)
(* reference table are resolved.                                           *)
ScanDataTable(data_table, excluded_chunk_ids, condition, value) ==
    SelectSeq([c \in DOMAIN data_table |->
                  IF c \in excluded_chunk_ids THEN <<>>
                  ELSE LET matches == scan_chunk(data_table, c, condition, value)
                       IN [k \in DOMAIN matches |-> <<c, matches[k]>>]],
              LAMBDA chunk : chunk # <<>>)

ScanReferenceTable(data_table, pos_lists, condition, value) ==
    SelectSeq([c \in DOMAIN pos_lists |->
                  LET matches == ScanReferenceChunk(data_table, pos_lists[c], condition, value)
                  IN [k \in DOMAIN matches |-> pos_lists[c][matches[k]]]],
              LAMBDA chunk : chunk # <<>>)

-----------------------------------------------------------------------------
(* LikeTableScanImpl.  On a dictionary the matcher runs once per distinct  *)
(* string; dictionary holds the strings that dictionary() returns.         *)

_find_matches_in_dictionary(dictionary, variant, invert_results) ==
    [id \in DOMAIN dictionary |-> resolve(variant, invert_results, dictionary[id])]

LikeScanDictionary(dictionary, segment, variant, invert_results) ==
    LET dictionary_matches == _find_matches_in_dictionary(dictionary, variant, invert_results)
        match_count == Cardinality({id \in DOMAIN dictionary : dictionary_matches[id]})
        left == ValueIds(segment, Identity(Len(segment.attribute_vector)))
    IN IF match_count = Len(dictionary_matches) THEN _unary_scan(left, LAMBDA id : TRUE)
       ELSE IF match_count = 0 THEN <<>>
       ELSE _unary_scan(left, LAMBDA id : dictionary_matches[id + 1])

LikeScan(encoding, value_segment, pattern, invert_results) ==
    LET variant == pattern_string_to_pattern_variant(pattern)
        dictionary == EncodeDictionary(value_segment, LessString)
        fixed == EncodeFixedString(value_segment)
        cells == [i \in DOMAIN value_segment.values |-> Entry(ValueSegmentGet(value_segment, i), i)]
    IN CASE encoding = "Unencoded" ->
               _unary_scan(cells, LAMBDA v : resolve(variant, invert_results, v))
         [] encoding = "Dictionary" ->
               LikeScanDictionary(dictionary.dictionary, dictionary, variant, invert_results)
         [] encoding = "FixedStringDictionary" ->
               LikeScanDictionary(fixed.strings, fixed, variant, invert_results)

=============================================================================
