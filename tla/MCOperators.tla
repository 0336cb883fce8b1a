---------------------------- MODULE MCOperators ----------------------------
(***************************************************************************)
(* The relational operators on every small input.  A behaviour appends     *)
(* rows to the inputs of one group of operators, its subject, and executes *)
(* them at some point: each operator's output is then compared with what   *)
(* the operator means.  For the parallel sort-merge join (MPSM) a          *)
(* behaviour runs its jobs.                                                *)
(***************************************************************************)
EXTENDS JoinOperators, RelationalOperators

VARIABLES
  subject,             \* "joins", "mpsm", "scans", "like" or "rows"
  executed,            \* the operators have been executed
  in_order,            \* MPSM: its jobs run one after the other
  left, right,         \* joins: the two join columns
  column, positions,   \* scans: the segments of a column, a position list into it
  base, left_rows, right_rows \* rows: a data table and two tables referencing it

vars == <<subject, executed, in_order, left, right, column, positions, base, left_rows, right_rows, mpsm_vars>>

NoTable == [type |-> "References", columns |-> <<"int", "int">>, chunks |-> <<>>, of |-> <<1, 1>>]

\* 12 followed by 1 and 1 followed by 21 read the same without separators.
Base == [NoTable EXCEPT !.type = "Data",
                        !.chunks = <<<<<<Null, 2>>>>, <<<<1, 21>>, <<12, 1>>>>>>]

ArtNodeSizes == <<1, 2, 3, 4>>
Hash(value) == value

MPSMTables == {<<>>, <<<<0>>>>, <<<<Null, 1>>, <<1>>>>, <<<<0, 2>>, <<1>>>>,
               <<<<0>>, <<1, 2>>, <<0>>>>, <<<<2>>, <<0, 1>>>>}

\* The chunks of a table lie on the nodes in turn.
Placement(table, nodes) == [c \in DOMAIN table |-> ((c - 1) % nodes) + 1]

Init ==
  /\ subject \in {"joins", "mpsm", "scans", "like", "rows"}
  /\ executed = FALSE
  /\ column = <<>> /\ positions = <<>>
  /\ base = Base
  /\ left_rows \in {[NoTable EXCEPT !.of = of] : of \in {<<1, 1>>, <<1, 2>>}}
  /\ right_rows \in {[NoTable EXCEPT !.of = of] : of \in {<<1, 1>>, <<1, 2>>}}
  /\ subject # "rows" => left_rows = NoTable /\ right_rows = NoTable
  /\ IF subject # "mpsm"
     THEN /\ left = <<>> /\ right = <<>> /\ in_order = TRUE
          /\ InitMPSM(<<>>, <<>>, <<>>, <<>>, 1, "Inner")
     ELSE /\ left \in MPSMTables /\ right \in MPSMTables /\ in_order \in BOOLEAN
          /\ \E nodes \in 1..2, mode \in JoinModes :
               InitMPSM(left, right, Placement(left, nodes), Placement(right, nodes),
                        _determine_number_of_clusters(nodes), mode)

AppendLeft(cell) ==
  /\ subject = "joins" /\ row_count(left) < 3 /\ right = <<>>
  /\ left' = append(left, 2, cell)
  /\ UNCHANGED <<subject, executed, in_order, right, column, positions, base, left_rows, right_rows, mpsm_vars>>

AppendRight(cell) ==
  /\ subject = "joins" /\ row_count(right) < 3
  /\ right' = append(right, 2, cell)
  /\ UNCHANGED <<subject, executed, in_order, left, column, positions, base, left_rows, right_rows, mpsm_vars>>

JobStep(c) ==
  /\ subject = "mpsm"
  /\ in_order => \A d \in 1..(c - 1) : job[d].step = "done"
  /\ _join_cluster(c)
  /\ UNCHANGED <<subject, executed, in_order, left, right, column, positions, base, left_rows, right_rows>>

\* A cell goes to the last segment of the column, or to a new one.
AppendCell(cell, default) ==
  /\ positions = <<>>
  /\ Len(FlattenSeq([c \in DOMAIN column |-> column[c].values])) < 3
  /\ column' = IF column = <<>> \/ Len(Last(column).values) = 2
               THEN Append(column, ValueSegmentAppend(ValueSegment(TRUE), cell, default))
               ELSE [column EXCEPT ![Len(column)] = ValueSegmentAppend(@, cell, default)]
  /\ UNCHANGED <<subject, executed, in_order, left, right, positions, base, left_rows, right_rows, mpsm_vars>>

AppendInt(cell) == subject = "scans" /\ AppendCell(cell, 0)
AppendString(cell) == subject = "like" /\ AppendCell(cell, <<>>)

ColumnRows == FlattenSeq([c \in DOMAIN column |-> [i \in DOMAIN column[c].values |-> <<c, i>>]])

AppendPosition(row) ==
  /\ subject = "scans" /\ Len(positions) < 3
  /\ positions' = Append(positions, row)
  /\ UNCHANGED <<subject, executed, in_order, left, right, column, base, left_rows, right_rows, mpsm_vars>>

\* A row of a reference table: a row id for each of its position lists.
AppendedRow(table, rows) ==
  LET last == Len(table.chunks)
  IN  IF table.chunks = <<>> \/ ChunkSize(table, last) = 2
      THEN [table EXCEPT !.chunks =
              Append(@, [lists |-> [k \in 1..Max(ToSet(table.of)) |-> <<rows[k]>>], of |-> table.of])]
      ELSE [table EXCEPT !.chunks[last].lists = [k \in DOMAIN @ |-> Append(@[k], rows[k])]]

AppendLeftRow(rows) ==
  /\ subject = "rows"
  /\ Len(TableRows(left_rows)) < IF left_rows.of = <<1, 1>> THEN 3 ELSE 2
  /\ left_rows.of = <<1, 1>> => rows[1] = rows[2]
  /\ left_rows' = AppendedRow(left_rows, rows)
  /\ UNCHANGED <<subject, executed, in_order, left, right, column, positions, base, right_rows, mpsm_vars>>

AppendRightRow(rows) ==
  /\ subject = "rows" /\ Len(TableRows(right_rows)) < 1
  /\ right_rows.of = <<1, 1>> => rows[1] = rows[2]
  /\ right_rows' = AppendedRow(right_rows, rows)
  /\ UNCHANGED <<subject, executed, in_order, left, right, column, positions, base, left_rows, mpsm_vars>>

Strings == {Null, <<>>, <<1>>, <<1, 1>>, <<1, 2>>}

GrowInput ==
  \/ \E cell \in {Null, NullRef, 0, 1} : AppendLeft(cell)
  \/ \E cell \in {Null, 0, 1} : AppendRight(cell)
  \/ \E cell \in {Null, 0, 1} : AppendInt(cell)
  \/ \E cell \in Strings : AppendString(cell)
  \/ \E row \in {NULL_ROW_ID} \cup ToSet(ColumnRows) : AppendPosition(row)
  \/ \E rows \in {<<2, 1>>, <<2, 2>>, NULL_ROW_ID} \X {<<2, 1>>, <<2, 2>>, NULL_ROW_ID} : AppendLeftRow(rows)
  \/ \E rows \in {<<2, 2>>, <<1, 1>>} \X {<<2, 2>>, <<1, 1>>} : AppendRightRow(rows)

Execute ==
  /\ subject = "mpsm" => AllJobsDone
  /\ executed' = TRUE
  /\ UNCHANGED <<subject, in_order, left, right, column, positions, base, left_rows, right_rows, mpsm_vars>>

Next == ~executed /\ (GrowInput \/ (\E c \in Clusters : JobStep(c)) \/ Execute)

Spec == Init /\ [][Next]_vars

-----------------------------------------------------------------------------
(* Joins                                                                    *)

Has(table, cell) == \E row \in ToSet(Rows(table)) : Cell(table, row) = cell

\* The inputs on which JoinHash is a join: an outer join looks NULL up as the
\* default value, loses the offset of a NULL_ROW_ID, and a Right join takes the
\* left input for the probe side when that is the larger one.
JoinHashHolds(mode) ==
  /\ mode = "Right" => row_count(left) <= row_count(right) /\ ~(Has(right, Null) /\ Has(left, 0))
  /\ mode = "Left" => ~Has(left, NullRef) /\ ~(Has(left, Null) /\ Has(right, 0))

(* The hash join emits every pair of matching rows once, and the unmatched  *)
(* rows its mode asks for, however many partitions the radix makes:         *)
(* materialising, histograms, partitioning, building and probing lose and   *)
(* duplicate nothing (JoinHashImpl::_on_execute).                           *)
HashJoinIsJoin ==
  subject = "joins" =>
    \A radix_bits \in 0..1, mode \in {"Inner", "Left", "Right", "Semi", "Anti"} :
      JoinHashHolds(mode) =>
        Lists(JoinHashOutput(left, right, mode, radix_bits), Join(left, right, mode, "Equals"))

\* The inputs on which JoinSortMerge is a join: it asserts on some, reads the
\* smallest value of a side without values, and finds the partnerless rows of
\* an outer join on an inequality only when some row has a partner.
JoinSortMergeHolds(mode, condition) ==
  /\ Supported(left, right, mode, condition)
  /\ ~MinValueThrows(left, right, mode, condition)
  /\ mode \in {"Left", "Outer"} => ~Has(left, NullRef)
  /\ condition # "Equals" => \/ mode = "Inner"
                             \/ mode = "Outer" /\ MatchingPairs(left, right, condition) # {}

(* The sort-merge join emits the same rows for all conditions: clustering   *)
(* by radix or range, whatever a chunk without values contributes to the    *)
(* borders, sorting, and merging runs of equal values across clusters.      *)
SortMergeJoinIsJoin ==
  subject = "joins" =>
    \A mode \in JoinModes, condition \in Conditions, garbage \in 0..1 :
      JoinSortMergeHolds(mode, condition) =>
        Lists(JoinSortMergeOutput(left, right, <<>>, <<>>, mode, condition, garbage),
              Join(left, right, mode, condition))

\* A left input whose rows reference rows of another table.
Original(table) == [c \in DOMAIN table |-> [o \in DOMAIN table[c] |-> <<c + 10, o + 10>>]]

Resolved(pairs) == {<<Dereference(Original(left), <<p[1]>>)[1], p[2]>> : p \in pairs}

(* The nested loop join emits them too and resolves a referencing input to  *)
(* the rows it references, except for a full outer join with an empty left  *)
(* input and a Right join on an inequality.                                 *)
NestedLoopJoinIsJoin ==
  subject = "joins" =>
    \A mode \in JoinModes, condition \in Conditions :
      /\ mode = "Outer" => left # <<>>
      /\ mode = "Right" => condition \in {"Equals", "NotEquals"}
      => Lists(JoinNestedLoopOutput(left, right, Original(left), <<>>, mode, condition, {}),
               Resolved(Join(left, right, mode, condition)))

ChunkIndexes == {<<>>, <<"GroupKey">>, <<"BTree", "AdaptiveRadixTree">>, <<"CompositeGroupKey", "GroupKey">>}

(* The index join finds them through the indexes of the right chunks, or by *)
(* a nested loop where there is none.  A range up to the end of an index    *)
(* holds its NULL rows, so that an indexed input must have no NULL.         *)
IndexJoinIsJoin ==
  subject = "joins" =>
    \A mode \in JoinModes, condition \in Conditions, indexes \in ChunkIndexes :
      /\ Len(indexes) <= Len(right)
      /\ indexes # <<>> => ~Has(right, Null)
      => Lists(JoinIndexOutput(left, right, Original(left), indexes, mode, condition),
               Resolved(Join(left, right, mode, condition)))

MPSMPairs == Zip(OutputLeft(left, right, <<>>), OutputRight(left, right, <<>>))

(* The jobs of the MPSM join, run one after the other, together emit the    *)
(* rows of the join, although each appends to lists that another created.   *)
MPSMJoinIsJoin ==
  subject = "mpsm" /\ in_order /\ AllJobsDone =>
    /\ ~crashed
    /\ Len(OutputLeft(left, right, <<>>)) = Len(OutputRight(left, right, <<>>))
    /\ Lists(MPSMPairs, Join(left, right, _mode, "Equals"))

-----------------------------------------------------------------------------
(* Scans                                                                    *)

CellAt(row) == IF row = NULL_ROW_ID THEN Null ELSE ValueSegmentGet(column[row[1]], row[2])

Satisfies(cell, condition, value) ==
  CASE condition = "IsNull"    -> cell = Null
    [] condition = "IsNotNull" -> cell # Null
    [] OTHER -> value # Null /\ cell # Null /\ with_comparator(condition, cell, value)

SortedRows(rows) == SortSeq(rows, LessRowID)

(* A table scan returns the rows whose cell satisfies the condition, each   *)
(* as often as it occurs, under every encoding, on a data table and through *)
(* a position list with repeated positions and NULL_ROW_ID: the value id    *)
(* shortcuts of dictionaries and the split by chunk change nothing.         *)
ScanIsFilter ==
  subject = "scans" =>
    \A encoding \in IntEncodings, condition \in Conditions \cup {"IsNull", "IsNotNull"}, value \in {Null, -1, 0, 1} :
      \A table \in {[c \in DOMAIN column |-> Encode(encoding, column[c])]} :
        /\ positions = <<>> =>
             FlattenSeq(ScanDataTable(table, {}, condition, value))
               = SelectSeq(ColumnRows, LAMBDA row : Satisfies(CellAt(row), condition, value))
        /\ SortedRows(FlattenSeq(ScanReferenceTable(table, <<positions>>, condition, value)))
             = SortedRows(SelectSeq(positions, LAMBDA row : Satisfies(CellAt(row), condition, value)))

\* A column of the same rows with other cells.
Mirrored == [c \in DOMAIN column |->
              [column[c] EXCEPT !.values = Reverse(@), !.null_values = Reverse(@)]]

(* A scan that compares two columns returns the rows where both have a      *)
(* value and these satisfy the condition, on segments and through position  *)
(* lists (ColumnComparisonTableScanImpl).                                   *)
ColumnComparisonIsFilter ==
  subject = "scans" =>
    \A condition \in Conditions, mirrored \in {Mirrored} :
      \A satisfied \in {{row \in ToSet(ColumnRows) :
                         Satisfies(CellAt(row), condition, ValueSegmentGet(mirrored[row[1]], row[2]))}} :
        /\ positions = <<>> => \A c \in DOMAIN column :
             ColumnComparisonScan(Encode("Dictionary", column[c]), Encode("RunLength", mirrored[c]), condition)
               = SelectSeq([i \in DOMAIN column[c].values |-> i], LAMBDA i : <<c, i>> \in satisfied)
        /\ ColumnComparisonReferenceScan([c \in DOMAIN column |-> Encode("Unencoded", column[c])],
                                         [c \in DOMAIN column |-> Encode("Dictionary", mirrored[c])],
                                         positions, condition)
             = SelectSeq([k \in DOMAIN positions |-> k], LAMBDA k : positions[k] \in satisfied)

Patterns == {<<AnyChars>>, <<1, AnyChars>>, <<AnyChars, 1>>, <<AnyChars, 1, AnyChars>>, <<SingleChar, 1>>,
             <<AnyChars, 1, AnyChars, 1, AnyChars>>, <<1, AnyChars, 2>>, <<AnyChars, 1, SingleChar>>}

(* A LIKE scan returns the rows whose string matches the pattern, whichever *)
(* matcher the pattern is given to and however the segment is encoded; a    *)
(* fixed string dictionary of nothing but empty strings is left out.        *)
LikeScanIsFilter ==
  subject = "like" =>
    \A c \in DOMAIN column, encoding \in {"Unencoded", "Dictionary", "FixedStringDictionary"},
       pattern \in Patterns, invert \in BOOLEAN :
      (encoding = "FixedStringDictionary" => \E i \in DOMAIN column[c].values : column[c].values[i] # <<>>) =>
        LikeScan(encoding, column[c], pattern, invert)
          = SelectSeq([i \in DOMAIN column[c].values |-> i],
                      LAMBDA i : /\ ValueSegmentGet(column[c], i) # Null
                                 /\ Like(ValueSegmentGet(column[c], i), pattern) # invert)

-----------------------------------------------------------------------------
(* Operators on whole rows                                                  *)

HasNullRowID(table) ==
  table.type = "References" /\ \E c \in DOMAIN table.chunks :
    \E list \in ToSet(table.chunks[c].lists) : NULL_ROW_ID \in ToSet(list)

Precedes(a, b, mode) ==
  IF Null \in {a, b}
  THEN a # b /\ (IF mode \in {"AscendingNullsLast", "DescendingNullsLast"} THEN b = Null ELSE a = Null)
  ELSE IF mode \in {"Ascending", "AscendingNullsLast"} THEN a < b ELSE a > b

(* Sort puts every row behind exactly the rows that precede it and those of *)
(* the same key that came before it, NULLs first or last as asked, whatever *)
(* the size of the output chunks.  Inputs with NULL_ROW_ID are left out:    *)
(* their rows are reported at the first offset of the chunk.                *)
SortIsStable ==
  subject = "rows" =>
    \A table \in {left_rows, base}, mode \in OrderByModes, key \in 1..2, size \in 1..2 :
      ~HasNullRowID(table) =>
        \A in \in {AllValues(base, table)}, out \in {AllValues(base, Sort(base, table, key, mode, size))} :
          \A i \in DOMAIN in :
            out[1 + Cardinality({j \in DOMAIN in :
                       \/ Precedes(in[j][key], in[i][key], mode)
                       \/ j < i /\ ~Precedes(in[i][key], in[j][key], mode)})] = in[i]

Occurs(sequence, element) == Cardinality({k \in DOMAIN sequence : sequence[k] = element})

\* The row ids that the columns of each row use.
RowIDs(table, columns) ==
  LET rows == TableRows(table)
  IN  [k \in DOMAIN rows |-> [i \in 1..columns |->
         InRowID(table, rows[k][1], InPosList(table, rows[k][1], i), rows[k][2])]]

(* UnionPositions keeps every combination of row ids as often as the input  *)
(* that has it more often, also when the two inputs' columns share their    *)
(* position lists differently.                                              *)
UnionIsSetUnion ==
  subject = "rows" =>
    \A l \in {RowIDs(left_rows, 2)}, r \in {RowIDs(right_rows, 2)}, size \in 1..2 :
      \A u \in {RowIDs(UnionPositions(left_rows, right_rows, size), 2)} :
        \A row \in ToSet(l) \cup ToSet(r) \cup ToSet(u) :
          Occurs(u, row) = Max({Occurs(l, row), Occurs(r, row)})

(* Difference keeps, in order, the rows whose values are no row of the      *)
(* right input, although it compares concatenated strings.                  *)
DifferenceIsExcept ==
  subject = "rows" =>
    \A table \in {right_rows, base} :
      AllValues(base, Difference(base, left_rows, table))
        = SelectSeq(AllValues(base, left_rows), LAMBDA values : values \notin ToSet(AllValues(base, table)))

(* Limit takes the first rows over the borders of chunks, and GetTable the  *)
(* rows of the chunks that are not excluded.                                *)
PrefixAndChunksKept ==
  subject = "rows" =>
    /\ \A table \in {left_rows, base}, n \in 0..4 :
         AllValues(base, Limit(table, n)) = SubSeq(AllValues(base, table), 1, Min({n, Len(TableRows(table))}))
    /\ \A excluded \in SUBSET (DOMAIN base.chunks) :
         ToSet(AllValues(base, GetTable(base, excluded)))
           = {RowValues(base, base, row) : row \in {r \in ToSet(TableRows(base)) : r[1] \notin excluded}}

(* Product pairs every left row with every right row, with multiplicity,    *)
(* and each output column keeps the position list of its input column.      *)
ProductPairsAll ==
  subject = "rows" =>
    \A l \in {RowIDs(left_rows, 2)}, r \in {RowIDs(right_rows, 2)},
       p \in {RowIDs(Product(left_rows, right_rows), 4)} :
      /\ Len(p) = Len(l) * Len(r)
      /\ \A x \in ToSet(l), y \in ToSet(r) : Occurs(p, x \o y) = Occurs(l, x) * Occurs(r, y)

\* The position lists of the two columns of a table, one per chunk.
PosLists(table) ==
  [i \in 1..2 |-> [c \in DOMAIN table.chunks |-> table.chunks[c].lists[table.chunks[c].of[i]]]]

(* The output segments of a hash join resolve the positions of both inputs  *)
(* column by column, columns with equal position lists sharing theirs: for  *)
(* all pairs of rows they are what Product returns (write_output_segments). *)
HashSegmentsResolve ==
  subject = "rows" =>
    \A pairs \in {SetToSeq(ToSet(TableRows(left_rows)) \X ToSet(TableRows(right_rows)))} :
      \A segments \in {JoinHashSegments(PosLists(left_rows), PosLists(right_rows), pairs, "Inner")} :
        \A p \in {RowIDs(Product(left_rows, right_rows), 4)} :
          /\ Len(segments) = 4 /\ Len(pairs) = Len(p)
          /\ \A row \in ToSet(p) :
               Occurs(p, row) = Occurs([k \in DOMAIN pairs |-> [i \in 1..4 |-> segments[i][k]]], row)

BaseCells == {Null, 1, 2, 12, 21}
Sum == [type |-> "Arithmetic",
        compute |-> [values \in BaseCells \X BaseCells |->
                       IF Null \in ToSet(values) THEN Null ELSE values[1] + values[2]]]
ColumnExpression(i) == [type |-> "PQPColumn", column_id |-> i]

(* Projection, whether it forwards its input's segments or evaluates, Alias *)
(* and UnionAll give every row of the input once, in order, with the values *)
(* of the columns they name.                                                *)
RowsPassThrough ==
  subject = "rows" =>
    \A table \in {left_rows, base} : \A values \in {AllValues(base, table)} :
      /\ \A expressions \in {<<ColumnExpression(2), ColumnExpression(1)>>, <<Sum, ColumnExpression(1)>>} :
           FlattenSeq(ProjectionOutput(base, table, expressions))
             = [k \in DOMAIN values |-> [e \in DOMAIN expressions |-> Evaluate(expressions[e], values[k])]]
      /\ AliasSegments(base, table, <<2, 1>>) = [k \in DOMAIN values |-> <<values[k][2], values[k][1]>>]
      /\ AliasDefinitions(table, <<2, 1>>, <<"x", "y">>)
           = <<[name |-> "x", type |-> table.columns[2]], [name |-> "y", type |-> table.columns[1]]>>
      /\ AllValues(base, UnionAll(left_rows, right_rows)) = AllValues(base, left_rows) \o AllValues(base, right_rows)

Aggregates == {<<>>,
               <<[function |-> "Min", column |-> 2], [function |-> "Avg", column |-> 1]>>,
               <<[function |-> "Count", column |-> 0], [function |-> "Count", column |-> 1]>>,
               <<[function |-> "CountDistinct", column |-> 2], [function |-> "Max", column |-> 1]>>}

(* Aggregate returns one row per group, NULL being a group, with the        *)
(* aggregates of that group, in whatever order its hash maps hand out their *)
(* keys.                                                                    *)
AggregateIsGroupBy ==
  subject = "rows" =>
    \A groupby \in {<<>>, <<1>>, <<2, 1>>}, aggregates \in Aggregates :
      groupby # <<>> \/ aggregates # <<>> =>
        \A order \in KeyOrders(base, left_rows, groupby) :
          Lists(Aggregate(base, left_rows, groupby, aggregates, order),
                GroupedRows(base, left_rows, groupby, aggregates))

-----------------------------------------------------------------------------
JoinOutputs ==
  HashJoinIsJoin /\ SortMergeJoinIsJoin /\ NestedLoopJoinIsJoin /\ IndexJoinIsJoin /\ MPSMJoinIsJoin
OperatorOutputs ==
  /\ ScanIsFilter /\ ColumnComparisonIsFilter /\ LikeScanIsFilter
  /\ SortIsStable /\ UnionIsSetUnion /\ DifferenceIsExcept
  /\ PrefixAndChunksKept /\ RowsPassThrough /\ ProductPairsAll /\ HashSegmentsResolve /\ AggregateIsGroupBy


(* Scans, Sort, UnionPositions, Difference, Limit, GetTable, Product and     *)
(* Aggregate return what relational algebra says, under every encoding and   *)
(* split into chunks, and through position lists.                            *)
OperatorsMatchDefinitions == [][Execute => OperatorOutputs]_vars

=============================================================================
