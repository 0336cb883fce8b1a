--------------------------- MODULE LQPTranslator ----------------------------
(***************************************************************************)
(* LQPTranslator (src/lib/logical_query_plan/lqp_translator.cpp): the      *)
(* operators that execute a logical plan, and what they compute.           *)
(*                                                                         *)
(* An operator is [operator, inputs, arg]; a node that two others hold is  *)
(* translated once, which makes no difference to its result.  Columns are  *)
(* numbered from 1, chunks as well.  An assertion that fails gives the     *)
(* operator or the expression that throws.                                 *)
(***************************************************************************)
EXTENDS Optimizer

(***************************************************************************)
(* The just-in-time operators (src/lib/operators/jit_operator/ and         *)
(* jit_operator_wrapper.cpp): a chain that reads the tuples of a table one *)
(* by one into a runtime tuple, computes expressions into further slots of *)
(* it, filters, and writes or aggregates.  The runtime tuple lives for the *)
(* whole query: a slot that is NULL keeps the value it had before.         *)
(*                                                                         *)
(* A slot is [value, null]; a JitTupleValue is [type, nullable, index],    *)
(* and Booleans are 0 and 1.  Columns and literals are integers or NULL.   *)
(***************************************************************************)

CONSTANTS jit_hash_of(_),      \* std::hash of an integer, below 2^5
          Unspecified          \* the integer the code reads where the language leaves it undefined

ASSUME JitHashAssumption == \A v \in 0..3 : jit_hash_of(v) \in 0..31

JitTupleValue(type, nullable, index) == [type |-> type, nullable |-> nullable, index |-> index]

-----------------------------------------------------------------------------
(* JitReadTuples: the columns and literals read and the slots handed out.  *)

NewReadTuples == [columns |-> <<>>, literals |-> <<>>, slots |-> 0]

add_input_column(source, type, nullable, column_id) ==
    LET known == SelectInSeq(source.columns, LAMBDA c : c.column_id = column_id)
        value == JitTupleValue(type, nullable, source.slots + 1)
    IN IF known # 0 THEN [source |-> source, value |-> source.columns[known].value]
       ELSE [source |-> [source EXCEPT !.columns = Append(@, [column_id |-> column_id, value |-> value]), !.slots = @ + 1],
             value |-> value]

add_literal_value(source, literal) ==
    LET value == JitTupleValue(literal[1], FALSE, source.slots + 1)
    IN [source |-> [source EXCEPT !.literals = Append(@, [literal |-> literal[2], value |-> value]), !.slots = @ + 1],
        value |-> value]

add_temporary_value(source) == [source EXCEPT !.slots = @ + 1]

\* A literal of the type Null is of no type that resolve_data_type knows.
LiteralsResolve(source) == \A i \in DOMAIN source.literals : source.literals[i].value.type # "Null"

\* before_query: vectors of zeros that are not NULL, and the literals.
NewTuple(source) ==
    LET literal(i) == SelectInSeq(source.literals, LAMBDA l : l.value.index = i)
    IN [i \in 1..source.slots |->
           [value |-> IF literal(i) = 0 THEN 0 ELSE source.literals[literal(i)].literal, null |-> FALSE]]

\* read_value of all columns: a NULL leaves the value in its slot.
read_values(source, tuple, cells) ==
    LET read(i) == SelectInSeq(source.columns, LAMBDA c : c.value.index = i)
        slot(i, cell) == IF cell = Null THEN [tuple[i] EXCEPT !.null = TRUE] ELSE [value |-> cell, null |-> FALSE]
    IN Evaluated([i \in DOMAIN tuple |-> IF read(i) = 0 THEN tuple[i] ELSE slot(i, cells[source.columns[read(i)].column_id])])

-----------------------------------------------------------------------------
(* The operations on slots.                                                *)

get_slot(tuple, value) == tuple[value.index].value
tuple_is_null(tuple, value) == value.nullable /\ tuple[value.index].null
SetSlot(tuple, value, v, null) == [tuple EXCEPT ![value.index] = [value |-> v, null |-> null]]
SetSlotNull(tuple, value) == [tuple EXCEPT ![value.index].null = TRUE]
AsInt(boolean) == IF boolean THEN 1 ELSE 0
IsTrue(tuple, value) == get_slot(tuple, value) # 0

jit_not(tuple, lhs, result) == SetSlot(tuple, result, AsInt(~IsTrue(tuple, lhs)), tuple_is_null(tuple, lhs))

jit_and(tuple, lhs, rhs, result) ==
    IF tuple_is_null(tuple, lhs) THEN SetSlot(tuple, result, 0, tuple_is_null(tuple, rhs) \/ IsTrue(tuple, rhs))
    ELSE SetSlot(tuple, result, AsInt(IsTrue(tuple, lhs) /\ IsTrue(tuple, rhs)), IsTrue(tuple, lhs) /\ tuple_is_null(tuple, rhs))

jit_or(tuple, lhs, rhs, result) ==
    IF tuple_is_null(tuple, lhs) THEN SetSlot(tuple, result, 1, tuple_is_null(tuple, rhs) \/ ~IsTrue(tuple, rhs))
    ELSE SetSlot(tuple, result, AsInt(IsTrue(tuple, lhs) \/ IsTrue(tuple, rhs)), ~IsTrue(tuple, lhs) /\ tuple_is_null(tuple, rhs))

jit_is_null(tuple, lhs, result) == SetSlot(tuple, result, AsInt(tuple_is_null(tuple, lhs)), FALSE)
jit_is_not_null(tuple, lhs, result) == SetSlot(tuple, result, AsInt(~tuple_is_null(tuple, lhs)), FALSE)

\* The lambdas of jit_operations.hpp; C++ rounds quotients towards zero.
Quotient(a, b) == LET q(x, y) == x \div y
                  IN IF a >= 0 /\ b > 0 THEN q(a, b) ELSE IF a < 0 /\ b > 0 THEN -q(-a, b)
                     ELSE IF a >= 0 THEN -q(a, -b) ELSE q(-a, -b)
JitFunction(type, a, b) ==
    CASE type = "Addition" -> a + b
      [] type = "Subtraction" -> a - b
      [] type = "Multiplication" -> a * b
      [] type = "Division" -> IF b = 0 THEN Unspecified ELSE Quotient(a, b)
      [] type = "Modulo" -> IF b = 0 THEN Unspecified ELSE a - b * Quotient(a, b)
      [] type = "Equals" -> AsInt(a = b)
      [] type = "NotEquals" -> AsInt(a # b)
      [] type = "LessThan" -> AsInt(a < b)
      [] type = "LessThanEquals" -> AsInt(a <= b)
      [] type = "GreaterThan" -> AsInt(a > b)
      [] type = "GreaterThanEquals" -> AsInt(a >= b)

jit_compute(type, tuple, lhs, rhs, result) ==
    IF tuple_is_null(tuple, lhs) \/ tuple_is_null(tuple, rhs) THEN SetSlotNull(tuple, result)
    ELSE SetSlot(tuple, result, JitFunction(type, get_slot(tuple, lhs), get_slot(tuple, rhs)), FALSE)

-----------------------------------------------------------------------------
(* JitExpression: [type, children, result].                                *)

jit_expression_is_binary(type) == type \notin {"Column", "Between", "Not", "IsNull", "IsNotNull"}

_compute_result_type(type, children) ==
    [type |-> IF type \in {"Addition", "Subtraction", "Multiplication", "Division", "Modulo"} THEN "Int" ELSE "Bool",
     nullable |-> type \notin {"IsNull", "IsNotNull"} /\ \E i \in DOMAIN children : children[i].result.nullable]

JitExpression(type, children, index) ==
    LET result == _compute_result_type(type, children)
    IN [type |-> type, children |-> children, result |-> JitTupleValue(result.type, result.nullable, index)]
JitColumn(value) == [type |-> "Column", children |-> <<>>, result |-> value]

RECURSIVE compute(_, _)
compute(e, tuple) ==
    IF e.type = "Column" THEN tuple
    ELSE LET left == e.children[1].result
             right == e.children[2].result
             with_left == compute(e.children[1], tuple)
             with_both == compute(e.children[2], with_left)
         IN IF ~jit_expression_is_binary(e.type)
            THEN CASE e.type = "Not" -> jit_not(with_left, left, e.result)
                   [] e.type = "IsNull" -> jit_is_null(with_left, left, e.result)
                   [] e.type = "IsNotNull" -> jit_is_not_null(with_left, left, e.result)
            ELSE CASE e.type = "And" -> jit_and(with_both, left, right, e.result)
                   [] e.type = "Or" -> jit_or(with_both, left, right, e.result)
                   [] OTHER -> jit_compute(e.type, with_both, left, right, e.result)

-----------------------------------------------------------------------------
(* JitAggregate.  The hash map's columns are those of the groups, then one *)
(* per aggregate and a second one, the count, for an average; a row is the *)
(* sequence of its slots, and indices maps a hash to the rows that have it.*)

add_groupby_column(sink, value) == [sink EXCEPT !.group_by = Append(@, value)]

\* The hash map's columns of an aggregate: what a new row starts with, what a value does to it.
add_aggregate_column(sink, value, function) ==
    LET column(update, initial, nullable) == [value |-> value, update |-> update, initial |-> initial, nullable |-> nullable]
        count == column("Count", 0, FALSE)
        columns == CASE function = "Count" -> <<count>>
                     [] function = "Sum" -> <<column("Sum", 0, TRUE)>>
                     [] function = "Max" -> <<column("Max", Lowest, TRUE)>>
                     [] function = "Min" -> <<column("Min", Highest, TRUE)>>
                     [] function = "Avg" -> <<column("Sum", 0, TRUE), count>>
    IN [sink EXCEPT !.aggregates = Append(@, [function |-> function, columns |-> columns])]

HashmapColumns(sink) == FlattenSeq([i \in DOMAIN sink.aggregates |-> sink.aggregates[i].columns])
NewHashmap == [rows |-> <<>>, indices |-> <<>>]

jit_hash(tuple, value) == IF tuple_is_null(tuple, value) THEN 0 ELSE jit_hash_of(get_slot(tuple, value))
TupleHash(tuple, group_by) == FoldLeft(LAMBDA h, value : h * 32 + jit_hash(tuple, value), 0, group_by)

jit_aggregate_equals(tuple, value, slot) ==
    LET slot_null == value.nullable /\ slot.null
    IN IF tuple_is_null(tuple, value) \/ slot_null THEN tuple_is_null(tuple, value) /\ slot_null
       ELSE get_slot(tuple, value) = slot.value

jit_grow_by_one(initial) == [value |-> initial, null |-> TRUE]
jit_assign(tuple, value) ==
    IF tuple_is_null(tuple, value) THEN jit_grow_by_one(0)
    ELSE [value |-> get_slot(tuple, value), null |-> ~value.nullable]

jit_aggregate_compute(tuple, column, slot) ==
    LET v == get_slot(tuple, column.value)
        updated == CASE column.update = "Count" -> slot.value + 1
                     [] column.update = "Sum" -> v + slot.value
                     [] column.update = "Max" -> IF v > slot.value THEN v ELSE slot.value
                     [] column.update = "Min" -> IF v < slot.value THEN v ELSE slot.value
    IN IF tuple_is_null(tuple, column.value) THEN slot
       ELSE [value |-> updated, null |-> slot.null /\ ~column.nullable]

AggregateConsume(sink, hashmap, tuple) ==
    LET columns == HashmapColumns(sink)
        width == Len(sink.group_by)
        hash == TupleHash(tuple, sink.group_by)
        bucket == IF hash \in DOMAIN hashmap.indices THEN hashmap.indices[hash] ELSE <<>>
        same(row) == \A i \in 1..width : jit_aggregate_equals(tuple, sink.group_by[i], hashmap.rows[row][i])
        match == SelectInSeq(bucket, same)
        new_row == [i \in 1..width |-> jit_assign(tuple, sink.group_by[i])]
                   \o [i \in DOMAIN columns |-> jit_grow_by_one(columns[i].initial)]
        grown == IF match # 0 THEN hashmap
                 ELSE [rows |-> Append(hashmap.rows, new_row),
                       indices |-> (hash :> Append(bucket, Len(hashmap.rows) + 1)) @@ hashmap.indices]
        row == IF match # 0 THEN bucket[match] ELSE Len(hashmap.rows) + 1
        slots == grown.rows[row]
    IN [grown EXCEPT !.rows[row] =
           SubSeq(slots, 1, width) \o [i \in DOMAIN columns |-> jit_aggregate_compute(tuple, columns[i], slots[width + i])]]

\* An average is the pair of the sum and the count.
compute_averages(sum, count) == <<sum, count>>

\* The table of after_query: its rows.
after_query(sink, hashmap) ==
    LET width == Len(sink.group_by)
        offset(k) == width + Len(FlattenSeq([i \in 1..(k - 1) |-> sink.aggregates[i].columns]))
        group_cell(row, i) == IF sink.group_by[i].nullable /\ row[i].null THEN Null ELSE row[i].value
        cell(row, k) == LET slot == row[offset(k) + 1]
                        IN IF sink.aggregates[k].columns[1].nullable /\ slot.null THEN Null
                           ELSE IF sink.aggregates[k].function = "Avg" THEN compute_averages(slot.value, row[offset(k) + 2].value)
                           ELSE slot.value
    IN IF DOMAIN hashmap.indices = {} /\ width = 0
       THEN <<[k \in DOMAIN sink.aggregates |-> IF sink.aggregates[k].function = "Count" THEN 0 ELSE Null]>>
       ELSE [r \in DOMAIN hashmap.rows |->
                [i \in 1..width |-> group_cell(hashmap.rows[r], i)] \o [k \in DOMAIN sink.aggregates |-> cell(hashmap.rows[r], k)]]

-----------------------------------------------------------------------------
(* JitOperatorWrapper: a chain is [source, computes, sink]; computes are   *)
(* the JitCompute and JitFilter operators in their order.                  *)

NewJitAggregate == [kind |-> "Aggregate", group_by |-> <<>>, aggregates |-> <<>>]
NewJitWriteTuples == [kind |-> "Write", columns |-> <<>>]
JitCompute(e) == [kind |-> "Compute", expression |-> e]
JitFilter(value) == [kind |-> "Filter", condition |-> value]

write_value(tuple, value) == IF tuple_is_null(tuple, value) THEN Null ELSE get_slot(tuple, value)

\* A tuple on its way through the chain: it is dropped by a filter whose condition is not true.
RECURSIVE Emit(_, _, _)
Emit(computes, tuple, kept) ==
    IF computes = <<>> \/ ~kept THEN [tuple |-> tuple, kept |-> kept]
    ELSE LET step == Head(computes)
         IN IF step.kind = "Compute" THEN Emit(Tail(computes), compute(step.expression, tuple), TRUE)
            ELSE Emit(Tail(computes), tuple, ~tuple_is_null(tuple, step.condition) /\ IsTrue(tuple, step.condition))

\* JitReadTuples::execute on one row of the input table, and the sink's _consume.
Consume(chain, context, cells) ==
    LET emitted == Emit(chain.computes, read_values(chain.source, context.tuple, cells), TRUE)
    IN IF ~emitted.kept THEN [context EXCEPT !.tuple = emitted.tuple]
       ELSE IF chain.sink.kind = "Write"
            THEN [context EXCEPT !.tuple = emitted.tuple,
                                 !.out = Append(@, [i \in DOMAIN chain.sink.columns |-> write_value(emitted.tuple, chain.sink.columns[i])])]
       ELSE [context EXCEPT !.tuple = emitted.tuple, !.hashmap = AggregateConsume(chain.sink, @, emitted.tuple)]

\* Segments of Booleans do not exist: such a column of the result is missing from its chunks.
Executes(chain) ==
    /\ LiteralsResolve(chain.source)
    /\ LET columns == IF chain.sink.kind = "Write" THEN chain.sink.columns ELSE chain.sink.group_by
       IN \A i \in DOMAIN columns : columns[i].type # "Bool"
    /\ chain.sink.kind = "Aggregate" =>
         \A k \in DOMAIN chain.sink.aggregates :
             chain.sink.aggregates[k].function # "Count" => chain.sink.aggregates[k].columns[1].value.type # "Bool"

RECURSIVE ConsumeAll(_, _, _)
ConsumeAll(chain, context, rows) ==
    IF rows = <<>> \/ DOMAIN context.tuple = {} THEN context
    ELSE ConsumeAll(chain, Consume(chain, context, Head(rows).cells), Tail(rows))

ExecuteJit(chain, rows) ==
    LET start == [tuple |-> NewTuple(chain.source), hashmap |-> NewHashmap, out |-> <<>>]
        end == ConsumeAll(chain, start, rows)
        result == IF chain.sink.kind = "Write" THEN end.out ELSE after_query(chain.sink, end.hashmap)
    IN [i \in DOMAIN result |-> [cells |-> result[i], at |-> <<1, i>>]]

-----------------------------------------------------------------------------
(* The translation itself.                                                 *)

Operator(operator, ins, arg) == [operator |-> operator, inputs |-> ins, arg |-> arg]
ThrowingOperator == Operator("Throws", <<>>, "")
ThrowingExpression == <<"throws", "", <<>> >>

(* translate_node is virtual: the JitAwareLQPTranslator's overrides it.    *)
RECURSIVE Translate(_, _, _)

\* _translate_expressions: what the input has as a column is read from there, the rest is computed.
RECURSIVE TranslateExpression(_, _, _, _)
TranslateExpression(jit, heap, expression, node) ==
    LET id == find_column_id(heap, node, expression)
        args == arguments(expression)
        select == expression[2]
    IN IF id # 0 THEN column_(id, data_type(expression), is_nullable(expression))
       ELSE IF expression[1] = "column" THEN ThrowingExpression
       ELSE IF expression[1] # "select"
            THEN <<expression[1], expression[2],
                   [i \in DOMAIN args |-> TranslateExpression(jit, heap, args[i], node)]>>
       ELSE IF \E i \in DOMAIN args : find_column_id(heap, node, args[i]) = 0 THEN ThrowingExpression
       ELSE <<"select",
              [pqp |-> Translate(jit, heap, heap.selects[select.select]),
               parameter_ids |-> select.parameter_ids,
               parameters |-> [i \in DOMAIN args |-> find_column_id(heap, node, args[i])],
               data_type |-> select.data_type, nullable |-> select.nullable],
              <<>> >>

_translate_expressions(jit, heap, exprs, node) ==
    [i \in DOMAIN exprs |-> TranslateExpression(jit, heap, exprs[i], node)]

Indexed(table, chunk, column) ==
    \E index \in table.indexes : index.type = "GroupKey" /\ index.columns = <<column>> /\ chunk \in index.chunks

\* arg of a scan: the predicate and the chunks it leaves out.
_translate_predicate_node_to_table_scan(input, scan, excluded) ==
    IF scan.condition = "In" THEN ThrowingOperator
    ELSE Operator("TableScan", <<input>>, [scan |-> scan, excluded |-> excluded])

_translate_predicate_node_to_index_scan(heap, node, input) ==
    LET leaf == left_input(heap, node)
        predicate == heap.nodes[node].exprs[1]
        args == arguments(predicate)
        column == find_column_id(heap, leaf, args[1])
        values == [i \in 1..(Len(args) - 1) |-> args[i + 1][2][2]]
        table == tables[heap.nodes[leaf].arg.table_name]
        indexed_chunks == {c \in DOMAIN table.chunks : Indexed(table, c, column)}
        Scan(below, condition, value) ==
            _translate_predicate_node_to_table_scan(below, ScanPredicate(column, condition, [value |-> value]), indexed_chunks)
        index_scan == Operator("IndexScan", <<input>>,
                               [column |-> column, condition |-> predicate[2], values |-> values, included |-> indexed_chunks])
        table_scan == IF predicate[2] = "Between"
                      THEN Scan(Scan(input, "GreaterThanEquals", values[1]), "LessThanEquals", values[2])
                      ELSE Scan(input, predicate[2], IF values = <<>> THEN Null ELSE values[1])
    IN IF TypeOf(heap, leaf) # "StoredTable" \/ predicate[1] # "predicate" \/ column = 0
          \/ \E i \in 2..Len(args) : args[i][1] # "value"
       THEN ThrowingOperator
       ELSE Operator("UnionPositions", <<index_scan, table_scan>>, "")

_translate_predicate_node(jit, heap, node) ==
    LET input == Translate(jit, heap, left_input(heap, node))
        scans == OperatorScanPredicates(heap, heap.nodes[node].exprs[1], node)
    IN IF scans = <<>> \/ scans = Throws THEN ThrowingOperator
       ELSE IF heap.nodes[node].arg = "IndexScan" THEN _translate_predicate_node_to_index_scan(heap, node, input)
       ELSE Fold(LAMBDA below, scan : _translate_predicate_node_to_table_scan(below, scan, {}), input, scans)

_translate_stored_table_node(heap, node) ==
    Operator("GetTable", <<>>, [table_name |-> heap.nodes[node].arg.table_name, excluded |-> heap.nodes[node].arg.excluded])

_translate_alias_node(jit, heap, node) ==
    LET input == left_input(heap, node)
        alias == heap.nodes[node].arg
        columns == [i \in DOMAIN alias.expressions |-> find_column_id(heap, input, alias.expressions[i])]
    IN IF 0 \in ToSet(columns) THEN ThrowingOperator
       ELSE Operator("Alias", <<Translate(jit, heap, input)>>, [columns |-> columns, aliases |-> alias.aliases])

_translate_projection_node(jit, heap, node) ==
    LET input == left_input(heap, node)
    IN Operator("Projection", <<Translate(jit, heap, input)>>,
                _translate_expressions(jit, heap, heap.nodes[node].exprs, input))

\* One stable sort per column, the last column first.
_translate_sort_node(jit, heap, node) ==
    LET input == left_input(heap, node)
        exprs == _translate_expressions(jit, heap, heap.nodes[node].exprs, input)
        modes == heap.nodes[node].arg
    IN IF \E i \in DOMAIN exprs : exprs[i][1] # "column" THEN ThrowingOperator
       ELSE Fold(LAMBDA below, i : Operator("Sort", <<below>>, [column |-> exprs[i][2][1], mode |-> modes[i]]),
                     Translate(jit, heap, input), Reverse([i \in DOMAIN exprs |-> i]))

_translate_join_node(jit, heap, node) ==
    LET n == heap.nodes[node]
        ins == <<Translate(jit, heap, n.inputs[Left]), Translate(jit, heap, n.inputs[Right])>>
        predicate == OperatorJoinPredicates(heap, n.exprs[1], n.inputs[Left], n.inputs[Right])
        arg == [mode |-> n.arg, columns |-> <<predicate[1][1], predicate[1][2]>>, condition |-> predicate[1][3]]
    IN IF n.arg = "Cross" THEN Operator("Product", ins, "")
       ELSE IF n.exprs = <<>> THEN ThrowingOperator
       ELSE IF predicate = <<>> THEN ThrowingOperator
       ELSE IF arg.condition = "Equals" /\ n.arg # "Outer" THEN Operator("JoinHash", ins, arg)
       ELSE Operator("JoinSortMerge", ins, arg)

_translate_aggregate_node(jit, heap, node) ==
    LET n == heap.nodes[node]
        input == left_input(heap, node)
        group_by == SubSeq(n.exprs, 1, n.arg)
        aggregates == SubSeq(n.exprs, n.arg + 1, Len(n.exprs))
        column(e) == IF arguments(e) = <<>> THEN 0 ELSE find_column_id(heap, input, arguments(e)[1])
        missing(e) == e[1] # "aggregate" \/ (arguments(e) # <<>> /\ column(e) = 0)
    IN IF (\E i \in DOMAIN aggregates : missing(aggregates[i]))
          \/ \E i \in DOMAIN group_by : find_column_id(heap, input, group_by[i]) = 0
       THEN ThrowingOperator
       ELSE Operator("Aggregate", <<Translate(jit, heap, input)>>,
                     [aggregates |-> [i \in DOMAIN aggregates |-> [function |-> aggregates[i][2], column |-> column(aggregates[i])]],
                      group_by |-> [i \in DOMAIN group_by |-> find_column_id(heap, input, group_by[i])]])

_translate_limit_node(jit, heap, node) ==
    LET input == left_input(heap, node)
    IN Operator("Limit", <<Translate(jit, heap, input)>>, TranslateExpression(jit, heap, heap.nodes[node].arg, input))

\* The new values are computed from the columns of the UpdateNode, which are those of its input.
_translate_update_node(jit, heap, node) ==
    LET input == Translate(jit, heap, left_input(heap, node))
        values == _translate_expressions(jit, heap, heap.nodes[node].exprs, node)
    IN Operator("Update", <<input, Operator("Projection", <<input>>, values)>>, heap.nodes[node].arg)

_translate_by_node_type(jit, heap, node) ==
    LET n == heap.nodes[node]
        input == Translate(jit, heap, n.inputs[Left])
    IN CASE n.type = "Alias" -> _translate_alias_node(jit, heap, node)
         [] n.type = "StoredTable" -> _translate_stored_table_node(heap, node)
         [] n.type = "Predicate" -> _translate_predicate_node(jit, heap, node)
         [] n.type = "Projection" -> _translate_projection_node(jit, heap, node)
         [] n.type = "Sort" -> _translate_sort_node(jit, heap, node)
         [] n.type = "Join" -> _translate_join_node(jit, heap, node)
         [] n.type = "Aggregate" -> _translate_aggregate_node(jit, heap, node)
         [] n.type = "Limit" -> _translate_limit_node(jit, heap, node)
         [] n.type = "Update" -> _translate_update_node(jit, heap, node)
         [] n.type \in {"Insert", "Delete"} -> Operator(n.type, <<input>>, n.arg)
         [] n.type = "Validate" -> Operator("Validate", <<input>>, "")
         [] n.type = "Union" -> Operator("UnionPositions", <<input, Translate(jit, heap, n.inputs[Right])>>, "")
         [] n.type = "DummyTable" -> Operator("TableWrapper", <<>>, "")
         [] n.type \in {"ShowTables", "ShowColumns", "CreateView", "DropView"} -> Operator(n.type, <<>>, n.arg)
         [] OTHER -> ThrowingOperator

translate_node(heap, node) == _translate_by_node_type(FALSE, heap, node)

-----------------------------------------------------------------------------
(* What a plan computes, each operator doing what it is for.  Cells are    *)
(* NULL or integers.  A row is [cells, at], at being its chunk and its     *)
(* position in the table it was last read from.  parameters gives the      *)
(* values of the parameters of outer queries.                              *)

\* GetTable leaves the excluded chunks out and numbers the others anew.
KeptChunks(get_table) ==
    SelectSeq([c \in DOMAIN tables[get_table.table_name].chunks |-> c], LAMBDA c : c \notin get_table.excluded)

\* Whether the whole plan was translated, and every index scan finds an index on its chunks.
RECURSIVE Executable(_)
RECURSIVE ExecutableExpression(_)
ExecutableExpression(e) ==
    /\ e[1] # "throws"
    /\ e[1] = "select" => Executable(e[2].pqp)
    /\ \A i \in DOMAIN arguments(e) : ExecutableExpression(arguments(e)[i])
Executable(pqp) ==
    /\ pqp.operator # "Throws"
    /\ \A i \in DOMAIN pqp.inputs : Executable(pqp.inputs[i])
    /\ pqp.operator = "Projection" => \A i \in DOMAIN pqp.arg : ExecutableExpression(pqp.arg[i])
    /\ pqp.operator = "Limit" => ExecutableExpression(pqp.arg)
    /\ pqp.operator = "JitOperatorWrapper" => Executes(pqp.arg)
    /\ pqp.operator = "IndexScan" =>
         LET get_table == pqp.inputs[1].arg
             chunks == KeptChunks(get_table)
         IN /\ pqp.arg.condition \in Comparisons \union {"Between"}
            /\ \A c \in pqp.arg.included :
                 c \in DOMAIN chunks /\ Indexed(tables[get_table.table_name], chunks[c], pqp.arg.column)

CompareCells(condition, a, b) ==
    Evaluator!SqlValue(predicate_(condition, <<value_("Int", a), value_("Int", b)>>), <<>>) = 1
ConditionHolds(condition, a, b) ==
    CASE condition = "IsNull" -> a = Null
      [] condition = "IsNotNull" -> a # Null
      [] OTHER -> CompareCells(condition, a, b)

WithParameters(parameters, ids, values) ==
    [p \in DOMAIN parameters \union ToSet(ids) |->
        IF p \in ToSet(ids) THEN values[SelectInSeq(ids, LAMBDA i : i = p)] ELSE parameters[p]]

\* An expression with the values of its parameters and the results of its subselects for this row.
RECURSIVE BindExpression(_, _, _, _)
BindExpression(Run(_, _), e, cells, parameters) ==
    LET select == e[2]
        values == [i \in DOMAIN select.parameters |-> cells[select.parameters[i]]]
        result == Run(select.pqp, WithParameters(parameters, select.parameter_ids, values))
    IN CASE e[1] = "parameter" -> value_("Int", parameters[e[2][1]])
         [] e[1] = "select" ->
              <<"select", [pqp |-> [v \in {values} |-> [i \in DOMAIN result |-> result[i].cells[1]]],
                           parameters |-> select.parameters, data_type |-> select.data_type, nullable |-> select.nullable],
                <<>> >>
         [] OTHER -> <<e[1], e[2], [i \in DOMAIN arguments(e) |-> BindExpression(Run, arguments(e)[i], cells, parameters)]>>

Compute(Run(_, _), e, cells, parameters) == Evaluator!SqlValue(BindExpression(Run, e, cells, parameters), cells)

JoinRows(left, right, left_width, right_width, arg) ==
    LET match(l, r) == CompareCells(arg.condition, l.cells[arg.columns[1]], r.cells[arg.columns[2]])
        nulls(width) == [i \in 1..width |-> Null]
        row(cells) == [cells |-> cells, at |-> <<0, 0>>]
        pairs(l) == LET found == SelectSeq(right, LAMBDA r : match(l, r))
                    IN [i \in DOMAIN found |-> row(l.cells \o found[i].cells)]
        partner(l) == \E i \in DOMAIN right : match(l, right[i])
        partnered(r) == \E i \in DOMAIN left : match(left[i], r)
        inner == FlattenSeq([i \in DOMAIN left |-> pairs(left[i])])
        lonely_left == SelectSeq(left, LAMBDA l : ~partner(l))
        lonely_right == SelectSeq(right, LAMBDA r : ~partnered(r))
        with_left == [i \in DOMAIN lonely_left |-> row(lonely_left[i].cells \o nulls(right_width))]
        with_right == [i \in DOMAIN lonely_right |-> row(nulls(left_width) \o lonely_right[i].cells)]
    IN CASE arg.mode = "Inner" -> inner
         [] arg.mode = "Left" -> inner \o with_left
         [] arg.mode = "Right" -> inner \o with_right
         [] arg.mode = "Outer" -> inner \o with_left \o with_right
         [] arg.mode = "Semi" -> SelectSeq(left, partner)
         [] arg.mode = "Anti" -> lonely_left

AggregateCells(function, cells) ==
    LET present == SelectSeq(cells, LAMBDA v : v # Null)
    IN CASE function = "Count" -> Len(present)
         [] function = "CountDistinct" -> Cardinality(ToSet(present))
         [] present = <<>> -> Null
         [] function = "Min" -> Min(ToSet(present))
         [] function = "Max" -> Max(ToSet(present))
         [] function = "Sum" -> Fold(LAMBDA s, v : s + v, 0, present)
         [] function = "Avg" -> <<Fold(LAMBDA s, v : s + v, 0, present), Len(present)>>

AggregateRows(rows, arg) ==
    LET key(r) == [g \in DOMAIN arg.group_by |-> r.cells[arg.group_by[g]]]
        keys == {key(rows[i]) : i \in DOMAIN rows} \union (IF arg.group_by = <<>> THEN {<<>>} ELSE {})
        row(k) == LET members == SelectSeq(rows, LAMBDA r : key(r) = k)
                      cells(a) == [i \in DOMAIN members |-> IF a.column = 0 THEN 0 ELSE members[i].cells[a.column]]
                  IN [cells |-> k \o [i \in DOMAIN arg.aggregates |->
                                         AggregateCells(arg.aggregates[i].function, cells(arg.aggregates[i]))],
                      at |-> <<0, 0>>]
    IN [i \in 1..Cardinality(keys) |-> row(SetToSeq(keys)[i])]

\* A stable sort, NULL first.
SortRows(rows, column, mode) ==
    LET cell(i) == rows[i].cells[column]
        less(i, j) == IF Null \in {cell(i), cell(j)} THEN cell(i) = Null /\ cell(j) # Null
                      ELSE IF mode = "Ascending" THEN cell(i) < cell(j) ELSE cell(i) > cell(j)
        order == SortSeq([k \in DOMAIN rows |-> k], LAMBDA i, j : less(i, j) \/ (~less(j, i) /\ i < j))
    IN [i \in DOMAIN rows |-> rows[order[i]]]

\* How many columns an operator's result has.
RECURSIVE Width(_)
Width(pqp) ==
    CASE pqp.operator = "GetTable" -> Len(tables[pqp.arg.table_name].columns)
      [] pqp.operator \in {"Projection"} -> Len(pqp.arg)
      [] pqp.operator = "Alias" -> Len(pqp.arg.columns)
      [] pqp.operator = "Aggregate" -> Len(pqp.arg.group_by) + Len(pqp.arg.aggregates)
      [] pqp.operator = "TableWrapper" -> 1
      [] pqp.operator = "JitOperatorWrapper" ->
           IF pqp.arg.sink.kind = "Write" THEN Len(pqp.arg.sink.columns)
           ELSE Len(pqp.arg.sink.group_by) + Len(pqp.arg.sink.aggregates)
      [] pqp.operator = "Product" -> Width(pqp.inputs[1]) + Width(pqp.inputs[2])
      [] pqp.operator \in {"JoinHash", "JoinSortMerge"} ->
           Width(pqp.inputs[1]) + IF pqp.arg.mode \in {"Semi", "Anti"} THEN 0 ELSE Width(pqp.inputs[2])
      [] OTHER -> Width(pqp.inputs[1])

RECURSIVE Execute(_, _)
Execute(pqp, parameters) ==
    LET in(k) == Evaluated(Execute(pqp.inputs[k], parameters))
        arg == pqp.arg
        row(cells, r) == [r EXCEPT !.cells = Evaluated(cells)]
        operand(o, r) == IF "column" \in DOMAIN o THEN r.cells[o.column]
                         ELSE IF "value" \in DOMAIN o THEN o.value ELSE parameters[o.parameter]
        Between(v) == CompareCells("GreaterThanEquals", v, arg.values[1]) /\ CompareCells("LessThanEquals", v, arg.values[2])
    IN CASE pqp.operator = "GetTable" ->
              LET kept == KeptChunks(arg)
                  chunks == tables[arg.table_name].chunks
              IN FlattenSeq([c \in DOMAIN kept |-> [r \in DOMAIN chunks[kept[c]] |-> [cells |-> chunks[kept[c]][r], at |-> <<c, r>>]]])
         [] pqp.operator = "TableScan" ->
              SelectSeq(in(1), LAMBDA r : /\ r.at[1] \notin arg.excluded
                                          /\ ConditionHolds(arg.scan.condition, r.cells[arg.scan.column], operand(arg.scan.operand, r)))
         [] pqp.operator = "IndexScan" ->
              SelectSeq(in(1), LAMBDA r :
                  /\ arg.included = {} \/ r.at[1] \in arg.included
                  /\ IF arg.condition = "Between" THEN Between(r.cells[arg.column])
                     ELSE CompareCells(arg.condition, r.cells[arg.column], arg.values[1]))
         [] pqp.operator = "UnionPositions" ->
              LET left == in(1)
              IN left \o SelectSeq(in(2), LAMBDA r : \A i \in DOMAIN left : left[i].at # r.at)
         [] pqp.operator = "Projection" ->
              LET rows == in(1)
              IN [i \in DOMAIN rows |-> row([k \in DOMAIN arg |-> Compute(Execute, arg[k], rows[i].cells, parameters)], rows[i])]
         [] pqp.operator = "Alias" ->
              LET rows == in(1)
              IN [i \in DOMAIN rows |-> row([k \in DOMAIN arg.columns |-> rows[i].cells[arg.columns[k]]], rows[i])]
         [] pqp.operator = "Product" ->
              LET left == in(1)
                  right == in(2)
              IN FlattenSeq([i \in DOMAIN left |-> [j \in DOMAIN right |-> row(left[i].cells \o right[j].cells, left[i])]])
         [] pqp.operator \in {"JoinHash", "JoinSortMerge"} ->
              JoinRows(in(1), in(2), Width(pqp.inputs[1]), Width(pqp.inputs[2]), arg)
         [] pqp.operator = "Aggregate" -> AggregateRows(in(1), arg)
         [] pqp.operator = "Sort" -> SortRows(in(1), arg.column, arg.mode)
         [] pqp.operator = "Limit" ->
              LET count == Compute(Execute, arg, <<>>, parameters)
                  rows == in(1)
              IN SubSeq(rows, 1, IF count < Len(rows) THEN count ELSE Len(rows))
         [] pqp.operator = "JitOperatorWrapper" -> ExecuteJit(arg, in(1))
         [] pqp.operator = "TableWrapper" -> <<[cells |-> <<0>>, at |-> <<1, 1>>]>>
         [] OTHER -> in(1)

-----------------------------------------------------------------------------
(***************************************************************************)
(* JitAwareLQPTranslator                                                   *)
(* (src/lib/operators/jit_operator/jit_aware_lqp_translator.cpp): the      *)
(* translator that makes one chain of just-in-time operators of a part of  *)
(* the plan wherever it can.                                               *)
(*                                                                         *)
(* An attempt is [source, got, value]: the read operator with the columns, *)
(* literals and slots asked for so far, whether there is a result          *)
(* ("yes"), none ("no") or an exception ("throws"), and the result.        *)
(***************************************************************************)

_node_is_jittable(heap, node, allow_aggregate_node) ==
    LET n == heap.nodes[node]
        scans == OperatorScanPredicates(heap, n.exprs[1], node)
        supported(e) == e[2] # "CountDistinct" /\ arguments(e) # <<>>
    IN CASE n.type = "Aggregate" ->
              allow_aggregate_node /\ \A i \in (n.arg + 1)..Len(n.exprs) : supported(n.exprs[i])
         [] n.type = "Predicate" ->
              n.arg = "TableScan" /\ Len(scans) = 1 /\ scans # Throws /\ scans[1].condition # "Between"
         [] OTHER -> n.type \in {"Projection", "Union"}

\* _visit: the jittable nodes from a node downwards, and the first ones below that are not.
RECURSIVE _visit(_, _, _, _)
_visit(heap, root_, queue, found) ==
    IF queue = <<>> THEN found
    ELSE LET node == Head(queue)
         IN IF node = 0 \/ node \in found.jittable \union found.input_nodes THEN _visit(heap, root_, Tail(queue), found)
            ELSE IF _node_is_jittable(heap, node, node = root_)
                 THEN _visit(heap, root_, Tail(queue) \o heap.nodes[node].inputs, [found EXCEPT !.jittable = @ \union {node}])
                 ELSE _visit(heap, root_, Tail(queue), [found EXCEPT !.input_nodes = @ \union {node}])

_expression_to_jit_expression_type(expression) == expression[2]

Attempt(source, got, value) == [source |-> source, got |-> got, value |-> value]

RECURSIVE _try_translate_expression_to_jit_expression(_, _, _, _)
_try_translate_expression_to_jit_expression(heap, expression, source, input_node) ==
    LET id == find_column_id(heap, input_node, expression)
        column == add_input_column(source, data_type(expression), is_nullable(expression), id)
        literal == add_literal_value(source, expression[2])
        Argument(attempt, argument) ==
            IF attempt.got # "yes" THEN attempt
            ELSE LET one == _try_translate_expression_to_jit_expression(heap, argument, attempt.source, input_node)
                 IN Attempt(one.source, one.got, Append(attempt.value, one.value))
        args == Fold(Argument, Attempt(source, "yes", <<>>), arguments(expression))
        type == _expression_to_jit_expression_type(expression)
        with_result == add_temporary_value(args.source)
    IN CASE id # 0 -> Attempt(column.source, "yes", JitColumn(column.value))
         [] id = 0 /\ expression[1] = "value" -> Attempt(literal.source, "yes", JitColumn(literal.value))
         [] id = 0 /\ expression[1] = "column" -> Attempt(source, "throws", <<>>)
         [] id = 0 /\ expression[1] \in {"predicate", "arithmetic", "logical"} ->
              IF args.got # "yes" THEN args
              ELSE IF Len(args.value) > 2 THEN Attempt(args.source, "throws", <<>>)
              ELSE Attempt(with_result, "yes", JitExpression(type, args.value, with_result.slots))
         [] OTHER -> Attempt(source, "no", <<>>)

\* The chain so far, with an expression computed when it is not a column; AddTo gives the sink its value.
AddExpression(heap, attempt, expression, input_node, AddTo(_, _)) ==
    LET chain == attempt.value
        e == _try_translate_expression_to_jit_expression(heap, expression, attempt.source, input_node)
        computes == IF e.value.type = "Column" THEN chain.computes ELSE Append(chain.computes, JitCompute(e.value))
    IN IF attempt.got # "yes" THEN attempt
       ELSE IF e.got # "yes" THEN e
       ELSE Attempt(e.source, "yes", [chain EXCEPT !.computes = computes, !.sink = AddTo(chain.sink, e.value.result)])

AddFilter(heap, filter_node, input_node, attempt) ==
    LET condition == lqp_subplan_to_boolean_expression(heap, filter_node)
        e == _try_translate_expression_to_jit_expression(heap, condition[1], attempt.source, input_node)
    IN IF filter_node = input_node THEN attempt
       ELSE IF condition = <<>> THEN Attempt(attempt.source, "no", <<>>)
       ELSE IF e.got # "yes" THEN e
       ELSE Attempt(e.source, "yes",
                    [attempt.value EXCEPT !.computes = <<JitCompute(e.value), JitFilter(e.value.result)>>])

AddAggregates(heap, node, input_node, attempt) ==
    LET n == heap.nodes[node]
        GroupBy(a, e) == AddExpression(heap, a, e, input_node, add_groupby_column)
        Aggregate(a, e) == AddExpression(heap, a, arguments(e)[1], input_node,
                                         LAMBDA sink, value : add_aggregate_column(sink, value, e[2]))
        grouped == Fold(GroupBy, attempt, SubSeq(n.exprs, 1, n.arg))
    IN Fold(Aggregate, grouped, SubSeq(n.exprs, n.arg + 1, Len(n.exprs)))

AddOutputColumns(heap, node, input_node, attempt) ==
    LET add_output_column(sink, value) == [sink EXCEPT !.columns = Append(@, value)]
        Column(a, e) == AddExpression(heap, a, e, input_node, add_output_column)
    IN Fold(Column, attempt, column_expressions(heap, node))

RECURSIVE FilterNode(_, _, _)
FilterNode(heap, node, input_node) ==
    IF node = input_node \/ TypeOf(heap, node) \in {"Predicate", "Union"} THEN node
    ELSE FilterNode(heap, left_input(heap, node), input_node)

_try_translate_sub_plan_to_jit_operators(heap, node) ==
    LET found == _visit(heap, node, <<node>>, [jittable |-> {}, input_nodes |-> {}])
        input_node == CHOOSE n \in found.input_nodes : TRUE
        aggregating == TypeOf(heap, node) = "Aggregate"
        empty == Attempt(NewReadTuples, "yes",
                         [computes |-> <<>>, sink |-> IF aggregating THEN NewJitAggregate ELSE NewJitWriteTuples])
        filtered == AddFilter(heap, FilterNode(heap, node, input_node), input_node, empty)
    IN IF \/ Cardinality(found.input_nodes) # 1 \/ found.jittable = {}
          \/ found.jittable = {node} /\ TypeOf(heap, node) = "Projection"
       THEN [got |-> "no"]
       ELSE LET all == IF filtered.got # "yes" THEN filtered
                       ELSE IF aggregating THEN AddAggregates(heap, node, input_node, filtered)
                       ELSE AddOutputColumns(heap, node, input_node, filtered)
            IN IF all.got # "yes" THEN [got |-> all.got]
               ELSE [got |-> "yes", input_node |-> input_node,
                     chain |-> [source |-> all.source, computes |-> all.value.computes, sink |-> all.value.sink]]

jit_translate_node(heap, node) ==
    LET attempt == _try_translate_sub_plan_to_jit_operators(heap, node)
    IN CASE attempt.got = "yes" ->
              Operator("JitOperatorWrapper", <<Translate(TRUE, heap, attempt.input_node)>>, attempt.chain)
         [] attempt.got = "throws" -> ThrowingOperator
         [] attempt.got = "no" -> _translate_by_node_type(TRUE, heap, node)

Translate(jit, heap, node) == IF jit THEN jit_translate_node(heap, node) ELSE translate_node(heap, node)

=============================================================================
