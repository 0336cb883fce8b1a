-------------------------------- MODULE LQP --------------------------------
(***************************************************************************)
(* Logical query plans (src/lib/logical_query_plan/): the nodes, how they  *)
(* are tied to each other, what columns and statistics they have, and the  *)
(* surgery the optimizer performs on them.                                 *)
(*                                                                         *)
(* A plan is a heap [nodes, selects, thrown].  nodes maps a node's number to*)
(*   type      its LQPNodeType                                             *)
(*   inputs    <<left, right>>, the nodes it holds, 0 being nullptr        *)
(*   outputs   the weak pointers to the nodes that hold it, one per hold   *)
(*   exprs     node_expressions()                                          *)
(*   arg       the rest: a StoredTableNode's [table_name, excluded], the   *)
(*             mode of a join or union, how many of an AggregateNode's     *)
(*             expressions are group by columns, the order of a sort, the  *)
(*             row count of a limit, the expressions and names of an       *)
(*             AliasNode, a PredicateNode's scan type                      *)
(* selects maps an LQPSelectExpression to the root of its plan; such an    *)
(* expression is <<"select", [select, parameter_ids], arguments>>, its     *)
(* arguments being the expressions of the outer query for its parameters.  *)
(* The reference of a column expression is <<StoredTableNode, column>>.    *)
(* thrown says that an exception has ended the work on the plan.           *)
(***************************************************************************)
EXTENDS Expressions, TLC

CONSTANTS Lowest, Highest, MAX_RANGES_COUNT

VARIABLE tables     \* StorageManager: a table's columns and its chunks of rows

Stat == INSTANCE Statistics

Left == 1
Right == 2

\* The value itself, which TLC computes once.
Evaluated(value) == CHOOSE v \in {value, value} : TRUE

\* FoldLeft, of which TLC computes each step (next = next) before it starts the following one.
Fold(op(_, _), base, sequence) ==
    LET RECURSIVE from(_, _)
        from(acc, i) ==
            LET next == op(acc, sequence[i])
            IN IF i \notin DOMAIN sequence THEN acc ELSE IF next = next THEN from(next, i + 1) ELSE acc
    IN from(base, 1)

-----------------------------------------------------------------------------
(* AbstractLQPNode                                                         *)

\* Mutant: the former input keeps its pointer to the node.
KeepOutputPointer(outputs, output) == outputs

_remove_output_pointer(outputs, output) == RemoveAt(outputs, SelectInSeq(outputs, LAMBDA o : o = output))

set_input(lqp, node, side, input) ==
    LET current == lqp.nodes[node].inputs[side]
        untied == IF current = 0 THEN lqp.nodes
                  ELSE [lqp.nodes EXCEPT ![current].outputs = _remove_output_pointer(@, node)]
        tied == IF input = 0 THEN untied ELSE [untied EXCEPT ![input].outputs = Append(@, node)]
    IN IF current = input THEN lqp ELSE [lqp EXCEPT !.nodes = [tied EXCEPT ![node].inputs[side] = input]]

\* Several set_input calls one after the other, each <<node, side, input>>.
set_inputs(lqp, ties) == Fold(LAMBDA plan, tie : set_input(plan, tie[1], tie[2], tie[3]), lqp, ties)

left_input(lqp, node) == lqp.nodes[node].inputs[Left]
right_input(lqp, node) == lqp.nodes[node].inputs[Right]
output_count(lqp, node) == Len(lqp.nodes[node].outputs)
TypeOf(lqp, node) == lqp.nodes[node].type

\* A node that holds this one twice is said to hold it on the left both times.
get_input_side(lqp, node, output) == IF left_input(lqp, output) = node THEN Left ELSE Right
get_input_sides(lqp, node) ==
    [i \in 1..output_count(lqp, node) |-> get_input_side(lqp, node, lqp.nodes[node].outputs[i])]

\* The ties that give all outputs of a node another input instead.
OutputTies(lqp, node, input) ==
    [i \in 1..output_count(lqp, node) |->
        <<lqp.nodes[node].outputs[i], get_input_sides(lqp, node)[i], input>>]

EmptyLqp == [nodes |-> <<>>, selects |-> <<>>, thrown |-> FALSE]
NewNode(lqp) == IF DOMAIN lqp.nodes = {} THEN 1 ELSE Max(DOMAIN lqp.nodes) + 1

\* make: the new node is NewNode(lqp).
make(lqp, type, exprs, arg, left, right) ==
    LET node == NewNode(lqp)
        record == [type |-> type, inputs |-> <<0, 0>>, outputs |-> <<>>, exprs |-> Evaluated(exprs), arg |-> arg]
        added == [lqp EXCEPT !.nodes = @ @@ (node :> record)]
    IN set_input(set_input(added, node, Left, left), node, Right, right)

inputs(lqp, node) == {left_input(lqp, node), right_input(lqp, node)} \ {0}

RECURSIVE Below(_, _)
Below(lqp, node) == {node} \union UNION {Below(lqp, n) : n \in inputs(lqp, node)}

\* visit_lqp: the nodes in breadth-first order, each once.
RECURSIVE VisitNodes(_, _, _)
VisitNodes(lqp, queue, visited) ==
    IF queue = <<>> THEN <<>>
    ELSE LET node == Head(queue)
             next == SelectSeq(lqp.nodes[node].inputs, LAMBDA n : n # 0)
         IN IF node \in visited THEN VisitNodes(lqp, Tail(queue), visited)
            ELSE <<node>> \o VisitNodes(lqp, Tail(queue) \o next, visited \union {node})
visit_lqp(lqp, node) == VisitNodes(lqp, <<node>>, {})

-----------------------------------------------------------------------------
(* The columns of the node types                                           *)

StoredTableColumns(node, columns) ==
    [c \in DOMAIN columns |-> column_(<<node, c>>, columns[c].type, columns[c].nullable)]

\* The columns of a join of inputs with these columns.
JoinColumns(mode, left, right) == IF mode \in {"Semi", "Anti"} THEN left ELSE left \o right

RECURSIVE column_expressions(_, _)
column_expressions(lqp, node) ==
    LET n == lqp.nodes[node]
    IN CASE n.type = "StoredTable" -> StoredTableColumns(node, tables[n.arg.table_name].columns)
         [] n.type \in {"Projection", "Aggregate"} -> n.exprs
         [] n.type = "Alias" -> n.arg.expressions
         [] n.type = "DummyTable" -> <<>>
         [] n.type = "Join" ->
              JoinColumns(n.arg, column_expressions(lqp, n.inputs[Left]), column_expressions(lqp, n.inputs[Right]))
         [] OTHER -> column_expressions(lqp, n.inputs[Left])

\* The position of a column, 0 when the node has none such.
find_column_id(lqp, node, expression) ==
    SelectInSeq(column_expressions(lqp, node), LAMBDA c : c = expression)

RECURSIVE EvaluableOn(_, _)
EvaluableOn(columns, expression) ==
    \/ expression \in columns
    \/ /\ expression[1] # "column"
       /\ \A i \in DOMAIN arguments(expression) : EvaluableOn(columns, arguments(expression)[i])
expression_evaluable_on_lqp(lqp, expression, node) == EvaluableOn(ToSet(column_expressions(lqp, node)), expression)

-----------------------------------------------------------------------------
(* The predicates scans and joins can execute.  An operand is a            *)
(* [column |-> c], a [value |-> v] or a [parameter |-> id]; the result is  *)
(* a sequence of scans [column, condition, operand], empty when there is   *)
(* none.  A condition between two values has no column and throws: Throws. *)

resolve_all_parameter_variant(lqp, expression, node) ==
    IF expression[1] = "value" THEN <<[value |-> expression[2][2]]>>
    ELSE IF find_column_id(lqp, node, expression) # 0 THEN <<[column |-> find_column_id(lqp, node, expression)]>>
    ELSE IF expression[1] = "parameter" THEN <<[parameter |-> expression[2][1]]>>
    ELSE <<>>

IsColumn(operand) == "column" \in DOMAIN operand[1]
ScanPredicate(column, condition, operand) == [column |-> column, condition |-> condition, operand |-> operand]
Throws == <<ScanPredicate(0, "Throws", [column |-> 0])>>

SimpleScan(lqp, condition, args, node) ==
    LET a == resolve_all_parameter_variant(lqp, args[1], node)
        b == resolve_all_parameter_variant(lqp, args[2], node)
    IN IF a = <<>> THEN <<>>
       ELSE IF condition \in {"IsNull", "IsNotNull"}
            THEN IF IsColumn(a) THEN <<ScanPredicate(a[1].column, condition, [value |-> Null])>> ELSE <<>>
       ELSE IF b = <<>> THEN <<>>
       ELSE IF IsColumn(a) THEN <<ScanPredicate(a[1].column, condition, b[1])>>
       ELSE IF IsColumn(b) THEN <<ScanPredicate(b[1].column, flip_predicate_condition(condition), a[1])>>
       ELSE Throws

OperatorScanPredicates(lqp, expression, node) ==
    LET args == arguments(expression)
        lower == SimpleScan(lqp, "GreaterThanEquals", <<args[1], args[2]>>, node)
        upper == SimpleScan(lqp, "LessThanEquals", <<args[1], args[3]>>, node)
    IN IF expression[1] # "predicate" THEN <<>>
       ELSE IF expression[2] = "Between" THEN IF <<>> \in {lower, upper} THEN <<>> ELSE lower \o upper
       ELSE SimpleScan(lqp, expression[2], args, node)

\* OperatorJoinPredicate::from_expression: <<left column, right column, condition>> or nothing.
OperatorJoinPredicates(lqp, expression, left, right) ==
    LET a == arguments(expression)[1]
        b == arguments(expression)[2]
        in(side, e) == find_column_id(lqp, side, e)
    IN IF expression[1] # "predicate" \/ expression[2] \notin Comparisons THEN <<>>
       ELSE IF in(left, a) # 0 /\ in(right, b) # 0 THEN <<<<in(left, a), in(right, b), expression[2]>> >>
       ELSE IF in(left, b) # 0 /\ in(right, a) # 0
            THEN <<<<in(left, b), in(right, a), flip_predicate_condition(expression[2])>> >>
       ELSE <<>>

-----------------------------------------------------------------------------
(* derive_statistics_from.  An expression a node computes itself has dummy *)
(* statistics: all NULL, one distinct value, the default value.            *)

Dummy == Stat!ColumnStatistics(Stat!Whole(1), Stat!Whole(1), 0, 0)

\* The statistics of the columns among these expressions that the input has.
Forwarded(lqp, exprs, input, statistics) ==
    [row_count |-> statistics.row_count,
     columns |-> Evaluated([i \in DOMAIN exprs |->
         IF find_column_id(lqp, input, exprs[i]) # 0
         THEN statistics.columns[find_column_id(lqp, input, exprs[i])] ELSE Dummy])]

\* A condition no scan can execute is not estimated: all rows are taken to remain.  One between two
\* values throws instead, as DpCcp does later for every plan with such a predicate.
PredicateStatistics(lqp, predicate, left, statistics) ==
    LET scans == OperatorScanPredicates(lqp, predicate, left)
    IN IF scans = Throws THEN statistics
       ELSE Fold(LAMBDA s, scan : Stat!estimate_predicate(s, scan.column, scan.condition, scan.operand),
                     statistics, scans)

JoinStatistics(lqp, join, left, right, left_statistics, right_statistics) ==
    LET predicate == OperatorJoinPredicates(lqp, join.exprs[1], left, right)
    IN IF join.arg = "Cross" \/ predicate = <<>> THEN Stat!estimate_cross_join(left_statistics, right_statistics)
       ELSE Stat!estimate_predicated_join(left_statistics, right_statistics, join.arg,
                                          predicate[1][1], predicate[1][2], predicate[1][3])

RECURSIVE derive_statistics_from(_, _, _, _)
derive_statistics_from(lqp, node, left, right) ==
    LET n == lqp.nodes[node]
        of(input) == derive_statistics_from(lqp, input, left_input(lqp, input), right_input(lqp, input))
    IN CASE n.type = "StoredTable" -> tables[n.arg.table_name].table_statistics
         [] n.type \in {"Projection", "Aggregate"} -> Forwarded(lqp, n.exprs, left, of(left))
         [] n.type = "Predicate" -> PredicateStatistics(lqp, n.exprs[1], left, of(left))
         [] n.type = "Join" -> JoinStatistics(lqp, n, left, right, of(left), of(right))
         [] OTHER -> of(left)

get_statistics(lqp, node) == derive_statistics_from(lqp, node, left_input(lqp, node), right_input(lqp, node))
row_count(lqp, node) == get_statistics(lqp, node).row_count

-----------------------------------------------------------------------------
(* lqp_utils.cpp                                                           *)

lqp_replace_node(lqp, original, replacement) ==
    set_inputs(lqp, <<<<replacement, Left, left_input(lqp, original)>>, <<replacement, Right, right_input(lqp, original)>> >>
                    \o OutputTies(lqp, original, replacement)
                    \o <<<<original, Left, 0>>, <<original, Right, 0>> >>)

lqp_remove_node(lqp, node) ==
    set_inputs(lqp, <<<<node, Left, 0>> >> \o OutputTies(lqp, node, left_input(lqp, node)))

lqp_insert_node(lqp, parent, side, node) ==
    set_inputs(lqp, <<<<parent, side, node>>, <<node, Left, lqp.nodes[parent].inputs[side]>> >>)

RECURSIVE lqp_is_validated(_, _)
lqp_is_validated(lqp, node) ==
    \/ TypeOf(lqp, node) = "Validate"
    \/ inputs(lqp, node) # {} /\ \A n \in inputs(lqp, node) : lqp_is_validated(lqp, n)

\* The condition a plan of predicates and unions stands for, empty when it has none.
RECURSIVE lqp_subplan_to_boolean_expression(_, _)
lqp_subplan_to_boolean_expression(lqp, node) ==
    LET n == lqp.nodes[node]
        left == lqp_subplan_to_boolean_expression(lqp, n.inputs[Left])
        right == lqp_subplan_to_boolean_expression(lqp, n.inputs[Right])
    IN CASE n.type \in {"Projection", "Sort"} -> left
         [] n.type = "Predicate" -> IF left = <<>> THEN n.exprs ELSE <<and_(n.exprs[1], left[1])>>
         [] n.type = "Union" -> IF <<>> \in {left, right} THEN <<>> ELSE <<or_(left[1], right[1])>>
         [] OTHER -> <<>>

\* Expressions of one plan for another: mapping gives the nodes and the subselects of the other.
RECURSIVE expression_adapt_to_different_lqp(_, _, _)
expression_adapt_to_different_lqp(expression, mapping, selects) ==
    IF expression[1] = "column"
    THEN column_(<<mapping[expression[2][1][1]], expression[2][1][2]>>, expression[2][2], expression[2][3])
    ELSE <<expression[1],
           IF expression[1] = "select" THEN [expression[2] EXCEPT !.select = selects[@]] ELSE expression[2],
           [i \in DOMAIN arguments(expression) |->
               expression_adapt_to_different_lqp(arguments(expression)[i], mapping, selects)]>>

AdaptAll(exprs, mapping, selects) ==
    [i \in DOMAIN exprs |-> expression_adapt_to_different_lqp(exprs[i], mapping, selects)]

\* The expressions outside node_expressions() that a copy adapts as well.
AdaptArg(n, mapping, selects) ==
    CASE n.type = "Alias" -> [n.arg EXCEPT !.expressions = AdaptAll(@, mapping, selects)]
      [] n.type = "Limit" -> expression_adapt_to_different_lqp(n.arg, mapping, selects)
      [] n.type = "Predicate" -> "TableScan"
      [] OTHER -> n.arg

SelectsIn(lqp, node) ==
    {e[2].select : e \in {x \in UNION {UNION {ToSet(visit_expression(y)) : y \in ToSet(lqp.nodes[n].exprs)}
                                       : n \in Below(lqp, node)} : x[1] = "select"}}

\* The subselects of a plan and of their plans.
RECURSIVE AllSelectsIn(_, _)
AllSelectsIn(lqp, node) ==
    SelectsIn(lqp, node) \union UNION {AllSelectsIn(lqp, lqp.selects[s]) : s \in SelectsIn(lqp, node)}

\* The destructor of the nodes no root holds any more: their inputs forget them.
Destroy(lqp, roots) ==
    LET subselects == UNION {AllSelectsIn(lqp, r) : r \in roots}
        alive == UNION {Below(lqp, r) : r \in roots \union {lqp.selects[s] : s \in subselects}}
    IN [lqp EXCEPT !.nodes = [n \in alive |->
                       [lqp.nodes[n] EXCEPT !.outputs = SelectSeq(@, LAMBDA o : o \in alive)]],
                   !.selects = [s \in subselects |-> @[s]]]

\* A copy of a plan of the source heap in the target heap: that of node n is n + offset, that of
\* subselect s is s + offset; a node held twice is copied once, and a copied PredicateNode is a
\* table scan again.
CopyOffset(lqp) == Max({0} \union DOMAIN lqp.nodes \union DOMAIN lqp.selects)
CopyInto(target, source, node) ==
    LET offset == CopyOffset(target)
        subselects == AllSelectsIn(source, node)
        copied == UNION {Below(source, r) : r \in {node} \union {source.selects[s] : s \in subselects}}
        mapping == [n \in copied \union {0} |-> IF n = 0 THEN 0 ELSE n + offset]
        selects == [s \in subselects |-> s + offset]
        Outputs(n) == SelectSeq(n.outputs, LAMBDA o : o \in copied)
        Copy(n) == [type |-> n.type, inputs |-> <<mapping[n.inputs[1]], mapping[n.inputs[2]]>>,
                    outputs |-> [i \in DOMAIN Outputs(n) |-> Outputs(n)[i] + offset],
                    exprs |-> AdaptAll(n.exprs, mapping, selects), arg |-> AdaptArg(n, mapping, selects)]
    IN [target EXCEPT
        !.nodes = @ @@ [n \in {mapping[c] : c \in copied} |-> Copy(source.nodes[n - offset])],
        !.selects = @ @@ [s \in {selects[c] : c \in subselects} |-> mapping[source.selects[s - offset]]]]
deep_copy(lqp, node) == CopyInto(lqp, lqp, node)

RECURSIVE lqp_find_structure_mismatch(_, _, _)
lqp_find_structure_mismatch(lqp, lhs, rhs) ==
    IF lhs = 0 /\ rhs = 0 THEN {}
    ELSE IF 0 \in {lhs, rhs} THEN {<<lhs, rhs>>}
    ELSE IF TypeOf(lqp, lhs) # TypeOf(lqp, rhs) THEN {<<lhs, rhs>>}
    ELSE LET left == lqp_find_structure_mismatch(lqp, left_input(lqp, lhs), left_input(lqp, rhs))
         IN IF left # {} THEN left ELSE lqp_find_structure_mismatch(lqp, right_input(lqp, lhs), right_input(lqp, rhs))

\* A node met again keeps the counterpart it got first.
RECURSIVE lqp_create_node_mapping(_, _, _, _)
lqp_create_node_mapping(lqp, mapping, lhs, rhs) ==
    IF lhs = 0 \/ lhs \in DOMAIN mapping THEN mapping
    ELSE lqp_create_node_mapping(lqp,
             lqp_create_node_mapping(lqp, (lhs :> rhs) @@ mapping,
                                     left_input(lqp, lhs), left_input(lqp, rhs)),
             right_input(lqp, lhs), right_input(lqp, rhs))

\* A PredicateNode's scan type is not compared.
shallow_equals(lqp, lhs, rhs, mapping, selects) ==
    LET l == lqp.nodes[lhs]
        r == lqp.nodes[rhs]
    IN /\ AdaptAll(l.exprs, mapping, selects) = r.exprs
       /\ AdaptArg(l, mapping, selects) = IF r.type = "Predicate" THEN "TableScan" ELSE r.arg

RECURSIVE SubplanMismatch(_, _, _, _, _)
SubplanMismatch(lqp, lhs, rhs, mapping, selects) ==
    IF lhs = 0 THEN {}
    ELSE IF ~shallow_equals(lqp, lhs, rhs, mapping, selects) THEN {<<lhs, rhs>>}
    ELSE LET left == SubplanMismatch(lqp, left_input(lqp, lhs), left_input(lqp, rhs), mapping, selects)
         IN IF left # {} THEN left
            ELSE SubplanMismatch(lqp, right_input(lqp, lhs), right_input(lqp, rhs), mapping, selects)

\* selects: the subselects of the left plan with those of the right plan they have to equal.
lqp_find_subplan_mismatch(lqp, lhs, rhs, selects) ==
    LET structure == lqp_find_structure_mismatch(lqp, lhs, rhs)
    IN IF structure # {} THEN structure
       ELSE SubplanMismatch(lqp, lhs, rhs, lqp_create_node_mapping(lqp, <<>>, lhs, rhs), selects)
=============================================================================
