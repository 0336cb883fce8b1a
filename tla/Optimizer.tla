----------------------------- MODULE Optimizer -----------------------------
(***************************************************************************)
(* The optimizer (src/lib/optimizer/): its rules, and the order in which   *)
(* Optimizer::optimize applies them to a plan and to the plans of its      *)
(* subselects.                                                             *)
(*                                                                         *)
(* A rule is a function of the heap and of a node (apply_to) that gives    *)
(* back [lqp, changed].  A table of the storage manager has, besides its   *)
(* columns and chunks, for each chunk the filters of its columns           *)
(* (statistics, empty where there are none) and the indexes on its columns.*)
(***************************************************************************)
EXTENDS JoinOrdering

CONSTANTS
  INDEX_SCAN_ROW_COUNT_THRESHOLD,
  INDEX_SCAN_SELECTIVITY_THRESHOLD,     \* a fraction
  max_num_iterations

Applied(heap, flag) == [lqp |-> heap, changed |-> flag]
Unchanged(heap) == Applied(heap, FALSE)
Thrown(heap) == Unchanged([heap EXCEPT !.thrown = TRUE])

_apply_to_inputs(Apply(_, _), heap, node) ==
    LET at(state, side) ==
            LET input == state.lqp.nodes[node].inputs[side]
                applied == Apply(state.lqp, input)
            IN IF input = 0 THEN state ELSE Applied(applied.lqp, state.changed \/ applied.changed)
        left == at(Unchanged(heap), Left)
    IN IF left.lqp.thrown THEN left ELSE at(left, Right)

-----------------------------------------------------------------------------
(* PredicatePushdownRule                                                   *)

push_down(heap, node, push_below) ==
    LET removed == lqp_remove_node(heap, node)
    IN set_inputs(removed, <<<<push_below, Left, node>>, <<node, Left, left_input(removed, push_below)>> >>)

\* The first node below that is no predicate.
RECURSIVE SkipPredicates(_, _)
SkipPredicates(heap, node) ==
    IF TypeOf(heap, node) = "Predicate" THEN SkipPredicates(heap, left_input(heap, node)) ELSE node

PushBelowJoin(heap, node, join, side) ==
    LET removed == lqp_remove_node(heap, node)
    IN set_inputs(removed, <<<<join, side, node>>, <<node, Left, removed.nodes[join].inputs[side]>> >>)

RECURSIVE PredicatePushdownRule(_, _)
PredicatePushdownRule(heap, node) ==
    LET predicate == heap.nodes[node].exprs[1]
        below == _apply_to_inputs(PredicatePushdownRule, heap, node)
        input == SkipPredicates(heap, left_input(heap, node))
        type == TypeOf(heap, input)
        evaluable(side) == expression_evaluable_on_lqp(heap, predicate, heap.nodes[input].inputs[side])
    IN IF TypeOf(heap, node) # "Predicate" \/ output_count(heap, node) # 1 \/ below.changed THEN below
       ELSE IF type = "Join"
            THEN IF heap.nodes[input].arg \in {"Left", "Right", "Outer"} THEN Unchanged(heap)
                 ELSE IF evaluable(Left) THEN Applied(PushBelowJoin(heap, node, input, Left), TRUE)
                 ELSE IF evaluable(Right) THEN Applied(PushBelowJoin(heap, node, input, Right), TRUE)
                 ELSE Unchanged(heap)
       ELSE IF type = "Sort" THEN Applied(push_down(heap, node, input), TRUE)
       ELSE IF type # "Projection" THEN Unchanged(heap)
       ELSE LET scans == OperatorScanPredicates(heap, predicate, left_input(heap, input))
            IN IF scans = Throws THEN Thrown(heap)
               ELSE IF scans # <<>> THEN Applied(push_down(heap, node, input), TRUE)
               ELSE Unchanged(heap)

-----------------------------------------------------------------------------
(* PredicateReorderingRule                                                 *)

RECURSIVE PredicateChain(_, _)
PredicateChain(heap, node) ==
    IF TypeOf(heap, node) \in {"Predicate", "Validate"} /\ output_count(heap, node) <= 1
    THEN <<node>> \o PredicateChain(heap, left_input(heap, node))
    ELSE <<>>

_reorder_predicates(heap, predicates) ==
    LET input == left_input(heap, Last(predicates))
        rows == [i \in DOMAIN predicates |-> derive_statistics_from(heap, predicates[i], input, 0).row_count]
        More(i, j) == Cheaper(rows[j], rows[i])
        order == SortSeq([k \in DOMAIN predicates |-> k], LAMBDA i, j : More(i, j) \/ (~More(j, i) /\ i < j))
        sorted == [i \in DOMAIN predicates |-> predicates[order[i]]]
        untied == Fold(LAMBDA h, p : lqp_remove_node(h, p), heap, predicates)
        outputs == OutputTies(heap, predicates[1], sorted[1])
        chain == [i \in 1..(Len(sorted) - 1) |-> <<sorted[i], Left, sorted[i + 1]>>]
    IN IF \A i \in 1..(Len(predicates) - 1) : ~More(i + 1, i) THEN [lqp |-> heap, changed |-> FALSE, last |-> Last(predicates)]
       ELSE [lqp |-> set_inputs(untied, <<<<Last(sorted), Left, input>> >> \o outputs \o chain),
             changed |-> TRUE, last |-> Last(sorted)]

RECURSIVE PredicateReorderingRule(_, _)
PredicateReorderingRule(heap, node) ==
    LET predicates == PredicateChain(heap, node)
        reordered == _reorder_predicates(heap, predicates)
        below == _apply_to_inputs(PredicateReorderingRule, reordered.lqp, reordered.last)
    IN IF Len(predicates) <= 1 THEN _apply_to_inputs(PredicateReorderingRule, heap, node)
       ELSE IF reordered.changed THEN Applied(below.lqp, TRUE)
       ELSE below

-----------------------------------------------------------------------------
(* ExistsReformulationRule                                                 *)

IsExternal(e) == e[1] = "parameter" /\ e[2][2] # <<>>

ExternalUses(heap, node) ==
    FlattenSeq([i \in DOMAIN visit_lqp(heap, node) |->
        FlattenSeq([k \in DOMAIN heap.nodes[visit_lqp(heap, node)[i]].exprs |->
            SelectSeq(visit_expression(heap.nodes[visit_lqp(heap, node)[i]].exprs[k]), IsExternal)])])

\* The first predicate below `column = external parameter`, <<>> when there is none.
RECURSIVE CorrelatedPredicate(_, _)
CorrelatedPredicate(heap, node) ==
    LET n == heap.nodes[node]
        args == arguments(n.exprs[1])
        matches == /\ n.exprs[1][2] = "Equals"
                   /\ \/ args[1][1] = "column" /\ IsExternal(args[2])
                      \/ IsExternal(args[1]) /\ args[2][1] = "column"
    IN IF n.type \notin {"Predicate", "Validate", "StoredTable"} THEN <<>>
       ELSE IF n.type = "Predicate" /\ matches
            THEN <<[node |-> node, inner |-> IF args[1][1] = "column" THEN args[1] ELSE args[2],
                    parameter |-> IF args[1][1] = "column" THEN args[2][2][1] ELSE args[1][2][1]]>>
       ELSE IF n.inputs[Left] = 0 THEN <<>> ELSE CorrelatedPredicate(heap, n.inputs[Left])

\* Mutant: NOT EXISTS becomes a semi join as well.
ReformulatedAsSemi(heap, node, exists, subselect, found) ==
    LET projection == left_input(heap, node)
        outer == arguments(subselect)[SelectInSeq(subselect[2].parameter_ids, LAMBDA p : p = found.parameter)]
        pruned == [heap EXCEPT !.nodes[projection].exprs = SelectSeq(@, LAMBDA e : e # exists)]
        extracted == IF heap.selects[subselect[2].select] = found.node
                     THEN [pruned EXCEPT !.selects[subselect[2].select] = left_input(heap, found.node)]
                     ELSE lqp_remove_node(pruned, found.node)
        join == NewNode(extracted)
        joined == make(extracted, "Join", <<predicate_("Equals", <<outer, found.inner>>)>>, "Semi", 0, 0)
    IN set_input(lqp_replace_node(joined, node, join), join, Right, joined.selects[subselect[2].select])

\* The predicate node becomes a semi or anti join with the subselect's plan.
Reformulated(heap, node, exists, subselect, found) ==
    LET projection == left_input(heap, node)
        outer == arguments(subselect)[SelectInSeq(subselect[2].parameter_ids, LAMBDA p : p = found.parameter)]
        mode == IF heap.nodes[node].exprs[1][2] # "Equals" THEN "Semi" ELSE "Anti"
        pruned == [heap EXCEPT !.nodes[projection].exprs = SelectSeq(@, LAMBDA e : e # exists)]
        extracted == IF heap.selects[subselect[2].select] = found.node
                     THEN [pruned EXCEPT !.selects[subselect[2].select] = left_input(heap, found.node)]
                     ELSE lqp_remove_node(pruned, found.node)
        join == NewNode(extracted)
        joined == make(extracted, "Join", <<predicate_("Equals", <<outer, found.inner>>)>>, mode, 0, 0)
    IN set_input(lqp_replace_node(joined, node, join), join, Right, joined.selects[subselect[2].select])

RECURSIVE ExistsReformulationRule(_, _)
ExistsReformulationRule(heap, node) ==
    LET below == _apply_to_inputs(ExistsReformulationRule, heap, node)
        exists == arguments(heap.nodes[node].exprs[1])[1]
        subselect == arguments(exists)[1]
        plan == heap.selects[subselect[2].select]
        columns == SelectSeq(arguments(subselect), LAMBDA e : e[1] = "column")
        found == CorrelatedPredicate(heap, plan)
    IN IF TypeOf(heap, node) # "Predicate" THEN below
       ELSE IF exists[1] # "exists" THEN below
       ELSE IF arguments(subselect) = <<>> THEN below
       ELSE IF TypeOf(heap, left_input(heap, node)) # "Projection" THEN Thrown(heap)
       ELSE IF Len(columns) > 1 \/ Len(ExternalUses(heap, plan)) > 1 \/ found = <<>> THEN below
       ELSE Applied(Reformulated(heap, node, exists, subselect, found[1]), TRUE)

-----------------------------------------------------------------------------
(* ChunkPruningRule                                                        *)

ChunkPredicates(heap, predicate) == OperatorScanPredicates(heap, heap.nodes[predicate].exprs[1], predicate)

\* The filters of the chunks for a scan's column.
FiltersFor(table, scan, chunk) ==
    IF table.statistics[chunk] = <<>> THEN <<>> ELSE table.statistics[chunk][scan.column]

_compute_exclude_list(heap, table, predicate) ==
    LET scans == ToSet(ChunkPredicates(heap, predicate))
    IN IF \E s \in scans : "value" \notin DOMAIN s.operand THEN {}
       ELSE {chunk \in DOMAIN table.chunks :
                \E s \in scans : Stat!can_prune(FiltersFor(table, s, chunk), s.condition, s.operand.value)}

\* A filter casts the value to its column's type before it looks at the condition: NULL cannot be cast.
CastThrows(heap, table, predicate) ==
    LET scans == ToSet(ChunkPredicates(heap, predicate))
    IN \/ Throws[1] \in scans
       \/ \E s \in scans, chunk \in DOMAIN table.chunks :
            /\ "value" \in DOMAIN s.operand
            /\ s.operand.value = Null /\ table.columns[s.column].type # "String"
            /\ FiltersFor(table, s, chunk) # <<>>

\* The consecutive predicates from here down; whether they end at one that has several outputs.
RECURSIVE ConsecutivePredicates(_, _)
ConsecutivePredicates(heap, node) ==
    IF TypeOf(heap, node) = "Predicate"
    THEN <<node>> \o ConsecutivePredicates(heap, left_input(heap, node)) ELSE <<>>

ChunksPruned(heap, predicates, leaf) ==
    LET table == tables[heap.nodes[leaf].arg.table_name]
        excluded == UNION {_compute_exclude_list(heap, table, p) : p \in predicates}
    IN IF \E p \in predicates : CastThrows(heap, table, p) THEN Thrown(heap)
       ELSE Unchanged([heap EXCEPT !.nodes[leaf].arg.excluded = IF @ = {} THEN excluded ELSE @ \intersect excluded])

RECURSIVE ChunkPruningRule(_, _)
ChunkPruningRule(heap, node) ==
    LET predicates == ConsecutivePredicates(heap, node)
        below == left_input(heap, Last(predicates))
        leaf == IF TypeOf(heap, below) = "Validate" THEN left_input(heap, below) ELSE below
    IN IF predicates = <<>> THEN _apply_to_inputs(ChunkPruningRule, heap, node)
       ELSE IF (\E i \in 2..Len(predicates) : output_count(heap, predicates[i]) > 1)
               \/ TypeOf(heap, leaf) # "StoredTable"
            THEN _apply_to_inputs(ChunkPruningRule, heap, node)
       ELSE ChunksPruned(heap, ToSet(predicates), leaf)

-----------------------------------------------------------------------------
(* ColumnPruningRule                                                       *)

ColumnsIn(expression) == {e \in ToSet(visit_expression(expression)) : e[1] = "column"}

_collect_actually_used_columns(heap, node) ==
    UNION {UNION {IF TypeOf(heap, n) = "Projection"
                  THEN UNION {ColumnsIn(a) : a \in ToSet(arguments(e))} ELSE ColumnsIn(e)
                  : e \in ToSet(heap.nodes[n].exprs)} : n \in Below(heap, node)}

PruneProjection(heap, node, referenced) ==
    LET exprs == heap.nodes[node].exprs
        kept == SelectSeq(exprs, LAMBDA e : e[1] # "column" \/ e \in referenced)
    IN IF Len(kept) = Len(exprs) THEN heap
       ELSE IF kept = <<>> THEN lqp_remove_node(heap, node)
       ELSE [heap EXCEPT !.nodes[node].exprs = kept]

_prune_columns_in_projections(heap, node, referenced) ==
    Fold(LAMBDA h, n : PruneProjection(h, n, referenced), heap,
             SelectSeq(visit_lqp(heap, node), LAMBDA n : TypeOf(heap, n) = "Projection"))

PruneLeaf(state, parent, side, referenced) ==
    LET leaf == state.lqp.nodes[parent].inputs[side]
        columns == column_expressions(state.lqp, leaf)
        kept == SelectSeq(columns, LAMBDA e : e \in referenced)
        made == make(state.lqp, "Projection", kept, "", 0, 0)
    IN IF leaf = 0 THEN state
       ELSE IF inputs(state.lqp, leaf) # {} \/ Len(kept) \in {0, Len(columns)} THEN state
       ELSE Applied(lqp_insert_node(made, parent, side, NewNode(state.lqp)), TRUE)

_prune_columns_from_leaves(heap, node, referenced) ==
    Fold(LAMBDA state, n : PruneLeaf(PruneLeaf(state, n, Left, referenced), n, Right, referenced),
             Unchanged(heap), visit_lqp(heap, node))

ColumnPruningRule(heap, node) ==
    LET referenced == _collect_actually_used_columns(heap, node) \union ToSet(column_expressions(heap, node))
    IN _prune_columns_from_leaves(_prune_columns_in_projections(heap, node, referenced), node, referenced)

-----------------------------------------------------------------------------
(* ConstantCalculationRule.  The rule replaces the arguments of shared     *)
(* expression objects, never an expression that a node holds itself.  An   *)
(* AggregateNode is not visited, but the nodes above it share the objects  *)
(* of its aggregates and the projection below it shares their arguments.   *)

Evaluator == INSTANCE ExpressionEvaluator WITH rows <- <<>>, expression <- <<>>, garbage <- FALSE

Computed(expression) ==
    LET result == Evaluator!evaluate_expression_to_result(expression, data_type(expression))
    IN IF Evaluator!result_is_null(result, 1) THEN null_
       ELSE value_(data_type(expression), Evaluator!result_value(result, 1))

RECURSIVE _prune_expression(_)
_prune_expression(expression) ==
    LET args == [i \in DOMAIN arguments(expression) |-> _prune_expression(arguments(expression)[i])]
        pruned == <<expression[1], expression[2], args>>
    IN IF args # <<>> /\ expression[1] \in {"predicate", "arithmetic", "logical"}
          /\ \A i \in DOMAIN args : args[i][1] = "value"
       THEN Computed(pruned) ELSE pruned

\* What becomes of the arguments of an expression that is visited itself.
PruneArguments(expression) ==
    <<expression[1], expression[2], [i \in DOMAIN arguments(expression) |-> _prune_expression(arguments(expression)[i])]>>

\* An aggregate that some visited node refers to is visited there.
PruneAggregate(expression, visited) ==
    IF expression \in visited THEN PruneArguments(expression)
    ELSE <<expression[1], expression[2],
           [i \in DOMAIN arguments(expression) |-> PruneArguments(arguments(expression)[i])]>>

ConstantCalculationRule(heap, node) ==
    LET nodes == Below(heap, node)
        visited == UNION {UNION {ToSet(visit_expression(e)) : e \in ToSet(heap.nodes[n].exprs)} :
                             n \in {m \in nodes : TypeOf(heap, m) # "Aggregate"}}
        Pruned(e) == IF e[1] = "aggregate" THEN PruneAggregate(e, visited) ELSE PruneArguments(e)
        All(exprs) == [i \in DOMAIN exprs |-> Pruned(exprs[i])]
    IN Unchanged([heap EXCEPT !.nodes = [n \in DOMAIN heap.nodes |->
           IF n \notin nodes THEN heap.nodes[n]
           ELSE [heap.nodes[n] EXCEPT !.exprs = All(@),
                                      !.arg = IF heap.nodes[n].type = "Alias"
                                              THEN [@ EXCEPT !.expressions = All(@)] ELSE @]]])

-----------------------------------------------------------------------------
(* IndexScanRule                                                           *)

_is_index_scan_applicable(heap, index, node) ==
    LET scans == OperatorScanPredicates(heap, heap.nodes[node].exprs[1], node)
        rows_of_table == row_count(heap, left_input(heap, node))
        rows_of_predicate == row_count(heap, node)
    IN /\ Len(index.columns) = 1
       /\ index.type = "GroupKey"
       /\ Len(scans) = 1
       /\ "column" \notin DOMAIN scans[1].operand
       /\ index.columns[1] = scans[1].column
       /\ Stat!Leq(Stat!Whole(INDEX_SCAN_ROW_COUNT_THRESHOLD), rows_of_table)
       /\ Stat!Leq(rows_of_predicate, Stat!Times(INDEX_SCAN_SELECTIVITY_THRESHOLD, rows_of_table))

IndexScanRule(heap, node) ==
    LET applicable(n) ==
            /\ TypeOf(heap, n) = "Predicate"
            /\ TypeOf(heap, left_input(heap, n)) = "StoredTable"
            /\ \E index \in tables[heap.nodes[left_input(heap, n)].arg.table_name].indexes :
                   _is_index_scan_applicable(heap, index, n)
    IN Unchanged([heap EXCEPT !.nodes = [n \in DOMAIN heap.nodes |->
           IF n \in Below(heap, node) /\ applicable(n)
           THEN [heap.nodes[n] EXCEPT !.arg = "IndexScan"] ELSE heap.nodes[n]]])

-----------------------------------------------------------------------------
(* JoinDetectionRule, which the default optimizer does not use             *)

\* The predicate above that compares the two sides of the cross join, 0 when there is none.
RECURSIVE _find_predicate_for_cross_join(_, _, _)
_find_predicate_for_cross_join(heap, cross, node) ==
    LET above == heap.nodes[node].outputs[1]
        predicate == heap.nodes[above].exprs[1]
        in(side, k) == find_column_id(heap, heap.nodes[cross].inputs[side], arguments(predicate)[k]) # 0
    IN IF output_count(heap, node) # 1 THEN 0
       ELSE IF TypeOf(heap, above) \notin {"Join", "Predicate", "Projection"} THEN 0
       ELSE IF TypeOf(heap, above) # "Predicate" THEN _find_predicate_for_cross_join(heap, cross, above)
       ELSE IF predicate[2] \notin Comparisons THEN _find_predicate_for_cross_join(heap, cross, above)
       ELSE IF (in(Left, 1) /\ in(Right, 2)) \/ (in(Left, 2) /\ in(Right, 1)) THEN above
       ELSE _find_predicate_for_cross_join(heap, cross, above)

RECURSIVE JoinDetectionRule(_, _)
JoinDetectionRule(heap, node) ==
    LET predicate == _find_predicate_for_cross_join(heap, node, node)
        join == NewNode(heap)
        made == make(heap, "Join", heap.nodes[predicate].exprs, "Inner", 0, 0)
    IN IF TypeOf(heap, node) # "Join" THEN _apply_to_inputs(JoinDetectionRule, heap, node)
       ELSE IF heap.nodes[node].arg # "Cross" THEN _apply_to_inputs(JoinDetectionRule, heap, node)
       ELSE IF predicate = 0 THEN _apply_to_inputs(JoinDetectionRule, heap, node)
       ELSE Applied(lqp_remove_node(lqp_replace_node(made, node, join), predicate), TRUE)

-----------------------------------------------------------------------------
(* Optimizer                                                               *)

\* create_default_optimizer
DefaultBatches ==
    <<[policy |-> "Once", rules |-> <<"ColumnPruning">>],
      [policy |-> "Iterative", rules |-> <<"PredicatePushdown", "PredicateReordering", "ExistsReformulation">>],
      [policy |-> "Once", rules |-> <<"ChunkPruning", "ConstantCalculation", "JoinOrdering", "IndexScan">>]>>

\* apply_to of a rule at a root node.
apply_to(name, heap, node) ==
    CASE name = "ColumnPruning" -> ColumnPruningRule(heap, node)
      [] name = "PredicatePushdown" -> PredicatePushdownRule(heap, node)
      [] name = "PredicateReordering" -> PredicateReorderingRule(heap, node)
      [] name = "ExistsReformulation" -> ExistsReformulationRule(heap, node)
      [] name = "ChunkPruning" -> ChunkPruningRule(heap, node)
      [] name = "ConstantCalculation" -> ConstantCalculationRule(heap, node)
      [] name = "JoinOrdering" -> Unchanged(JoinOrderingRule(heap, node))
      [] name = "IndexScan" -> IndexScanRule(heap, node)
      [] name = "JoinDetection" -> JoinDetectionRule(heap, node)

RECURSIVE SelectsOf(_)
SelectsOf(expression) ==
    IF expression[1] = "select" THEN <<expression[2].select>>
    ELSE FlattenSeq([i \in DOMAIN arguments(expression) |-> SelectsOf(arguments(expression)[i])])

RECURSIVE collect_select_expressions(_, _)
collect_select_expressions(heap, node) ==
    IF node = 0 THEN <<>>
    ELSE FlattenSeq([i \in DOMAIN heap.nodes[node].exprs |-> SelectsOf(heap.nodes[node].exprs[i])])
         \o collect_select_expressions(heap, left_input(heap, node))
         \o collect_select_expressions(heap, right_input(heap, node))

\* Subselects with equal plans form one group: <<plan, subselects>>.
collect_select_expressions_by_lqp(heap, node) ==
    LET equal(a, b) == lqp_find_subplan_mismatch(heap, a, b, [s \in AllSelectsIn(heap, a) |-> s]) = {}
        Add(groups, select) ==
            LET plan == heap.selects[select]
                known == SelectInSeq(groups, LAMBDA g : equal(g[1], plan))
            IN IF known = 0 THEN Append(groups, <<plan, {select}>>)
               ELSE [groups EXCEPT ![known][2] = @ \union {select}]
    IN Fold(Add, <<>>, collect_select_expressions(heap, node))

\* A rule is applied to the plan and then to the plans of its subselects, each below a root of its own.
RECURSIVE _apply_rule(_, _, _)
_apply_rule(name, heap, node) ==
    LET applied == apply_to(name, heap, node)
        Subselect(state, group) ==
            LET below == NewNode(state.lqp)
                rooted == make(state.lqp, "Root", <<>>, "", group[1], 0)
                inner == _apply_rule(name, rooted, below)
                plan == left_input(inner.lqp, below)
                updated == [inner.lqp EXCEPT !.selects = [s \in DOMAIN inner.lqp.selects |->
                                IF s \in group[2] THEN plan ELSE inner.lqp.selects[s]]]
            IN IF state.lqp.thrown THEN state
               ELSE IF inner.lqp.thrown THEN inner
               ELSE Applied(set_input(updated, below, Left, 0), state.changed \/ inner.changed)
    IN IF applied.lqp.thrown THEN applied
       ELSE Fold(Subselect, applied, collect_select_expressions_by_lqp(applied.lqp, node))

\* The state of optimize: the heap, the LogicalPlanRootNode over the statement's plan, the rule batch being applied
\* (after the last when it is done), the next rule of the batch, whether a rule of this round of the batch changed the
\* plan, and the rounds of an iterative batch so far.  A plan is put below a root node, whose input every rule may
\* replace.
StartOptimizing(heap, plan) ==
    [lqp |-> make(heap, "Root", <<>>, "", plan, 0), root |-> NewNode(heap),
     batch |-> 1, rule |-> 1, changed |-> FALSE, iteration |-> 0]

\* The next rule of the batch.
ApplyRule(batches, state) ==
    LET applied == _apply_rule(batches[state.batch].rules[state.rule], state.lqp, state.root)
    IN IF applied.lqp.thrown THEN [state EXCEPT !.lqp = applied.lqp]
       ELSE [state EXCEPT !.lqp = Destroy(applied.lqp, {state.root}), !.changed = @ \/ applied.changed, !.rule = @ + 1]

\* After the last rule an iterative batch starts again unless nothing changed or it has done so too often.
EndOfBatch(batches, state) ==
    LET again == batches[state.batch].policy = "Iterative" /\ state.changed /\ state.iteration + 1 < max_num_iterations
    IN [state EXCEPT !.iteration = IF again THEN @ + 1 ELSE 0, !.batch = IF again THEN @ ELSE @ + 1,
                     !.rule = 1, !.changed = FALSE]

Step(batches, state) ==
    IF state.rule <= Len(batches[state.batch].rules) THEN ApplyRule(batches, state) ELSE EndOfBatch(batches, state)

\* The states of optimize from one on, at most 4^depth of them: each part starts with the last of the one before.
RECURSIVE StatesFrom(_, _, _)
StatesFrom(batches, state, depth) ==
    LET next == Step(batches, state)
        a == StatesFrom(batches, state, depth - 1)
        b == StatesFrom(batches, Last(a), depth - 1)
        c == StatesFrom(batches, Last(b), depth - 1)
        d == StatesFrom(batches, Last(c), depth - 1)
    IN IF state.batch \notin DOMAIN batches \/ state.lqp.thrown THEN <<state>>
       ELSE IF depth > 0 THEN Front(a) \o Front(b) \o Front(c) \o d
       ELSE IF next.lqp.thrown THEN <<state, next>> ELSE <<state, Evaluated(next)>>

\* All the states of optimize, the first being the one it starts in.
optimize(batches, state) == StatesFrom(batches, state, 3)
=============================================================================
