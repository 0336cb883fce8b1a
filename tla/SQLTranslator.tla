--------------------------- MODULE SQLTranslator ---------------------------
(***************************************************************************)
(* SQLTranslator (src/lib/sql/): the logical plan of a parsed statement.   *)
(*                                                                         *)
(* The parser's output.  An expression is a tuple <<kind, payload, args>>  *)
(* of the kinds of Expressions or of                                       *)
(*   "ref"          <<table, column>>, the table "" when it is not given   *)
(*   "placeholder"  the number of a `?`                                    *)
(*   "star"         the table of `t.*`, "" for `*`                         *)
(*   "not"          its argument negated                                   *)
(*   "in"           the first argument in the list of the others           *)
(*   "in_select", "exists", "subselect"   the SELECT                       *)
(*   "case"         [operand, otherwise, clauses], the first two empty     *)
(*                  when they are not given                                *)
(* A SELECT is [list, from, where, group_by, having, order, limit]: the    *)
(* elements of the list are <<expression, alias>>, those of the order      *)
(* <<expression, mode>>; from, where, having and limit hold at most one    *)
(* element.  A table in FROM is a [type |-> "Name" or "Select", alias,     *)
(* columns], a "Join" or a "CrossProduct".                                 *)
(*                                                                         *)
(* state is [lqp, counter, placeholders, proxies, views, use_mvcc]: the    *)
(* plans made so far, the ParameterIDAllocator, the identifier resolvers   *)
(* of the outer SELECTs, each with the expressions that were accessed, and *)
(* the StorageManager's views, each the plan and the names of its columns. *)
(* What a function of the translator returns comes as [state, value].      *)
(* Failing input sets lqp.thrown.                                          *)
(***************************************************************************)
EXTENDS LQPTranslator

Result(state, value) == [state |-> state, value |-> value]
FailInput(state) == [state EXCEPT !.lqp.thrown = TRUE]
FailUnless(condition, state) == IF condition THEN state ELSE FailInput(state)

MakeNode(state, type, exprs, arg, left, right) ==
    Result([state EXCEPT !.lqp = make(@, type, exprs, arg, left, right)], NewNode(state.lqp))

NewState(views, use_mvcc) ==
    [lqp |-> EmptyLqp, counter |-> 0, placeholders |-> <<>>, proxies |-> <<>>, views |-> views, use_mvcc |-> use_mvcc]

-----------------------------------------------------------------------------
(* SQLIdentifierResolver: a sequence of [expression, column, table].       *)

\* A column has the name it has in its table; the other names are not told apart.
as_column_name(plan, expression) ==
    IF expression[1] = "column"
    THEN tables[plan.nodes[expression[2][1][1]].arg.table_name].columns[expression[2][1][2]].name
    ELSE "(generated)"

EntryOf(resolver, expression) == SelectInSeq(resolver, LAMBDA e : e.expression = expression)

set_column_name(resolver, expression, name) ==
    IF EntryOf(resolver, expression) = 0
    THEN Append(resolver, [expression |-> expression, column |-> name, table |-> ""])
    ELSE [resolver EXCEPT ![EntryOf(resolver, expression)].column = name]

set_table_name(plan, resolver, expression, name) ==
    IF EntryOf(resolver, expression) = 0
    THEN Append(resolver, [expression |-> expression, column |-> as_column_name(plan, expression), table |-> name])
    ELSE [resolver EXCEPT ![EntryOf(resolver, expression)].table = name]

\* The one expression of that name; nothing when there is none or more than one.
resolve_identifier_relaxed(resolver, table, column) ==
    LET matching == SelectSeq(resolver, LAMBDA e : e.column = column /\ table \in {"", e.table})
    IN IF Len(matching) = 1 THEN <<matching[1].expression>> ELSE <<>>

\* get_expression_identifier
get_column_name(plan, resolver, expression) ==
    IF EntryOf(resolver, expression) = 0 THEN as_column_name(plan, expression)
    ELSE resolver[EntryOf(resolver, expression)].column

\* ParameterIDAllocator::allocate_for_value_placeholder
allocate_for_value_placeholder(state, placeholder) ==
    FailUnless(placeholder \notin DOMAIN state.placeholders,
               [state EXCEPT !.counter = @ + 1,
                             !.placeholders = @ @@ (placeholder :> state.counter)])

\* SQLIdentifierResolverProxy: a column of an outer SELECT becomes a parameter of the subselects below it.
ResolveExternally(state, table, column) ==
    LET levels == {k \in DOMAIN state.proxies : resolve_identifier_relaxed(state.proxies[k].resolver, table, column) # <<>>}
        level == Max(levels)
        expression == resolve_identifier_relaxed(state.proxies[level].resolver, table, column)[1]
        known == SelectInSeq(state.proxies[level].accessed, LAMBDA a : a[1] = expression)
        referenced == <<data_type(expression), is_nullable(expression)>>
    IN IF levels = {} THEN Result(FailInput(state), null_)
       ELSE IF known # 0 THEN Result(state, parameter_(state.proxies[level].accessed[known][2], referenced))
       ELSE Result([state EXCEPT !.counter = @ + 1,
                                 !.proxies[level].accessed = Append(@, <<expression, state.counter>>)],
                   parameter_(state.counter, referenced))

-----------------------------------------------------------------------------
(* Predicates and the columns they need                                    *)

_add_expressions_if_unavailable(state, node, exprs) ==
    LET missing == SelectSeq(exprs, LAMBDA e : requires_computation(e) /\ find_column_id(state.lqp, node, e) = 0)
    IN IF missing = <<>> THEN Result(state, node)
       ELSE MakeNode(state, "Projection", missing \o column_expressions(state.lqp, node), "", node, 0)

RECURSIVE _translate_predicate_expression(_, _, _)
_translate_predicate_expression(state, expression, node) ==
    LET Add(exprs, predicate) ==
            LET added == _add_expressions_if_unavailable(state, node, exprs)
            IN MakeNode(added.state, "Predicate", <<predicate>>, "TableScan", added.value, 0)
        computed == Add(<<expression>>, predicate_("NotEquals", <<expression, value_("Int", 0)>>))
        right == _translate_predicate_expression(state, arguments(expression)[2], node)
    IN CASE expression[1] = "predicate" /\ expression[2] # "In" -> Add(arguments(expression), expression)
         [] expression[1] = "logical" /\ expression[2] = "And" ->
              _translate_predicate_expression(right.state, arguments(expression)[1], right.value)
         [] \/ expression[1] = "exists"
            \/ expression[1] = "predicate" /\ expression[2] = "In"
            \/ expression[1] = "logical" /\ expression[2] = "Or" -> computed
         [] OTHER -> Result(FailInput(state), node)

\* Several predicates one above the other.
AddPredicates(state, predicates, node) ==
    Fold(LAMBDA r, p : _translate_predicate_expression(r.state, p, r.value), Result(state, node), predicates)

-----------------------------------------------------------------------------
(* Expressions                                                             *)

RECURSIVE _translate_hsql_expr(_, _, _)
RECURSIVE _translate_select_statement(_, _)

\* Expressions one after the other, until one fails.
RECURSIVE TranslateAll(_, _, _)
TranslateAll(state, exprs, resolver) ==
    LET first == _translate_hsql_expr(state, Head(exprs), resolver)
        others == TranslateAll(first.state, Tail(exprs), resolver)
    IN IF exprs = <<>> THEN Result(state, <<>>)
       ELSE IF first.state.lqp.thrown THEN Result(first.state, [i \in DOMAIN exprs |-> null_])
       ELSE Result(others.state, <<first.value>> \o others.value)

_translate_hsql_sub_select(state, select, resolver) ==
    LET inner == _translate_select_statement(
                     [state EXCEPT !.proxies = Append(@, [resolver |-> resolver, accessed |-> <<>>])], select)
        accessed == Last(inner.state.proxies).accessed
        heap == inner.state.lqp
        columns == column_expressions(heap, inner.value.node)
        handle == Max({0} \union DOMAIN heap.selects) + 1
        payload == [select |-> handle,
                    parameter_ids |-> [i \in DOMAIN accessed |-> accessed[i][2]],
                    data_type |-> IF Len(columns) = 1 THEN data_type(columns[1]) ELSE "Fail",
                    nullable |-> Len(columns) = 1 /\ is_nullable(columns[1])]
    IN Result([inner.state EXCEPT !.proxies = Front(@),
                                  !.lqp.selects = @ @@ (handle :> inner.value.node)],
              <<"select", payload, [i \in DOMAIN accessed |-> accessed[i][1]]>>)

\* WHEN ... THEN ... on top of the ELSE, the last clause first.
_translate_hsql_case(state, case, resolver) ==
    LET operand == TranslateAll(state, case.operand, resolver)
        otherwise == TranslateAll(operand.state, case.otherwise, resolver)
        Clause(r, clause) ==
            LET parts == TranslateAll(r.state, clause, resolver)
                when == IF operand.value = <<>> THEN parts.value[1]
                        ELSE predicate_("Equals", <<operand.value[1], parts.value[1]>>)
            IN Result(parts.state, <<"case", "", <<when, parts.value[2], r.value>> >>)
    IN Fold(Clause, Result(otherwise.state, IF otherwise.value = <<>> THEN null_ ELSE otherwise.value[1]),
                Reverse(case.clauses))

\* A predicate is inverted, anything else is compared with 0.
NotExpression(e) ==
    IF e[1] = "predicate" /\ e[2] \in Comparisons \union {"Like", "NotLike", "IsNull", "IsNotNull"}
    THEN predicate_(inverse_predicate_condition(e[2]), arguments(e))
    ELSE predicate_("Equals", <<e, value_("Int", 0)>>)

\* kExprColumnRef: a column of this SELECT before one of an outer SELECT.
TranslateColumnRef(state, table, column, resolver) ==
    LET found == resolve_identifier_relaxed(resolver, table, column)
    IN IF found # <<>> THEN Result(state, found[1]) ELSE ResolveExternally(state, table, column)

\* kExprOperator.  The operand and the ELSE of a CASE are translated once for nothing.
TranslateOperator(state, expr, resolver) ==
    LET kind == expr[1]
        args == TranslateAll(state, expr[3], resolver)
        select == _translate_hsql_sub_select(args.state, expr[2], resolver)
    IN CASE kind = "not" -> Result(args.state, NotExpression(args.value[1]))
         [] kind = "in" -> Result(FailUnless(Len(expr[3]) > 1, args.state),
                                  predicate_("In", <<args.value[1], <<"list", "", Tail(args.value)>> >>))
         [] kind = "in_select" -> Result(select.state, predicate_("In", <<args.value[1], select.value>>))
         [] kind = "exists" -> Result(select.state, <<"exists", "", <<select.value>> >>)
         [] kind = "case" ->
              _translate_hsql_case(TranslateAll(state, expr[2].operand \o expr[2].otherwise, resolver).state,
                                   expr[2], resolver)
         [] OTHER -> Result(args.state, <<kind, expr[2], args.value>>)

_translate_hsql_expr(state, expr, resolver) ==
    LET args == TranslateAll(state, expr[3], resolver)
    IN CASE expr[1] = "ref" -> TranslateColumnRef(state, expr[2][1], expr[2][2], resolver)
         [] expr[1] = "value" -> Result(state, expr)
         [] expr[1] = "placeholder" ->
              Result(allocate_for_value_placeholder(state, expr[2]), parameter_(state.counter, <<>>))
         [] expr[1] \in {"aggregate", "function", "extract"} -> Result(args.state, <<expr[1], expr[2], args.value>>)
         [] expr[1] = "subselect" -> _translate_hsql_sub_select(state, expr[2], resolver)
         [] expr[1] = "star" -> Result(FailInput(state), null_)
         [] OTHER -> TranslateOperator(state, expr, resolver)

-----------------------------------------------------------------------------
(* FROM.  A TableSourceState is [lqp, by_table, in_order, resolver].       *)

TableSourceState(node, by_table, in_order, resolver) ==
    [lqp |-> node, by_table |-> by_table, in_order |-> in_order, resolver |-> resolver]

\* TableSourceState::append, which keeps the plan; table names have to be unique.
AppendSource(state, lhs, rhs) ==
    Result(FailUnless(DOMAIN lhs.by_table \intersect DOMAIN rhs.by_table = {}, state),
           TableSourceState(lhs.lqp, lhs.by_table @@ rhs.by_table, lhs.in_order \o rhs.in_order, lhs.resolver \o rhs.resolver))

_validate_if_active(state, node) ==
    IF state.use_mvcc THEN MakeNode(state, "Validate", <<>>, "", node, 0) ELSE Result(state, node)

\* A resolver with names for these expressions.
NameColumns(resolver, exprs, names) ==
    Fold(LAMBDA r, i : set_column_name(r, exprs[i], names[i]), resolver, [i \in DOMAIN names |-> i])
NameTable(plan, resolver, exprs, name) == Fold(LAMBDA r, e : set_table_name(plan, r, e, name), resolver, exprs)

_translate_stored_table(state, name) ==
    LET stored == MakeNode(state, "StoredTable", <<>>, [table_name |-> name, excluded |-> {}], 0, 0)
        validated == _validate_if_active(stored.state, stored.value)
        columns == column_expressions(validated.state.lqp, stored.value)
        names == [c \in DOMAIN columns |-> tables[name].columns[c].name]
    IN Result(validated.state, [node |-> validated.value,
                                resolver |-> NameTable(validated.state.lqp, NameColumns(<<>>, columns, names), columns, name)])

\* A view's plan is copied; a plan without validation cannot be used in a validated query.
TranslateView(state, name) ==
    LET view == state.views[name]
        heap == CopyInto(state.lqp, view.lqp, view.node)
        node == view.node + CopyOffset(state.lqp)
        columns == column_expressions(heap, node)
    IN Result(FailUnless(~state.use_mvcc \/ lqp_is_validated(heap, node), [state EXCEPT !.lqp = heap]),
              [node |-> node, resolver |-> NameTable(heap, NameColumns(<<>>, columns, view.column_names), columns, name)])

\* A SELECT in FROM has a translator of its own, with its own parameter ids and no outer query.
TranslateFromSelect(state, select) ==
    LET inner == _translate_select_statement([NewState(state.views, state.use_mvcc) EXCEPT !.lqp = state.lqp], select)
        columns == column_expressions(inner.state.lqp, inner.value.node)
        names == [i \in DOMAIN columns |-> get_column_name(inner.state.lqp, inner.value.resolver, columns[i])]
    IN Result([state EXCEPT !.lqp = inner.state.lqp],
              [node |-> inner.value.node, resolver |-> NameColumns(<<>>, columns, names)])

_translate_table_origin(state, ref) ==
    LET origin == CASE ref.type = "Select" -> TranslateFromSelect(state, ref.select)
                    [] ref.type = "Name" /\ ref.name \in DOMAIN tables -> _translate_stored_table(state, ref.name)
                    [] OTHER -> TranslateView(state, ref.name)
        heap == origin.state.lqp
        columns == column_expressions(heap, origin.value.node)
        table_name == IF ref.alias # "" THEN ref.alias ELSE ref.name
        renamed == IF Len(ref.columns) = Len(columns) THEN NameColumns(origin.value.resolver, columns, ref.columns)
                   ELSE origin.value.resolver
        known == ref.type = "Select" \/ ref.name \in DOMAIN tables \union DOMAIN state.views
    IN IF ~known THEN Result(FailInput(state), TableSourceState(0, <<>>, <<>>, <<>>))
       ELSE Result(FailUnless(ref.columns = <<>> \/ Len(ref.columns) = Len(columns), origin.state),
                   TableSourceState(origin.value.node, table_name :> columns, columns,
                                    NameTable(heap, renamed, columns, table_name)))

is_trivial_join_predicate(plan, e, left, right) == OperatorJoinPredicates(plan, e, left, right) # <<>>

\* left and right are what the two sides of the join were translated to.
_translate_predicated_join(state, join, left, right) ==
    LET appended == AppendSource(state, left, right)
        raw == _translate_hsql_expr(appended.state, join.condition, appended.value.resolver)
        clauses == expression_flatten_conjunction(raw.value)
        on(node, e) == expression_evaluable_on_lqp(raw.state.lqp, e, node)
        left_local == SelectSeq(clauses, LAMBDA e : on(left.lqp, e))
        right_local == SelectSeq(clauses, LAMBDA e : ~on(left.lqp, e) /\ on(right.lqp, e))
        predicates == SelectSeq(clauses, LAMBDA e : ~on(left.lqp, e) /\ ~on(right.lqp, e))
        checked == FailUnless(join.mode = "Inner" \/ predicates # <<>>, raw.state)
        left_input_lqp == AddPredicates(checked, IF join.mode \in {"Left", "Outer"} THEN <<>> ELSE left_local, left.lqp)
        right_input_lqp == AddPredicates(left_input_lqp.state,
                                         IF join.mode \in {"Right", "Outer"} THEN <<>> ELSE right_local, right.lqp)
        l == left_input_lqp.value
        r == right_input_lqp.value
        primary == SelectInSeq(predicates, LAMBDA e : is_trivial_join_predicate(right_input_lqp.state.lqp, e, l, r))
        joined == IF primary = 0 THEN MakeNode(right_input_lqp.state, "Join", <<>>, "Cross", l, r)
                  ELSE MakeNode(right_input_lqp.state, "Join", <<predicates[primary]>>, join.mode, l, r)
        secondary == IF primary = 0 THEN predicates ELSE RemoveAt(predicates, primary)
        all == AddPredicates(joined.state, secondary, joined.value)
    IN Result(all.state, [appended.value EXCEPT !.lqp = all.value])

\* The columns of the right side that have no column of the same name on the left side.
_translate_natural_join(state, left, right) ==
    LET Column(acc, e) ==
            LET entry == right.resolver[EntryOf(right.resolver, e)]
                same == resolve_identifier_relaxed(acc.source.resolver, "", entry.column)
                named == set_table_name(state.lqp, set_column_name(acc.source.resolver, e, entry.column), e, entry.table)
                of_table == IF entry.table \in DOMAIN acc.source.by_table THEN acc.source.by_table[entry.table] ELSE <<>>
            IN IF same # <<>> THEN [acc EXCEPT !.predicates = Append(@, predicate_("Equals", <<same[1], e>>))]
               ELSE [acc EXCEPT !.source.in_order = Append(@, e), !.source.resolver = named,
                                !.source.by_table = (entry.table :> Append(of_table, e)) @@ @]
        matched == Fold(Column, [source |-> left, predicates |-> <<>>], right.in_order)
        predicates == matched.predicates
        joined == IF predicates = <<>> THEN MakeNode(state, "Join", <<>>, "Cross", left.lqp, right.lqp)
                  ELSE MakeNode(state, "Join", <<predicates[1]>>, "Inner", left.lqp, right.lqp)
        filtered == Fold(LAMBDA r, p : MakeNode(r.state, "Predicate", <<p>>, "TableScan", r.value, 0),
                             joined, Tail(predicates))
        projected == MakeNode(filtered.state, "Projection", matched.source.in_order, "", filtered.value, 0)
    IN IF predicates = <<>> THEN Result(joined.state, [matched.source EXCEPT !.lqp = joined.value])
       ELSE Result(projected.state, [matched.source EXCEPT !.lqp = projected.value])

RECURSIVE _translate_table_ref(_, _)
_translate_table_ref(state, ref) ==
    LET left == _translate_table_ref(state, ref.left)
        right == _translate_table_ref(left.state, ref.right)
        Cross(r, next) ==
            LET source == _translate_table_ref(r.state, next)
                joined == MakeNode(source.state, "Join", <<>>, "Cross", r.value.lqp, source.value.lqp)
            IN AppendSource(joined.state, [r.value EXCEPT !.lqp = joined.value], source.value)
    IN CASE ref.type \in {"Name", "Select"} -> _translate_table_origin(state, ref)
         [] ref.type = "CrossProduct" -> Fold(Cross, _translate_table_ref(state, Head(ref.list)), Tail(ref.list))
         [] ref.type = "Join" ->
              IF right.state.lqp.thrown THEN right
              ELSE IF ref.mode = "Natural" THEN _translate_natural_join(right.state, left.value, right.value)
              ELSE _translate_predicated_join(right.state, ref, left.value, right.value)

-----------------------------------------------------------------------------
(* SELECT                                                                  *)

\* find_aggregates_and_arguments: the aggregates in an expression that the plan does not have as columns.
RECURSIVE NewAggregates(_, _, _)
NewAggregates(plan, node, e) ==
    IF e[1] = "aggregate" THEN IF find_column_id(plan, node, e) # 0 THEN <<>> ELSE <<e>>
    ELSE FlattenSeq([i \in DOMAIN arguments(e) |-> NewAggregates(plan, node, arguments(e)[i])])

\* The elements of a sequence that are not in another one, each once.
Additional(known, exprs) == Fold(LAMBDA acc, e : IF e \in ToSet(acc) THEN acc ELSE Append(acc, e), known, exprs)

\* select: the FROM clause's result is source, WHERE has been added to the plan at node.
_translate_select_list_groupby_having(state, select, source, node) ==
    LET input == column_expressions(state.lqp, node)
        is_star(i) == select.list[i][1][1] = "star"
        \* the SELECT list, a wildcard standing for itself
        Element(r, i) == IF is_star(i) THEN Result(r.state, Append(r.value, select.list[i][1]))
                         ELSE LET one == _translate_hsql_expr(r.state, select.list[i][1], source.resolver)
                              IN Result(one.state, Append(r.value, one.value))
        elements == Fold(Element, Result(state, <<>>), [i \in DOMAIN select.list |-> i])
        resolver == Fold(LAMBDA r, i : IF is_star(i) \/ select.list[i][2] = "" THEN r
                                           ELSE set_column_name(r, elements.value[i], select.list[i][2]),
                             source.resolver, [i \in DOMAIN select.list |-> i])
        group_by == TranslateAll(elements.state, select.group_by, resolver)
        having == TranslateAll(group_by.state, select.having, resolver)
        new(e) == NewAggregates(having.state.lqp, node, e)
        of_list == FlattenSeq([i \in DOMAIN elements.value |-> IF is_star(i) THEN <<>> ELSE new(elements.value[i])])
        of_having == FlattenSeq([i \in DOMAIN having.value |-> new(having.value[i])])
        aggregates == Additional(<<>>, of_list \o of_having)
        computed(exprs) == SelectSeq(FlattenSeq([i \in DOMAIN exprs |-> arguments(exprs[i])]), requires_computation)
        pre_aggregate == Additional(input, computed(of_list) \o group_by.value \o computed(of_having))
        projected == IF Len(pre_aggregate) = Len(input) THEN Result(having.state, node)
                     ELSE MakeNode(having.state, "Projection", pre_aggregate, "", node, 0)
        is_aggregate == aggregates # <<>> \/ group_by.value # <<>>
        aggregated == IF ~is_aggregate THEN projected
                      ELSE MakeNode(projected.state, "Aggregate", group_by.value \o aggregates, Len(group_by.value),
                                    projected.value, 0)
        filtered == AddPredicates(aggregated.state, having.value, aggregated.value)
        \* what a wildcard stands for
        table_of(e) == IF EntryOf(resolver, e) = 0 THEN "" ELSE resolver[EntryOf(resolver, e)].table
        Wildcard(table) ==
            IF is_aggregate THEN IF table = "" THEN group_by.value
                                 ELSE SelectSeq(group_by.value, LAMBDA e : table_of(e) = table)
            ELSE IF table = "" THEN source.in_order ELSE source.by_table[table]
        missing(i) == /\ is_star(i)
                      /\ \/ select.from = <<>>
                         \/ ~is_aggregate /\ elements.value[i][2] \notin DOMAIN source.by_table \union {""}
    IN IF \E i \in DOMAIN select.list : missing(i)
       THEN Result(FailInput(filtered.state), [node |-> filtered.value, resolver |-> resolver, inflated |-> <<>>])
       ELSE Result(filtered.state,
                   [node |-> filtered.value, resolver |-> resolver,
                    inflated |-> FlattenSeq([i \in DOMAIN elements.value |->
                                     IF is_star(i) THEN Wildcard(elements.value[i][2]) ELSE <<elements.value[i]>>])])

_translate_order_by(state, order, resolver, node) ==
    LET exprs == TranslateAll(state, [i \in DOMAIN order |-> order[i][1]], resolver)
        added == _add_expressions_if_unavailable(exprs.state, node, exprs.value)
        sorted == MakeNode(added.state, "Sort", exprs.value, [i \in DOMAIN order |-> order[i][2]], added.value, 0)
        before == column_expressions(state.lqp, node)
    IN IF order = <<>> THEN Result(state, node)
       ELSE IF Len(before) = Len(column_expressions(sorted.state.lqp, sorted.value)) THEN sorted
       ELSE MakeNode(sorted.state, "Projection", before, "", sorted.value, 0)

_translate_limit(state, limit, node) ==
    IF limit = <<>> THEN Result(state, node)
    ELSE MakeNode(state, "Limit", <<>>, value_("Long", limit[1]), node, 0)

_translate_select_statement(state, select) ==
    LET dummy == MakeNode(state, "DummyTable", <<>>, "", 0, 0)
        from == IF select.from = <<>> THEN Result(dummy.state, TableSourceState(dummy.value, <<>>, <<>>, <<>>))
                ELSE _translate_table_ref(state, select.from[1])
        where == TranslateAll(from.state, select.where, from.value.resolver)
        selected == AddPredicates(where.state, where.value, from.value.lqp)
        listed == _translate_select_list_groupby_having(selected.state, select, from.value, selected.value)
        inflated == listed.value.inflated
        resolver == listed.value.resolver
        ordered == _translate_order_by(listed.state, select.order, resolver, listed.value.node)
        limited == _translate_limit(ordered.state, select.limit, ordered.value)
        projected == IF column_expressions(limited.state.lqp, limited.value) = inflated THEN limited
                     ELSE MakeNode(limited.state, "Projection", inflated, "", limited.value, 0)
        heap == projected.state.lqp
        names == [i \in DOMAIN inflated |-> get_column_name(heap, resolver, inflated[i])]
        need_alias_node == \E i \in DOMAIN inflated : names[i] # as_column_name(heap, inflated[i])
        final == IF need_alias_node
                 THEN MakeNode(projected.state, "Alias", <<>>, [expressions |-> inflated, aliases |-> names], projected.value, 0)
                 ELSE projected
        failed == Result(from.state, [node |-> 0, resolver |-> <<>>])
    IN IF from.state.lqp.thrown THEN failed
       ELSE IF where.state.lqp.thrown THEN Result(where.state, failed.value)
       ELSE IF selected.state.lqp.thrown THEN Result(selected.state, failed.value)
       ELSE IF listed.state.lqp.thrown THEN Result(listed.state, failed.value)
       ELSE Result(final.state, [node |-> final.value, resolver |-> resolver])

-----------------------------------------------------------------------------
(* The other statements                                                    *)

ColumnIdByName(table, name) == SelectInSeq(tables[table].columns, LAMBDA c : c.name = name)

\* insert: [table, columns, values, select], columns empty when they are not given.
_translate_insert(state, insert) ==
    LET target == tables[insert.table].columns
        selected == _translate_select_statement(state, insert.select[1])
        values == TranslateAll(state, insert.values, <<>>)
        dummy == MakeNode(values.state, "DummyTable", <<>>, "", 0, 0)
        from_select == insert.select # <<>>
        data == IF from_select THEN Result(selected.state, selected.value.node) ELSE dummy
        given == IF from_select THEN column_expressions(data.state.lqp, data.value) ELSE values.value
        source(c) == SelectInSeq(insert.columns, LAMBDA n : ColumnIdByName(insert.table, n) = c)
        arranged == IF insert.columns = <<>> THEN given
                    ELSE [c \in DOMAIN target |-> IF source(c) = 0 THEN null_ ELSE given[source(c)]]
        is_null(e) == e[1] = "value" /\ e[2][2] = Null
        without_nulls == [c \in DOMAIN arranged |->
                             IF is_null(arranged[c]) THEN <<"cast", target[c].type, <<null_>> >> ELSE arranged[c]]
        casted == [c \in DOMAIN without_nulls |->
                      LET e == without_nulls[c]
                      IN IF expression_contains_placeholders(e) \/ data_type(e) # target[c].type
                         THEN <<"cast", target[c].type, <<e>> >> ELSE e]
        projection_required == ~from_select \/ insert.columns # <<>> \/ \E c \in DOMAIN arranged : is_null(arranged[c])
        projected == IF projection_required THEN MakeNode(data.state, "Projection", casted, "", data.value, 0) ELSE data
        matching == /\ insert.columns # <<>> => Len(insert.columns) = Len(given)
                    /\ Len(arranged) = Len(target)
    IN IF data.state.lqp.thrown \/ ~matching THEN Result(FailInput(data.state), 0)
       ELSE MakeNode(projected.state, "Insert", <<>>, insert.table, projected.value, 0)

\* delete: [table, where]
_translate_delete(state, delete) ==
    LET stored == _translate_stored_table(state, delete.table)
        where == TranslateAll(stored.state, delete.where, stored.value.resolver)
        rows == AddPredicates(where.state, where.value, stored.value.node)
    IN MakeNode(rows.state, "Delete", <<>>, delete.table, rows.value, 0)

\* update: [table, where, updates], an update being <<column, expression>>.  A column is looked up in
\* the plan with the WHERE clause, whose number is used for the columns without it.
_translate_update(state, update) ==
    LET source == _translate_table_ref(state, update.table)
        where == TranslateAll(source.state, update.where, source.value.resolver)
        rows == AddPredicates(where.state, where.value, source.value.lqp)
        Set(r, u) ==
            LET column == resolve_identifier_relaxed(source.value.resolver, "", u[1])
                id == find_column_id(r.state.lqp, rows.value, column[1])
                value == _translate_hsql_expr(r.state, u[2], source.value.resolver)
            IN IF column = <<>> \/ id > Len(r.value) THEN Result(FailInput(r.state), r.value)
               ELSE Result(value.state, [r.value EXCEPT ![id] = value.value])
        values == Fold(Set, Result(rows.state, column_expressions(source.state.lqp, source.value.lqp)), update.updates)
    IN IF TypeOf(rows.state.lqp, rows.value) = "StoredTable" THEN Result(FailInput(rows.state), 0)
       ELSE MakeNode(values.state, "Update", values.value, update.table.name, rows.value, 0)

\* create: [view, columns, select]; the view is handed to the operator in the node.
_translate_create(state, create) ==
    LET selected == _translate_select_statement(state, create.select)
        heap == selected.state.lqp
        columns == column_expressions(heap, selected.value.node)
        names == IF create.columns # <<>> THEN create.columns
                 ELSE [c \in DOMAIN columns |-> get_column_name(heap, selected.value.resolver, columns[c])]
    IN IF heap.thrown THEN Result(selected.state, 0)
       ELSE MakeNode(FailUnless(Len(names) = Len(columns), selected.state), "CreateView", <<>>,
                     [view_name |-> create.view, view |-> [lqp |-> heap, node |-> selected.value.node, column_names |-> names]],
                     0, 0)

\* statement: [type, body]
_translate_statement(state, statement) ==
    LET selected == _translate_select_statement(state, statement.body)
    IN CASE statement.type = "Select" -> Result(selected.state, selected.value.node)
         [] statement.type = "Insert" -> _translate_insert(state, statement.body)
         [] statement.type = "Delete" -> _translate_delete(state, statement.body)
         [] statement.type = "Update" -> _translate_update(state, statement.body)
         [] statement.type = "CreateView" -> _translate_create(state, statement.body)
         [] statement.type \in {"ShowTables", "ShowColumns", "DropView"} ->
              MakeNode(state, statement.type, <<>>, statement.body, 0, 0)
         [] OTHER -> Result(FailInput(state), 0)
=============================================================================
