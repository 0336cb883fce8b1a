---------------------------- MODULE JoinOrdering ----------------------------
(***************************************************************************)
(* The join order of a join graph: the enumeration of its connected        *)
(* subgraphs, dynamic programming over them (DpCcp), and the rule that     *)
(* applies it to a plan.                                                   *)
(***************************************************************************)
EXTENDS LQP, Bitwise

-----------------------------------------------------------------------------
(***************************************************************************)
(* EnumerateCcp (src/lib/optimizer/join_ordering/enumerate_ccp.cpp): the   *)
(* pairs of connected subgraphs of a join graph that an edge connects, in  *)
(* an order in which each half of a pair with more than one vertex has     *)
(* been put together by an earlier pair.  DpCcp builds one candidate plan  *)
(* per pair.                                                               *)
(*                                                                         *)
(* Vertices are 0 .. num_vertices - 1, a vertex set is a set of them, its  *)
(* unsigned long (to_ulong) the sum of the bits.  edges is a sequence of   *)
(* pairs of vertices.                                                      *)
(***************************************************************************)

CONSTANT UlongBits      \* bits of an unsigned long, more than there are vertices

to_ulong(vertex_set) == MapThenSumSet(LAMBDA v : 2 ^ v, vertex_set)
FromUlong(bits) == {v \in 0..(UlongBits - 1) : (bits \div 2 ^ v) % 2 = 1}
Ulong(n) == n % 2 ^ UlongBits

_exclusion_set(vertex_idx) == 0..(vertex_idx - 1)

_single_vertex_neighborhood(edges, vertex_idx) ==
    {w \in UNION {{e[1], e[2]} : e \in ToSet(edges)} \ {vertex_idx} :
        \E e \in ToSet(edges) : {e[1], e[2]} = {vertex_idx, w}}

_neighborhood(edges, vertex_set, exclusion_set) ==
    UNION {_single_vertex_neighborhood(edges, v) : v \in vertex_set} \ (exclusion_set \union vertex_set)

(* Counting within the bits of s: s1 is followed by s & (s1 - s).          *)
RECURSIVE SubsetsFrom(_, _)
SubsetsFrom(s, s1) ==
    IF s1 = s THEN <<FromUlong(s)>>
    ELSE <<FromUlong(s1)>> \o SubsetsFrom(s, s & Ulong(s1 - s))

_non_empty_subsets(vertex_set) ==
    LET s == to_ulong(vertex_set)
    IN IF vertex_set = {} THEN <<>> ELSE SubsetsFrom(s, s & Ulong(-s))

RECURSIVE _enumerate_csg_recursive(_, _, _)
_enumerate_csg_recursive(edges, vertex_set, exclusion_set) ==
    LET neighborhood == _neighborhood(edges, vertex_set, exclusion_set)
        extended == [i \in DOMAIN _non_empty_subsets(neighborhood) |->
                        _non_empty_subsets(neighborhood)[i] \union vertex_set]
    IN extended \o FlattenSeq([i \in DOMAIN extended |->
           _enumerate_csg_recursive(edges, extended[i], exclusion_set \union neighborhood)])

\* Mutant: a complement may be extended by neighbors that are complements themselves.
EnumerateCmpTwice(edges, primary) ==
    LET exclusion_set == _exclusion_set(Min(primary)) \union primary
        neighborhood == _neighborhood(edges, primary, exclusion_set)
        complements(v) == <<{v}>> \o _enumerate_csg_recursive(edges, {v}, exclusion_set)
        all == FlattenSeq([i \in 1..Cardinality(neighborhood) |-> complements(SetToSortSeq(neighborhood, >)[i])])
    IN [i \in DOMAIN all |-> <<primary, all[i]>>]

_enumerate_cmp(edges, primary) ==
    LET exclusion_set == _exclusion_set(Min(primary)) \union primary
        neighborhood == _neighborhood(edges, primary, exclusion_set)
        complements(v) ==
            <<{v}>> \o _enumerate_csg_recursive(edges, {v}, exclusion_set \union (_exclusion_set(v) \intersect neighborhood))
        all == FlattenSeq([i \in 1..Cardinality(neighborhood) |-> complements(SetToSortSeq(neighborhood, >)[i])])
    IN [i \in DOMAIN all |-> <<primary, all[i]>>]

(* operator(): from the highest vertex to the lowest.                      *)
CsgCmpPairs(num_vertices, edges) ==
    LET csgs(v) == <<{v}>> \o _enumerate_csg_recursive(edges, {v}, _exclusion_set(v))
        primaries == FlattenSeq([i \in 1..num_vertices |-> csgs(num_vertices - i)])
    IN FlattenSeq([i \in DOMAIN primaries |-> _enumerate_cmp(edges, primaries[i])])

-----------------------------------------------------------------------------
(* What the pairs have to be, from the glossary of the source.             *)

RECURSIVE Reach(_, _, _)
Reach(edges, inside, from) ==
    LET more == from \union {w \in inside : \E v \in from, e \in ToSet(edges) : {e[1], e[2]} = {v, w}}
    IN IF more = from THEN from ELSE Reach(edges, inside, more)

Connected(edges, s) == s # {} /\ Reach(edges, s, {Min(s)}) = s

Ccps(num_vertices, edges) ==
    LET csgs == {s \in SUBSET (0..(num_vertices - 1)) : Connected(edges, s)}
    IN {<<s, t>> \in csgs \X csgs : s \intersect t = {} /\ Connected(edges, s \union t)}

-----------------------------------------------------------------------------
(***************************************************************************)
(* Join ordering (src/lib/optimizer/join_ordering/ and the                 *)
(* JoinOrderingRule): inner and cross joins and the predicates around them *)
(* are turned into a join graph, DpCcp puts the cheapest plan together     *)
(* that it finds for the graph, and a projection restores the order of the *)
(* columns.                                                                *)
(*                                                                         *)
(* A function that builds nodes gives back [lqp, node], the changed heap   *)
(* and the plan's root.  An assertion that throws sets lqp.thrown.         *)
(* std::sort keeps the order of equal elements, which it does for fewer    *)
(* than 16 of them.                                                        *)
(***************************************************************************)

CONSTANT LowestFirst(_)     \* whether begin() of this unordered_set of numbers is the lowest of them

Plan(lqp, node) == [lqp |-> lqp, node |-> node]

-----------------------------------------------------------------------------
(* CostModelLogical.  The logarithms of sorts are left out: the plans that *)
(* are compared with each other hold the same sorts.                       *)

_get_expression_cost_multiplier(expression) ==
    LET visited == visit_expression(expression)
    IN Len(visited) + Len(SelectSeq(visited, LAMBDA e : e[1] = "column"))

RowsIn(lqp, node) == IF node = 0 THEN Stat!Whole(0) ELSE row_count(lqp, node)

_estimate_node_cost(lqp, node) ==
    LET n == lqp.nodes[node]
        left == RowsIn(lqp, n.inputs[Left])
        right == RowsIn(lqp, n.inputs[Right])
    IN CASE n.type = "Join" -> Stat!Plus(Stat!Plus(left, right), row_count(lqp, node))
         [] n.type = "Predicate" ->
              Stat!Plus(Stat!Times(left, Stat!Whole(_get_expression_cost_multiplier(n.exprs[1]))), row_count(lqp, node))
         [] n.type = "Sort" -> Stat!Whole(0)
         [] OTHER -> Stat!Plus(left, row_count(lqp, node))

estimate_plan_cost(lqp, node) ==
    Fold(LAMBDA cost, n : Stat!Plus(cost, _estimate_node_cost(lqp, n)), Stat!Whole(0), visit_lqp(lqp, node))

Cheaper(a, b) == ~Stat!Leq(b, a)

\* The positions of costs, cheapest first.
ByCost(costs) ==
    SortSeq([k \in DOMAIN costs |-> k], LAMBDA i, j : Cheaper(costs[i], costs[j]) \/ (~Cheaper(costs[j], costs[i]) /\ i < j))

-----------------------------------------------------------------------------
(* JoinGraphBuilder: [vertices, predicates] and then [vertices, edges],    *)
(* an edge being [vertex_set, predicates] and vertices counting from 0.    *)

_lqp_node_type_is_vertex(type) == type \notin {"Join", "Union", "Predicate"}

RECURSIVE _parse_predicate(_, _)
_parse_predicate(lqp, node) ==
    LET n == lqp.nodes[node]
        base == n.inputs[Left]
        below == _parse_predicate(lqp, base)
        other == _parse_predicate(lqp, n.inputs[Right])
    IN CASE n.type = "Predicate" ->
              IF output_count(lqp, base) > 1 THEN [base_node |-> base, predicate |-> n.exprs[1]]
              ELSE [base_node |-> below.base_node, predicate |-> and_(n.exprs[1], below.predicate)]
         [] n.type = "Union" -> [base_node |-> below.base_node, predicate |-> or_(below.predicate, other.predicate)]
         [] OTHER -> below

RECURSIVE _traverse(_, _)
_traverse(lqp, node) ==
    LET n == lqp.nodes[node]
        vertex == [vertices |-> <<node>>, predicates |-> <<>>]
        left == _traverse(lqp, n.inputs[Left])
        right == _traverse(lqp, n.inputs[Right])
        union == _parse_predicate(lqp, node)
        base == _traverse(lqp, union.base_node)
    IN CASE n.type = "Join" /\ n.arg \in {"Inner", "Cross"} ->
              [vertices |-> left.vertices \o right.vertices, predicates |-> n.exprs \o left.predicates \o right.predicates]
         [] n.type = "Predicate" -> [left EXCEPT !.predicates = n.exprs \o @]
         [] n.type = "Union" /\ n.arg = "Positions" -> [base EXCEPT !.predicates = @ \o <<union.predicate>>]
         [] OTHER -> vertex

RECURSIVE _get_vertex_set_accessed_by_expression(_, _, _)
_get_vertex_set_accessed_by_expression(lqp, expression, vertices) ==
    LET computing == {v \in DOMAIN vertices : find_column_id(lqp, vertices[v], expression) # 0}
    IN IF computing # {} THEN {v - 1 : v \in computing}
       ELSE UNION {_get_vertex_set_accessed_by_expression(lqp, arguments(expression)[i], vertices) :
                       i \in DOMAIN arguments(expression)}

AddPredicate(edges, vertex_set, predicate) ==
    LET edge == SelectInSeq(edges, LAMBDA e : e.vertex_set = vertex_set)
    IN IF edge = 0 THEN Append(edges, [vertex_set |-> vertex_set, predicates |-> <<predicate>>])
       ELSE [edges EXCEPT ![edge].predicates = Append(@, predicate)]

_join_edges_from_predicates(lqp, vertices, predicates) ==
    Fold(LAMBDA edges, p : AddPredicate(edges, _get_vertex_set_accessed_by_expression(lqp, p, vertices), p),
             <<>>, predicates)

\* The vertices an edge, or several in a row, leads to.
RECURSIVE ComponentOf(_, _)
ComponentOf(edges, from) ==
    LET more == from \union UNION {e.vertex_set : e \in {x \in ToSet(edges) : x.vertex_set \intersect from # {}}}
    IN IF more = from THEN from ELSE ComponentOf(edges, more)

RECURSIVE OneVertexPerComponent(_, _)
OneVertexPerComponent(edges, remaining) ==
    LET first == IF LowestFirst(remaining) THEN Min(remaining) ELSE Max(remaining)
    IN IF remaining = {} THEN <<>>
       ELSE <<first>> \o OneVertexPerComponent(edges, remaining \ ComponentOf(edges, {first}))

_cross_edges_between_components(vertices, edges) ==
    LET chain == OneVertexPerComponent(edges, 0..(Len(vertices) - 1))
    IN [i \in 1..(Len(chain) - 1) |-> [vertex_set |-> {chain[i], chain[i + 1]}, predicates |-> <<>>]]

JoinGraph(lqp, node) ==
    LET traversed == _traverse(lqp, node)
        edges == _join_edges_from_predicates(lqp, traversed.vertices, traversed.predicates)
    IN [vertices |-> traversed.vertices, edges |-> edges \o _cross_edges_between_components(traversed.vertices, edges)]

find_local_predicates(graph, vertex) ==
    FlattenSeq([i \in DOMAIN graph.edges |->
        IF graph.edges[i].vertex_set = {vertex} THEN graph.edges[i].predicates ELSE <<>>])

find_join_predicates(graph, a, b) ==
    FlattenSeq([i \in DOMAIN graph.edges |->
        LET s == graph.edges[i].vertex_set
        IN IF s \intersect a # {} /\ s \intersect b # {} /\ s \subseteq a \union b
           THEN graph.edges[i].predicates ELSE <<>>])

-----------------------------------------------------------------------------
(* DpCcp                                                                   *)

\* The predicates on top of a plan, those that are cheapest directly on it first.
_add_predicates_to_plan(lqp, node, predicates) ==
    LET first == NewNode(lqp)
        made == Fold(LAMBDA plan, p : make(plan, "Predicate", <<p>>, "TableScan", node, 0), lqp, predicates)
        order == ByCost(Evaluated([i \in DOMAIN predicates |-> estimate_plan_cost(made, first + i - 1)]))
    IN IF predicates = <<>> THEN Plan(lqp, node)
       ELSE Plan(set_inputs(made, [i \in DOMAIN order |->
                     <<first + order[i] - 1, Left, IF i = 1 THEN node ELSE first + order[i - 1] - 1>>]),
                 first + Last(order) - 1)

\* The cheapest predicate that a join can execute becomes the join's, the others follow as scans.
_add_join_to_plan(lqp, left, right, predicates) ==
    LET costs == [i \in DOMAIN predicates |->
                     estimate_plan_cost(make(lqp, "Join", <<predicates[i]>>, "Inner", left, right), NewNode(lqp))]
        order == ByCost(Evaluated(costs))
        sorted == [i \in DOMAIN predicates |-> predicates[order[i]]]
        primary == SelectInSeq(sorted, LAMBDA p : OperatorJoinPredicates(lqp, p, left, right) # <<>>)
        joined(exprs, mode) == Plan(make(lqp, "Join", exprs, mode, left, right), NewNode(lqp))
        scanned(join, others) ==
            Fold(LAMBDA plan, p : Plan(make(plan.lqp, "Predicate", <<p>>, "TableScan", plan.node, 0), NewNode(plan.lqp)),
                     join, others)
    IN IF primary = 0 THEN scanned(joined(<<>>, "Cross"), sorted)
       ELSE scanned(joined(<<sorted[primary]>>, "Inner"), RemoveAt(sorted, primary))

\* The candidate plan of a pair, kept when it is the first or cheaper; best maps vertex sets to plans.
Candidate(graph, state, pair) ==
    LET candidate == _add_join_to_plan(state.lqp, state.best[pair[1]], state.best[pair[2]],
                                       find_join_predicates(graph, pair[1], pair[2]))
        joined == pair[1] \union pair[2]
        better == joined \notin DOMAIN state.best
                  \/ Cheaper(estimate_plan_cost(candidate.lqp, candidate.node),
                             estimate_plan_cost(candidate.lqp, state.best[joined]))
    IN IF candidate.lqp.thrown THEN [state EXCEPT !.lqp = candidate.lqp]
       ELSE [lqp |-> candidate.lqp,
             best |-> IF better THEN (joined :> candidate.node) @@ state.best ELSE state.best]

SingleVertex(graph, state, v) ==
    LET plan == _add_predicates_to_plan(state.lqp, graph.vertices[v + 1], find_local_predicates(graph, v))
    IN [lqp |-> plan.lqp, best |-> state.best @@ ({v} :> plan.node)]

RECURSIVE Candidates(_, _, _)
Candidates(graph, state, pairs) ==
    IF pairs = <<>> \/ state.lqp.thrown THEN state
    ELSE Candidates(graph, Candidate(graph, state, Head(pairs)), Tail(pairs))

DpCcp(lqp, graph) ==
    LET n == Len(graph.vertices)
        joins == SelectSeq(graph.edges, LAMBDA e : Cardinality(e.vertex_set) # 1)
        edges == [i \in DOMAIN joins |-> <<Min(joins[i].vertex_set), Max(joins[i].vertex_set)>>]
        single == Fold(LAMBDA state, v : SingleVertex(graph, state, v - 1),
                           [lqp |-> lqp, best |-> <<>>], [v \in 1..n |-> v])
        all == Candidates(graph, single, CsgCmpPairs(n, edges))
    IN IF \E i \in DOMAIN joins : Cardinality(joins[i].vertex_set) # 2
       THEN Plan([lqp EXCEPT !.thrown = TRUE], graph.vertices[1])
       ELSE Plan(all.lqp, all.best[0..(n - 1)])

-----------------------------------------------------------------------------
(* JoinOrderingRule                                                        *)

RECURSIVE _perform_join_ordering_recursively(_, _)

_recurse_to_inputs(lqp, node) ==
    LET at(heap, side) ==
            LET input == heap.nodes[node].inputs[side]
                plan == _perform_join_ordering_recursively(heap, input)
            IN IF input = 0 THEN heap
               ELSE IF plan.lqp.thrown THEN plan.lqp
               ELSE set_input(plan.lqp, node, side, plan.node)
        left == at(lqp, Left)
    IN IF left.thrown THEN left ELSE at(left, Right)

RECURSIVE RecurseBelow(_, _)
RecurseBelow(lqp, vertices) ==
    LET first == _recurse_to_inputs(lqp, Head(vertices))
    IN IF vertices = <<>> THEN lqp
       ELSE IF first.thrown THEN first
       ELSE RecurseBelow(first, Tail(vertices))

_perform_join_ordering_recursively(lqp, node) ==
    LET graph == JoinGraph(lqp, node)
        ordered == DpCcp(lqp, graph)
    IN IF _lqp_node_type_is_vertex(TypeOf(lqp, node)) THEN Plan(_recurse_to_inputs(lqp, node), node)
       ELSE IF ordered.lqp.thrown THEN ordered
       ELSE Plan(RecurseBelow(ordered.lqp, graph.vertices), ordered.node)

JoinOrderingRule(lqp, root) ==
    LET expected == column_expressions(lqp, root)
        plan == _perform_join_ordering_recursively(lqp, left_input(lqp, root))
        fixed == make(plan.lqp, "Projection", expected, "", plan.node, 0)
    IN IF plan.lqp.thrown THEN plan.lqp
       ELSE IF column_expressions(plan.lqp, plan.node) = expected THEN set_input(plan.lqp, root, Left, plan.node)
       ELSE set_input(fixed, root, Left, NewNode(plan.lqp))

=============================================================================
