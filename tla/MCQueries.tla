----------------------------- MODULE MCQueries -----------------------------
(***************************************************************************)
(* How a query becomes a plan, on small instances: SQL statements through  *)
(* translation, the optimizer and both translators to operators; the       *)
(* evaluation of expressions on a chunk; cardinality estimates and chunk   *)
(* pruning; the enumeration of join orders; and the query plan caches.     *)
(* They share no state here; a behaviour is one of the one that is its     *)
(* subject.  A query is planned, an expression evaluated and a selectivity *)
(* estimated in a step of its own once the inputs are complete.            *)
(***************************************************************************)
EXTENDS SQLTranslator, Caches

-----------------------------------------------------------------------------
(***************************************************************************)
(* What a SELECT means: the reference the translated and optimized plans   *)
(* are compared with.  A row is the sequence of its cells                  *)
(* [table, column, value]; scopes are the rows of the enclosing SELECTs,   *)
(* the innermost last.                                                     *)
(***************************************************************************)

CONSTANT ViewQueries        \* the SELECT behind each view

Named(row, table, column) == SelectSeq(row, LAMBDA cell : cell.column = column /\ table \in {"", cell.table})

Lookup(scopes, table, column) ==
    LET level == Max({k \in DOMAIN scopes : Named(scopes[k], table, column) # <<>>})
    IN Named(scopes[level], table, column)[1].value

RECURSIVE HasAggregate(_)
HasAggregate(e) == e[1] = "aggregate" \/ \E i \in DOMAIN arguments(e) : HasAggregate(arguments(e)[i])

\* The expression with the values of its columns; members are the rows of the group.
RECURSIVE SelectRows(_, _)
RECURSIVE Bind(_, _, _)
Bind(e, scopes, members) ==
    LET bound == [i \in DOMAIN arguments(e) |-> Bind(arguments(e)[i], scopes, members)]
        value(x, row) == Evaluator!SqlValue(Bind(x, Append(Front(scopes), row), <<>>), <<>>)
        subselect == LET rows == SelectRows(e[2], scopes)
                     IN <<"select", [pqp |-> [p \in {<<>>} |-> [r \in DOMAIN rows |-> rows[r][1].value]], parameters |-> <<>>,
                                     data_type |-> "Int", nullable |-> TRUE], <<>> >>
        of_operand(when) == IF e[2].operand = <<>> THEN when ELSE predicate_("Equals", <<e[2].operand[1], when>>)
    IN CASE e[1] = "ref" -> value_("Int", Lookup(scopes, e[2][1], e[2][2]))
         [] e[1] = "value" -> e
         [] e[1] = "aggregate" ->
              value_("Int", AggregateCells(e[2], [m \in DOMAIN members |->
                                                    IF arguments(e) = <<>> THEN 0 ELSE value(arguments(e)[1], members[m])]))
         [] e[1] = "not" -> predicate_("Equals", <<bound[1], value_("Int", 0)>>)
         [] e[1] = "in" -> predicate_("In", <<bound[1], <<"list", "", Tail(bound)>> >>)
         [] e[1] = "in_select" -> predicate_("In", <<bound[1], subselect>>)
         [] e[1] = "exists" -> <<"exists", "", <<subselect>> >>
         [] e[1] = "subselect" -> subselect
         [] e[1] = "case" ->
              FoldLeft(LAMBDA otherwise, clause : <<"case", "", <<Bind(of_operand(clause[1]), scopes, members),
                                                                  Bind(clause[2], scopes, members), otherwise>> >>,
                       IF e[2].otherwise = <<>> THEN value_("Int", Null) ELSE Bind(e[2].otherwise[1], scopes, members),
                       Reverse(e[2].clauses))
         [] OTHER -> <<e[1], e[2], bound>>

ValueOf(e, scopes, members) == Evaluator!SqlValue(Bind(e, scopes, members), <<>>)

Retable(row, ref) ==
    [c \in DOMAIN row |-> [row[c] EXCEPT !.table = IF ref.alias = "" THEN ref.name ELSE ref.alias,
                                         !.column = IF ref.columns = <<>> THEN @ ELSE ref.columns[c]]]

\* The columns of a table, as a row of NULLs.
RECURSIVE NullRow(_)
NullRow(ref) ==
    LET list == IF ref.type = "Select" THEN ref.select.list ELSE ViewQueries[ref.name].list
        name(i) == IF list[i][2] # "" THEN list[i][2] ELSE list[i][1][2][2]
    IN CASE ref.type = "Join" -> NullRow(ref.left) \o NullRow(ref.right)
         [] ref.type = "Name" /\ ref.name \in DOMAIN tables ->
              Retable([c \in DOMAIN tables[ref.name].columns |->
                          [table |-> "", column |-> tables[ref.name].columns[c].name, value |-> Null]], ref)
         [] OTHER -> Retable([i \in DOMAIN list |-> [table |-> "", column |-> name(i), value |-> Null]], ref)

RECURSIVE TableRows(_, _)
TableRows(ref, scopes) ==
    LET left == Evaluated(TableRows(ref.left, scopes))
        right == Evaluated(TableRows(ref.right, scopes))
        common(l) == {c.column : c \in ToSet(l)}
        on(l, r) == IF ref.mode = "Natural"
                    THEN \A c \in ToSet(r) : c.column \in common(l) =>
                             CompareCells("Equals", Named(l, "", c.column)[1].value, c.value)
                    ELSE ValueOf(ref.condition, Append(scopes, l \o r), <<>>) = 1
        joined(l, r) == IF ref.mode = "Natural" THEN l \o SelectSeq(r, LAMBDA c : c.column \notin common(l)) ELSE l \o r
        pairs == FlattenSeq([i \in DOMAIN left |->
                     LET partners == SelectSeq(right, LAMBDA r : on(left[i], r))
                     IN [j \in DOMAIN partners |-> joined(left[i], partners[j])]])
        lonely_left == SelectSeq(left, LAMBDA l : \A r \in ToSet(right) : ~on(l, r))
        lonely_right == SelectSeq(right, LAMBDA r : \A l \in ToSet(left) : ~on(l, r))
        with_left == [i \in DOMAIN lonely_left |-> lonely_left[i] \o NullRow(ref.right)]
        with_right == [i \in DOMAIN lonely_right |-> NullRow(ref.left) \o lonely_right[i]]
        stored == FlattenSeq(tables[ref.name].chunks)
        selected == Evaluated(SelectRows(IF ref.type = "Select" THEN ref.select ELSE ViewQueries[ref.name], <<>>))
        Cross(rows, next) == LET others == TableRows(next, scopes)
                             IN FlattenSeq([i \in DOMAIN rows |-> [j \in DOMAIN others |-> rows[i] \o others[j]]])
    IN CASE ref.type = "Join" -> pairs \o (IF ref.mode \in {"Left", "Outer"} THEN with_left ELSE <<>>)
                                       \o (IF ref.mode \in {"Right", "Outer"} THEN with_right ELSE <<>>)
         [] ref.type = "CrossProduct" -> FoldLeft(Cross, TableRows(Head(ref.list), scopes), Tail(ref.list))
         [] ref.type = "Name" /\ ref.name \in DOMAIN tables ->
              [r \in DOMAIN stored |-> Evaluated([c \in DOMAIN stored[r] |-> [NullRow(ref)[c] EXCEPT !.value = stored[r][c]]])]
         [] OTHER -> [r \in DOMAIN selected |-> Retable(selected[r], ref)]

\* The rows of a SELECT; those of one with an ORDER BY come in an order it allows.
SelectRows(select, scopes) ==
    LET from == IF select.from = <<>> THEN <<<<>>>> ELSE Evaluated(TableRows(select.from[1], scopes))
        rows == SelectSeq(from, LAMBDA r : \A i \in DOMAIN select.where : ValueOf(select.where[i], Append(scopes, r), <<>>) = 1)
        grouped == \/ select.group_by # <<>>
                   \/ \E i \in DOMAIN select.list : HasAggregate(select.list[i][1])
                   \/ \E i \in DOMAIN select.having : HasAggregate(select.having[i])
        key(r) == [g \in DOMAIN select.group_by |-> ValueOf(select.group_by[g], Append(scopes, r), <<>>)]
        keys == SetToSeq({key(r) : r \in ToSet(rows)} \union (IF select.group_by = <<>> THEN {<<>>} ELSE {}))
        groups == IF ~grouped THEN [r \in DOMAIN rows |-> <<rows[r]>>]
                  ELSE [k \in DOMAIN keys |-> SelectSeq(rows, LAMBDA r : key(r) = keys[k])]
        scope(g) == Append(scopes, IF g = <<>> THEN <<>> ELSE g[1])
        kept == SelectSeq(groups, LAMBDA g : \A i \in DOMAIN select.having : ValueOf(select.having[i], scope(g), g) = 1)
        cell(g, e, alias) ==
            [table |-> IF e[1] = "ref" THEN e[2][1] ELSE "",
             column |-> IF alias # "" THEN alias ELSE IF e[1] = "ref" THEN e[2][2] ELSE "(generated)",
             value |-> ValueOf(e, scope(g), g)]
        columns(g, i) == IF select.list[i][1][1] # "star" THEN <<cell(g, select.list[i][1], select.list[i][2])>>
                         ELSE SelectSeq(g[1], LAMBDA c : select.list[i][1][2] \in {"", c.table})
        before(g, h) == \E k \in DOMAIN select.order :
            LET v == ValueOf(select.order[k][1], scope(g), g)
                w == ValueOf(select.order[k][1], scope(h), h)
            IN /\ \A j \in 1..(k - 1) : ValueOf(select.order[j][1], scope(g), g) = ValueOf(select.order[j][1], scope(h), h)
               /\ IF Null \in {v, w} THEN v = Null /\ w # Null
                  ELSE IF select.order[k][2] = "Ascending" THEN v < w ELSE v > w
        order == SortSeq([k \in DOMAIN kept |-> k], LAMBDA i, j : before(kept[i], kept[j]) \/ (~before(kept[j], kept[i]) /\ i < j))
        count == IF select.limit = <<>> THEN Len(kept) ELSE Min({select.limit[1], Len(kept)})
    IN [n \in 1..count |-> FlattenSeq([i \in DOMAIN select.list |-> columns(kept[order[n]], i)])]

\* The values of a SELECT, row by row.
Meaning(select) ==
    LET rows == SelectRows(select, <<>>)
    IN [r \in DOMAIN rows |-> [c \in DOMAIN rows[r] |-> rows[r][c].value]]

-----------------------------------------------------------------------------

CONSTANTS Subjects, Databases, Queries,
          MaxRows, MaxCells, MaxPredicates, MaxVertices, MaxEdges

VARIABLES
  subject,
  query, use_mvcc,                  \* a SELECT and whether it validates rows
  done,                             \* the query is planned, the expression evaluated, the selectivity estimated
  chunk_rows, evaluated, garbage,   \* a chunk, an expression on it and what lies past its NULL flags
  stored, predicates, join,         \* a column, the filters on it and its join with another, if any
  edges                             \* the edges of a join graph

sqlVars == <<tables, query, use_mvcc>>
evaluatorVars == <<chunk_rows, evaluated, garbage>>
statisticsVars == <<stored, predicates, join>>
vars == <<subject, done, sqlVars, evaluatorVars, statisticsVars, edges, cacheVars>>

Chunk == INSTANCE ExpressionEvaluator WITH rows <- chunk_rows, expression <- evaluated

-----------------------------------------------------------------------------
(* The constants.                                                           *)

TheLowest == -4
LowestOfSet(S) == TRUE
SelectivityThreshold == <<1, 2>>
JitHashOf(v) == v % 2

-----------------------------------------------------------------------------
(* Queries on the tables t(a, b) and u(a, c) and the view vw(x, y).         *)

SelectOf(list, from, where) ==
  [list |-> list, from |-> <<from>>, where |-> where, group_by |-> <<>>, having |-> <<>>, order |-> <<>>, limit |-> <<>>]
RefTo(table, column) == <<"ref", <<table, column>>, <<>> >>
IntV(v) == value_("Int", v)
Named_(table) == [type |-> "Name", name |-> table, alias |-> "", columns |-> <<>>]
NamedAs(table, alias) == [Named_(table) EXCEPT !.alias = alias]
SelectAs(select, alias) == [type |-> "Select", select |-> select, alias |-> alias, columns |-> <<>>]
JoinOn(mode, left, right, condition) ==
  [type |-> "Join", mode |-> mode, left |-> left, right |-> right, condition |-> condition]
CrossOf(list) == [type |-> "CrossProduct", list |-> list]
Holds(condition, x, y) == predicate_(condition, <<x, y>>)
Unaliased(e) == <<e, "">>
Star == Unaliased(<<"star", "", <<>> >>)
NotOf(e) == <<"not", "", <<e>> >>
Exists(select) == <<"exists", select, <<>> >>
InSelect(e, select) == <<"in_select", select, <<e>> >>
InList(e, list) == <<"in", "", <<e>> \o list>>
Subselect(select) == <<"subselect", select, <<>> >>
Agg(function, args) == <<"aggregate", function, args>>
Sum2(x, y) == <<"arithmetic", "Addition", <<x, y>> >>

t == Named_("t")
u == Named_("u")
ta == RefTo("t", "a")
tb == RefTo("t", "b")
ua == RefTo("u", "a")
uc == RefTo("u", "c")
va == RefTo("v", "a")
vc == RefTo("v", "c")
sa == RefTo("s", "a")
sb == RefTo("s", "b")
ta_is_1 == Holds("Equals", ta, IntV(1))
tb_is_ua == Holds("Equals", tb, ua)
tb_above_0 == Holds("GreaterThan", tb, IntV(0))

Correlated == SelectOf(<<Unaliased(ua)>>, u, <<Holds("Equals", ua, tb)>>)
CorrelatedStar == SelectOf(<<Star>>, u, <<Holds("Equals", ua, tb)>>)    \* what the ExistsReformulationRule knows
Uncorrelated == SelectOf(<<Unaliased(ua)>>, u, <<>>)
CorrelatedMax == SelectOf(<<Unaliased(Agg("Max", <<uc>>))>>, u, <<Holds("Equals", ua, tb)>>)

\* One table: every kind of predicate, with a subselect or without.
OnOneTable ==
  {SelectOf(list, t, where) :
     list \in {<<Star>>, <<Unaliased(ta)>>, <<Unaliased(Sum2(ta, tb)), Unaliased(ta)>>},
     where \in {<<>>, <<ta_is_1>>, <<tb_above_0>>, <<or_(ta_is_1, Holds("Equals", tb, IntV(0)))>>,
                <<and_(ta_is_1, Holds("LessThan", tb, IntV(2)))>>, <<predicate_("IsNull", <<tb>>)>>,
                <<Holds("Equals", Sum2(ta, tb), IntV(1))>>, <<Exists(Correlated)>>,
                <<Exists(CorrelatedStar)>>, <<NotOf(Exists(CorrelatedStar))>>,
                <<InSelect(ta, Uncorrelated)>>, <<InList(ta, <<IntV(0), IntV(2)>>)>>,
                <<Holds("Equals", ta, Subselect(CorrelatedMax))>>,
                <<predicate_("Between", <<ta, IntV(0), IntV(1)>>)>>}}

\* Two tables, joined in every way.
JoinsOfTwo ==
  {JoinOn(mode, t, u, on) : mode \in {"Inner", "Left"}, on \in {tb_is_ua, Holds("LessThan", ta, uc)}}
  \union {JoinOn("Inner", t, u, and_(tb_is_ua, Holds("LessThan", ta, uc))), CrossOf(<<t, u>>)}
OnTwoTables ==
  {SelectOf(list, from, where) :
     list \in {<<Star>>, <<Unaliased(ta)>>, <<Unaliased(uc)>>},
     from \in JoinsOfTwo,
     where \in {<<>>, <<ta_is_1>>, <<Holds("Equals", uc, IntV(1))>>, <<Holds("Equals", ta, uc)>>,
                <<and_(Holds("Equals", ta, uc), tb_above_0)>>,
                <<or_(Holds("Equals", uc, IntV(1)), Holds("Equals", tb, IntV(0)))>>}}
  \union {SelectOf(<<Star>>, JoinOn("Natural", t, u, <<>>), <<ta_is_1>>)}
  \union {SelectOf(list, JoinOn(mode, t, u, tb_is_ua), where) :
            list \in {<<Star>>, <<Unaliased(tb), Unaliased(uc)>>},
            mode \in {"Right", "Outer"},
            where \in {<<>>, <<ta_is_1>>, <<Holds("LessThanEquals", ta, uc)>>}}

\* GROUP BY, HAVING, ORDER BY and LIMIT.
Grouped ==
  {[SelectOf(<<Unaliased(ta), Unaliased(Agg(function, <<tb>>))>>, t, where) EXCEPT !.group_by = <<ta>>, !.having = having] :
     function \in {"Sum", "Count", "Max"}, where \in {<<>>, <<tb_above_0>>},
     having \in {<<>>, <<Holds("Equals", Agg("Count", <<>>), IntV(1))>>}}
Ordered ==
  {[SelectOf(<<Unaliased(ta), Unaliased(tb)>>, t, where)
      EXCEPT !.order = <<<<tb, "Descending">>, <<ta, "Ascending">> >>, !.limit = limit] :
     where \in {<<>>, <<tb_above_0>>}, limit \in {<<>>, <<2>>}}

\* Join graphs of three tables, one of them with a vertex apart.
OnThreeTables ==
  {SelectOf(list, CrossOf(<<t, u, NamedAs("u", "v")>>), <<where>>) :
     list \in {<<Star>>, <<Unaliased(ta), Unaliased(vc)>>},
     where \in {and_(tb_is_ua, Holds("Equals", ua, va)), and_(tb_is_ua, Holds("Equals", uc, vc)),
                and_(and_(tb_is_ua, Holds("LessThan", ua, va)), ta_is_1),
                and_(and_(tb_is_ua, Holds("Equals", tb, va)), Holds("NotEquals", uc, vc)),
                Holds("Equals", ta, va)}}

\* SELECTs in FROM and a view.
InnerSelects ==
  {SelectOf(<<Unaliased(ta), Unaliased(tb)>>, t, <<Holds("GreaterThan", ta, IntV(0))>>),
   [SelectOf(<<Unaliased(ta), <<Agg("Max", <<tb>>), "b">> >>, t, <<>>) EXCEPT !.group_by = <<ta>>]}
ViewQuery == SelectOf(<<<<ta, "x">>, <<tb, "y">> >>, t, <<Holds("LessThan", ta, IntV(2))>>)
TheViewQueries == [vw |-> ViewQuery]
OnSelects ==
  {SelectOf(list, SelectAs(from, "s"), where) :
     from \in InnerSelects, list \in {<<Star>>, <<Unaliased(sb), Unaliased(sa)>>},
     where \in {<<>>, <<Holds("Equals", sa, IntV(1))>>, <<Holds("LessThan", sb, IntV(2))>>}}
  \union {SelectOf(<<Star>>, CrossOf(<<SelectAs(from, "s"), u>>), where) :
            from \in InnerSelects,
            where \in {<<Holds("Equals", sb, ua)>>, <<and_(Holds("Equals", sb, ua), Holds("Equals", sa, IntV(1)))>>}}
  \union {SelectOf(list, Named_("vw"), where) :
            list \in {<<Star>>, <<Unaliased(RefTo("vw", "y")), Unaliased(RefTo("vw", "x"))>>},
            where \in {<<>>, <<Holds("Equals", RefTo("vw", "x"), IntV(1))>>}}

\* Expressions in the list, and negations.
SearchedCase == <<"case", [operand |-> <<>>, otherwise |-> <<IntV(7)>>, clauses |-> <<<<ta_is_1, tb>> >>], <<>> >>
SimpleCase ==
  <<"case", [operand |-> <<ta>>, otherwise |-> <<>>, clauses |-> <<<<IntV(0), tb>>, <<IntV(1), IntV(5)>> >>], <<>> >>
OfExpressions ==
  {SelectOf(<<Unaliased(e)>>, t, where) :
     e \in {SearchedCase, SimpleCase, Holds("LessThan", ta, tb), Exists(Correlated), Subselect(CorrelatedMax),
            InSelect(tb, Uncorrelated), <<"minus", "", <<tb>> >>},
     where \in {<<>>, <<ta_is_1>>}}
  \union {SelectOf(<<Unaliased(ta)>>, t, <<NotOf(e)>>) :
            e \in {Holds("LessThan", ta, tb), InSelect(tb, Uncorrelated), InList(tb, <<IntV(0), IntV(1)>>)}}
  \union {SelectOf(<<Unaliased(ta)>>, t, <<and_(Exists(CorrelatedStar), e)>>) :
            e \in {Holds("LessThan", ta, IntV(1)), Holds("LessThan", tb, IntV(1)), InList(tb, <<IntV(0), IntV(1)>>)}}

AllQueries == OnOneTable \union OnTwoTables \union Grouped \union Ordered \union OnThreeTables \union OnSelects \union OfExpressions

-----------------------------------------------------------------------------
(* Databases: t in two chunks, with a NULL, and u in one.  TheDatabases'    *)
(* chunks have statistics in one of them only; one chunk of t is indexed.   *)

IntColumn(name, nullable) == [name |-> name, type |-> "Int", nullable |-> nullable]
ColumnCells(table_rows, c) == [r \in DOMAIN table_rows |-> table_rows[r][c]]
ChunkStatistics(rows_, width) == [c \in 1..width |-> CHOOSE filter \in Stat!build_statistics(ColumnCells(rows_, c)) : TRUE]
TableOf(columns, chunks, indexes) ==
  [columns |-> columns, chunks |-> chunks, indexes |-> indexes,
   statistics |-> [k \in DOMAIN chunks |-> ChunkStatistics(chunks[k], Len(columns))],
   table_statistics |-> Stat!generate_table_statistics([c \in DOMAIN columns |-> ColumnCells(FlattenSeq(chunks), c)])]
WithoutChunkStatistics(table) == [table EXCEPT !.statistics = [k \in DOMAIN table.chunks |-> <<>>]]

tColumns == <<IntColumn("a", FALSE), IntColumn("b", TRUE)>>
uColumns == <<IntColumn("a", FALSE), IntColumn("c", FALSE)>>
IndexOnA(chunks) == {[type |-> "GroupKey", columns |-> <<1>>, chunks |-> chunks]}

WithStatistics ==
  [t |-> TableOf(tColumns, <<<<<<0, 0>>, <<1, Null>> >>, <<<<1, 2>> >> >>, IndexOnA({1})),
   u |-> TableOf(uColumns, <<<<<<0, 1>>, <<2, 1>>, <<2, 0>> >> >>, {})]
WithoutStatistics ==
  [t |-> WithoutChunkStatistics(TableOf(tColumns, <<<<<<2, 2>>, <<1, 0>> >>, <<<<1, 2>>, <<0, Null>> >> >>, {})),
   u |-> TableOf(uColumns, <<<<<<1, 1>> >> >>, {})]
TheDatabases == {WithStatistics, WithoutStatistics}

\* Both chunks of t are indexed, and a predicate on b prunes the first.
PrunedAndIndexed ==
  {[t |-> TableOf(tColumns, <<<<<<1, 0>> >>, <<<<1, 2>>, <<0, 2>> >> >>, IndexOnA({1, 2})),
    u |-> TableOf(uColumns, <<<<<<1, 1>> >> >>, {})]}
OnIndexedColumn == {SelectOf(<<Star>>, t, <<and_(ta_is_1, tb_above_0)>>)}

-----------------------------------------------------------------------------
(* SQLPipelineStatement: the statement is translated, then optimized.       *)

\* Chunk pruning throws for IS NULL on a chunk with statistics (CastThrows).
IsNullQueries == {q \in OnOneTable : q.where = <<predicate_("IsNull", <<tb>>)>>}

InitSql ==
  /\ tables \in Databases
  /\ query \in Queries \ (IF tables = WithStatistics THEN IsNullQueries ELSE {})
  /\ use_mvcc \in BOOLEAN

TheView ==
  LET created == _translate_create(NewState(<<>>, use_mvcc), [view |-> "vw", columns |-> <<>>, select |-> ViewQuery])
  IN  created.state.lqp.nodes[created.value].arg.view

\* The query's translation, and the one sequence of states of the optimizer on the plan.
Translated(view) == _translate_statement(NewState("vw" :> view, use_mvcc), [type |-> "Select", body |-> query])
Optimizing ==
  {optimize(DefaultBatches, Evaluated(StartOptimizing(r.state.lqp, r.value))) : r \in {Translated(view) : view \in {TheView}}}

-----------------------------------------------------------------------------
(* Expressions on a chunk of four columns, a and c with NULLs.              *)

A == column_(1, "Int", TRUE)
B == column_(2, "Int", FALSE)
C == column_(3, "String", TRUE)
D == column_(4, "String", FALSE)
StrV(s) == value_("String", s)
IntAtoms == {A, B, IntV(0), IntV(2), null_}
StrAtoms == {C, D, StrV(<<20>>), null_}
Arithmetic(op, l, r) == <<"arithmetic", op, <<l, r>> >>
CaseOf(when, then, otherwise) == <<"case", "", <<when, then, otherwise>> >>
ListOf(list) == <<"list", "", list>>
FunctionOf(name, args) == <<"function", name, args>>

\* A subselect is its plan as a function of its parameters' values.
PlanOf(parameters, plan, nullable) ==
  <<"select", [parameters |-> parameters, pqp |-> plan, data_type |-> "Int", nullable |-> nullable], <<>> >>
Scalar == PlanOf(<<>>, [p \in {<<>>} |-> <<2>>], FALSE)
ScalarNull == PlanOf(<<>>, [p \in {<<>>} |-> <<Null>>], TRUE)
NextOfA == PlanOf(<<1>>, [p \in {<<Null>>, <<0>>, <<1>>} |-> IF p[1] = Null THEN <<Null>> ELSE <<p[1] + 1>>], TRUE)
RowsForB == PlanOf(<<2>>, [p \in {<<0>>, <<1>>} |-> IF p[1] = 0 THEN <<>> ELSE <<1, 2>>], FALSE)

OfIntegers ==
  {Arithmetic(op, l, r) : op \in {"Addition", "Division", "Modulo"}, l \in IntAtoms \union {Scalar, NextOfA}, r \in IntAtoms}
  \union {predicate_(c, <<l, r>>) : c \in {"Equals", "LessThan", "GreaterThanEquals"}, l \in IntAtoms \union {ScalarNull}, r \in IntAtoms}
  \union {predicate_(c, <<l>>) : c \in {"IsNull", "IsNotNull"}, l \in IntAtoms \union {NextOfA}}
  \union {predicate_("Between", <<x, l, h>>) : x \in IntAtoms, l \in {A, IntV(0)}, h \in {B, null_}}
  \union {predicate_("In", <<x, ListOf(list)>>) : x \in IntAtoms,
             list \in {<<>>, <<IntV(0)>>, <<IntV(1), null_>>, <<B, A>>, <<StrV(<<20>>), IntV(1)>>}}
  \union {predicate_("In", <<x, RowsForB>>) : x \in IntAtoms}
  \union {<<"exists", "", <<x>> >> : x \in {NextOfA, RowsForB}}
OfStrings ==
  {predicate_(c, <<l, r>>) : c \in {"Equals", "LessThan", "Like", "NotLike"}, l \in StrAtoms, r \in StrAtoms}
  \union {FunctionOf("Substring", <<s, from, n>>) : s \in {C, D, StrV(<<20, 21, 22>>)}, from \in {A, B, IntV(-1), IntV(-4)}, n \in {IntV(2), A}}
  \union {FunctionOf("Concatenate", <<l, r>>) : l \in StrAtoms, r \in StrAtoms}
  \union {<<"cast", "String", <<x>> >> : x \in IntAtoms}
  \union {<<"cast", "Int", <<x>> >> : x \in {C, StrV(<<10, 1, 2>>)}}
Nested ==
  {<<"logical", op, <<l, r>> >> : op \in {"And", "Or"}, l \in {A, null_, IntV(1), predicate_("Equals", <<A, null_>>)},
                                  r \in {A, B, IntV(0), null_}}
  \union {CaseOf(w, x, y) : w \in {A, B, null_, predicate_("Equals", <<B, IntV(0)>>)}, x \in IntAtoms, y \in IntAtoms}
  \union {Arithmetic("Addition", l, r) : l \in {A, B, null_}, r \in {Arithmetic("Division", A, B), CaseOf(B, A, IntV(1))}}
  \union {<<"minus", "", <<x>> >> : x \in {A, B, Arithmetic("Addition", A, null_)}}
Evaluable ==
  {e \in OfIntegers \union OfStrings \union Nested : data_type(e) \notin {"Fail", "Null"} /\ Chunk!Supported(e, data_type(e))}

ChunkRows == {<<Null, 0, Null, <<20>> >>, <<0, 1, <<20>>, <<20, 21>> >>, <<1, 0, <<20>>, <<20>> >>,
              <<1, 1, <<3>>, <<20>> >>, <<Null, 1, <<10, 3>>, <<20, 21>> >>}

AppendRow ==
  /\ Len(chunk_rows) < MaxRows
  /\ \E r \in ChunkRows : chunk_rows' = Append(chunk_rows, r)
  /\ UNCHANGED <<evaluated, garbage>>

-----------------------------------------------------------------------------
(* Statistics: predicates and joins applied to a column and to the          *)
(* statistics of its table alike.                                           *)

ColumnValues == 0..2
PartnerColumns == {<<0, 1>>, <<2, 2, Null>>, <<Null>>}
JoinModes == {"Inner", "Left", "Right", "Outer"}
Matches(condition, x, y) ==
  /\ x # Null /\ y # Null
  /\ CASE condition = "Equals" -> x = y
       [] condition = "NotEquals" -> x # y
       [] condition = "LessThan" -> x < y
       [] condition = "LessThanEquals" -> x <= y
       [] condition = "GreaterThan" -> x > y
       [] condition = "GreaterThanEquals" -> x >= y

InitStatistics == stored = <<>> /\ predicates = <<>> /\ join = <<>>

AppendCell ==
  /\ predicates = <<>> /\ join = <<>> /\ Len(stored) < MaxCells
  /\ \E v \in ColumnValues \union {Null} : stored' = Append(stored, v)
  /\ UNCHANGED <<predicates, join>>

FilterColumn ==
  /\ stored # <<>> /\ join = <<>> /\ Len(predicates) < MaxPredicates
  /\ \E condition \in Comparisons, value \in ColumnValues :
       predicates' = Append(predicates, [condition |-> condition, value |-> value])
  /\ UNCHANGED <<stored, join>>

JoinColumn ==
  /\ stored # <<>> /\ join = <<>> /\ Len(predicates) < MaxPredicates
  /\ \E condition \in Comparisons, mode \in JoinModes, other \in PartnerColumns :
       join' = [condition |-> condition, mode |-> mode, other |-> other]
  /\ UNCHANGED <<stored, predicates>>

\* The statistics of the stored column after the predicates, and its cells.
FilteredEstimate ==
  FoldLeft(LAMBDA table, p : Stat!estimate_predicate(table, 1, p.condition, [value |-> p.value]),
           Stat!generate_table_statistics(<<stored>>), predicates)
FilteredCells == FoldLeft(LAMBDA cells, p : SelectSeq(cells, LAMBDA v : Matches(p.condition, v, p.value)), stored, predicates)

JoinedEstimate ==
  Stat!estimate_predicated_join(FilteredEstimate, Stat!generate_table_statistics(<<join.other>>), join.mode, 1, 1, join.condition)

\* The rows of the join; a row without a match, where the mode keeps it, has NULL on the other side.
JoinedCells(cells, other) ==
  LET matched == {<<i, j>> \in (DOMAIN cells) \X (DOMAIN other) : Matches(join.condition, cells[i], other[j])}
      left == {<<cells[i], Null>> : i \in DOMAIN cells \ {p[1] : p \in matched}}
      right == {<<Null, other[j]>> : j \in DOMAIN other \ {p[2] : p \in matched}}
  IN  {<<cells[p[1]], other[p[2]]>> : p \in matched}
      \union (IF join.mode \in {"Left", "Outer"} THEN left ELSE {})
      \union (IF join.mode \in {"Right", "Outer"} THEN right ELSE {})

-----------------------------------------------------------------------------
(* Join graphs: edges are added in ascending order.                         *)

AddEdge ==
  /\ Len(edges) < MaxEdges
  /\ \E v, w \in 0..(MaxVertices - 1) :
       /\ v < w
       /\ \A k \in DOMAIN edges : edges[k][1] < v \/ (edges[k][1] = v /\ edges[k][2] < w)
       /\ edges' = Append(edges, <<v, w>>)

-----------------------------------------------------------------------------
Init ==
  /\ subject \in Subjects
  /\ done = FALSE
  /\ IF subject = "sql" THEN InitSql ELSE tables = <<>> /\ query = <<>> /\ use_mvcc = FALSE
  /\ chunk_rows = <<>>
  /\ IF subject = "expression" THEN evaluated \in Evaluable /\ garbage \in BOOLEAN ELSE evaluated = <<>> /\ garbage = FALSE
  /\ InitStatistics
  /\ edges = <<>>
  /\ InitCache
  /\ subject # "cache" => strategy = "LRU" /\ _capacity = 1

\* LRU-K takes the most accesses to tell two full histories apart.
InCacheBound == strategy # "LRUK" => _access_counter < MaxAccesses - 2

Finish(what) ==
  /\ subject = what /\ ~done /\ done' = TRUE
  /\ UNCHANGED <<subject, sqlVars, evaluatorVars, statisticsVars, edges, cacheVars>>

PlanQuery == Finish("sql")
EvaluateExpression == Finish("expression")
GrowChunk ==
  /\ subject = "expression" /\ ~done /\ AppendRow
  /\ UNCHANGED <<subject, done, sqlVars, statisticsVars, edges, cacheVars>>
EstimateStatistics == Finish("statistics")
GrowColumn ==
  /\ subject = "statistics" /\ ~done /\ (AppendCell \/ FilterColumn \/ JoinColumn)
  /\ UNCHANGED <<subject, done, sqlVars, evaluatorVars, edges, cacheVars>>
OrderJoins ==
  /\ subject = "join_graph" /\ AddEdge
  /\ UNCHANGED <<subject, done, sqlVars, evaluatorVars, statisticsVars, cacheVars>>
UseCache ==
  /\ subject = "cache" /\ InCacheBound /\ NextCache
  /\ UNCHANGED <<subject, done, sqlVars, evaluatorVars, statisticsVars, edges>>

Next == PlanQuery \/ EvaluateExpression \/ GrowChunk \/ GrowColumn \/ EstimateStatistics \/ OrderJoins \/ UseCache

Spec == Init /\ [][Next]_vars

-----------------------------------------------------------------------------
(* Properties                                                               *)

\* Every node is an output of its inputs as often as it holds them, and of no other node, whatever
\* the rules cut off, insert and move (AbstractLQPNode's weak pointers to the outputs): a plan that
\* is walked upwards is the one that is walked downwards.
OutputsMatchInputs(lqp) ==
  \A n \in DOMAIN lqp.nodes, m \in DOMAIN lqp.nodes :
    Cardinality({k \in DOMAIN lqp.nodes[n].outputs : lqp.nodes[n].outputs[k] = m})
      = Cardinality({side \in {Left, Right} : lqp.nodes[m].inputs[side] = n})

ResultOf(pqp) == LET result == Execute(pqp, <<>>) IN [r \in DOMAIN result |-> result[r].cells]
SameRows(x, y) ==
  IF query.order # <<>> THEN x = y
  ELSE Len(x) = Len(y) /\ \A r \in ToSet(x) : Cardinality({i \in DOMAIN x : x[i] = r}) = Cardinality({i \in DOMAIN y : y[i] = r})
Answers(pqp, expected) == Executable(pqp) /\ SameRows(ResultOf(pqp), expected)

\* Between any two rules of the optimizer the plan answers the query: the operators the LQPTranslator
\* makes of it return the rows the SELECT means, in its order when it has one, and nothing has thrown.
PlanAnswersQuery(lqp, node, expected) ==
  ~lqp.thrown /\ \A pqp \in {translate_node(lqp, node)} : Answers(pqp, expected)

JitSupported(lqp) ==
  /\ \A n \in DOMAIN lqp.nodes : TypeOf(lqp, n) = "Join" => lqp.nodes[n].arg \notin {"Left", "Right", "Outer"}
  /\ \A i \in DOMAIN query.list : query.list[i][1][1] # "predicate"

\* The same of the JitAwareLQPTranslator's operators, where the plan has no outer join, whose NULLs
\* the JIT chain loses, and the query lists no comparison, whose result it gives another type.
JitAnswersQuery(lqp, node, expected) ==
  JitSupported(lqp) => \A pqp \in {jit_translate_node(lqp, node)} : Answers(pqp, expected)

\* The iterative batch ends because its rules have nothing left to change, not because it has used
\* up its iterations: the rules do not undo each other's work.
RulesReachFixpoint(states) == \A i \in DOMAIN states : states[i].iteration < max_num_iterations - 1

\* The operators below one, itself included.
RECURSIVE OperatorsOf(_)
OperatorsOf(pqp) == <<pqp>> \o FlattenSeq([i \in DOMAIN pqp.inputs |-> OperatorsOf(pqp.inputs[i])])

\* An IndexScan takes, of the chunks GetTable gives both scans, those with an index on its column.
ScansIndexedChunks(pqp) ==
  \A operators \in {OperatorsOf(pqp)} : \A i \in DOMAIN operators :
    operators[i].operator = "IndexScan" =>
      LET scan == operators[i]
          get_table == scan.inputs[1].arg
          chunks == KeptChunks(get_table)
      IN  scan.arg.included = {c \in DOMAIN chunks : Indexed(tables[get_table.table_name], chunks[c], scan.arg.column)}

\* "All chunks that have an index on column_ids are handled by an IndexScan.  All other chunks are
\* handled by TableScan(s)" (lqp_translator.cpp:219).
IndexedChunksByIndexScan ==
  [][PlanQuery => \A states \in Optimizing : \A state \in ToSet(states) :
       ~state.lqp.thrown => ScansIndexedChunks(translate_node(state.lqp, left_input(state.lqp, state.root)))]_vars

-----------------------------------------------------------------------------
\* What the evaluation leaves undefined: a series with a single NULL flag, whose view reads past it.
ResultShape(e) == IF data_type(e) = "Null" THEN Chunk!make_null("Null") ELSE Chunk!evaluate_expression_to_result(e, data_type(e))
Misshapen ==
  \E e \in ToSet(visit_expression(evaluated)) :
    /\ e[1] \notin {"list", "select"} /\ data_type(e) # "Fail"
    /\ LET result == ResultShape(e) IN result.nulls = <<FALSE>> /\ Len(result.values) > 1

\* An expression evaluated for a whole chunk at once, values and NULL flags apart, is for every row
\* what SQL says it is for that row alone: three-valued logic, division by zero, NULL literals and
\* series of different lengths included.
EvaluatesRowByRow ==
  Misshapen \/ Chunk!evaluate_expression_to_segment(evaluated) = [i \in DOMAIN chunk_rows |-> Chunk!SqlValue(evaluated, chunk_rows[i])]

\* An expression that says it is not nullable is NULL for no row: Projection makes a segment
\* without NULL flags for it.
NotNullableIsNeverNull ==
  ~is_nullable(evaluated) =>
    Misshapen \/ \A i \in DOMAIN chunk_rows : Chunk!evaluate_expression_to_segment(evaluated)[i] # Null

-----------------------------------------------------------------------------
Spans(column, v) == v = Null \/ (column.min <= v /\ v <= column.max)

\* After any predicates and a join of any mode every value that is left lies between the min and
\* the max the estimate gives its column: no later estimate takes a predicate that rows satisfy for
\* one outside the column's range.
EstimatedRangeHolds ==
  IF join = <<>> THEN \A column \in {FilteredEstimate.columns[1]} : \A v \in ToSet(FilteredCells) : Spans(column, v)
  ELSE \A columns \in {JoinedEstimate.columns} : \A r \in JoinedCells(FilteredCells, join.other) :
         Spans(columns[1], r[1]) /\ Spans(columns[2], r[2])

Uniform(column) ==
  LET values == ToSet(column) \ {Null}
      count(v) == Cardinality({i \in DOMAIN column : column[i] = v})
  IN  values # {} /\ values = Min(values)..Max(values) /\ \A v, w \in values : count(v) = count(w)

\* A column that holds each integer of its range equally often meets the estimate's assumption of a
\* uniform distribution: the number of rows a predicate leaves is estimated exactly.
UniformIsExact ==
  (join = <<>> /\ Uniform(stored) /\ Len(predicates) <= 1) => FilteredEstimate.row_count = Stat!Whole(Len(FilteredCells))

\* A chunk is pruned only when no row of it satisfies the predicate, whatever ranges the filter was
\* given when several gaps between its values are equally wide.
PrunesNoMatch ==
  predicates = <<>> /\ join = <<>> =>
    \A filters \in Stat!build_statistics(stored), condition \in Comparisons, value \in (ColumnValues \union {-1, 3}) :
      \/ Stat!can_prune(filters, condition, value)
      \/ ToSet(stored) \ {Null} # {}
           /\ Stat!MinMaxFilterCanPrune(Min(ToSet(stored) \ {Null}), Max(ToSet(stored) \ {Null}), condition, value)
      => \A v \in ToSet(stored) : ~Matches(condition, v, value)

-----------------------------------------------------------------------------
\* EnumerateCcp gives every pair of connected subgraphs that an edge connects once, not also the
\* other way round, and each half of more than one vertex after the pair it is put together from:
\* DpCcp finds the plans of both halves when it joins them.
CcpIsComplete ==
  subject = "join_graph" =>
    \A pairs \in {CsgCmpPairs(MaxVertices, edges)} :
      /\ \A i, j \in DOMAIN pairs : i # j => {pairs[i][1], pairs[i][2]} # {pairs[j][1], pairs[j][2]}
      /\ {{pairs[i][1], pairs[i][2]} : i \in DOMAIN pairs} = {{c[1], c[2]} : c \in Ccps(MaxVertices, edges)}
      /\ \A i \in DOMAIN pairs, half \in 1..2 :
           Cardinality(pairs[i][half]) > 1 => \E j \in 1..(i - 1) : pairs[j][1] \union pairs[j][2] = pairs[i][half]

-----------------------------------------------------------------------------
\* Before, between and after the rules of the optimizer, both translators make operators of the plan
\* that return the rows the SELECT means (sql_translator.cpp, optimizer.cpp, lqp_translator.cpp,
\* jit_aware_lqp_translator.cpp).
PlansAnswerQuery ==
  [][PlanQuery =>
       \A states \in Optimizing : \A expected \in {Meaning(query)} :
         \A lqp \in {states[i].lqp : i \in DOMAIN states} :
           \A node \in {left_input(lqp, states[1].root)} :
             PlanAnswersQuery(lqp, node, expected) /\ JitAnswersQuery(lqp, node, expected)]_vars

\* The rules leave a plan whose nodes know each other, and come to an end (abstract_lqp_node.cpp).
RulesKeepPlans ==
  [][PlanQuery => \A states \in Optimizing :
       RulesReachFixpoint(states) /\ \A i \in DOMAIN states : OutputsMatchInputs(states[i].lqp)]_vars

\* ExpressionEvaluator computes SQL's value for every row, and NULL only where it says it may.
ExpressionsFollowSQL == [][EvaluateExpression => EvaluatesRowByRow /\ NotNullableIsNeverNull]_vars

\* The statistics never exclude what is there: not by an estimated range (column_statistics.cpp), not
\* by a pruned chunk (range_filter.hpp); and they are exact where their assumption holds.
EstimatesHold ==
  [][EstimateStatistics => PrunesNoMatch /\ (stored # <<>> => EstimatedRangeHolds /\ UniformIsExact)]_vars

\* All five caches (lru_cache.hpp, lru_k_cache.hpp, gds_cache.hpp, gdfs_cache.hpp, random_cache.hpp)
\* implement the abstract one, keep their structures in step, and evict what their strategy says.
CachesAreCaches ==
  [](MapMatchesItems /\ InflationIsLowest /\ ServesLatest) /\ ImplementsCache /\ EvictsOldest

=============================================================================
