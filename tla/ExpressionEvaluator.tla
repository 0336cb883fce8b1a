------------------------- MODULE ExpressionEvaluator -------------------------
(***************************************************************************)
(* ExpressionEvaluator (src/lib/expression/evaluation/): how an expression *)
(* is evaluated for all rows of a chunk at once.  A result holds values    *)
(* and NULL flags separately; one value stands for all rows (a literal),   *)
(* no flag for "never NULL", and one flag for all rows.                    *)
(*                                                                         *)
(* A column's reference is its index.  A string is a sequence of           *)
(* characters: the digits are 0..9, MinusSign is '-', other characters are *)
(* larger; LIKE's wildcards are those of LikeMatcher.  The payload of a    *)
(* subselect is the plan as a function from the values of its parameters,  *)
(* which are columns of the row, to the column of cells it returns.        *)
(*                                                                         *)
(* Of the numeric types only Int is evaluated here.                        *)
(***************************************************************************)
EXTENDS Expressions, LikeMatcher

VARIABLES
  rows,         \* the chunk: a sequence of rows, a row a sequence of cells
  expression,   \* the expression under evaluation
  garbage       \* what a read past the end of the NULL flags returns

MinusSign == 10
DefaultOf(type) == IF type = "String" THEN <<>> ELSE 0
TruthValue(b) == IF b THEN 1 ELSE 0

Result(type, values, nulls) == [type |-> type, values |-> values, nulls |-> nulls]
make_null(type) == Result(type, <<DefaultOf(type)>>, <<TRUE>>)

size(result) == Len(result.values)
is_literal(result) == size(result) = 1
result_value(result, i) == result.values[IF i <= size(result) THEN i ELSE size(result)]
result_is_null(result, i) ==
    result.nulls # <<>> /\ result.nulls[IF i <= Len(result.nulls) THEN i ELSE Len(result.nulls)]

(* ExpressionResult::as_view and the three views.  The view of a series    *)
(* with NULL flags does not look at the number of flags.                   *)
as_view(result) ==
    IF is_literal(result)
    THEN Result(result.type, result.values, <<result.nulls # <<>> /\ result.nulls[1]>>)
    ELSE IF result.nulls = <<TRUE>> THEN make_null(result.type)
    ELSE IF result.nulls = <<>> THEN result
    ELSE Result(result.type, result.values,
                [i \in DOMAIN result.values |->
                    IF i \in DOMAIN result.nulls THEN result.nulls[i] ELSE garbage])

_result_size(sizes) == IF 0 \in sizes THEN 0 ELSE Max(sizes)

_evaluate_default_null_logic(left, right) ==
    IF Len(left) = Len(right) THEN [i \in DOMAIN left |-> left[i] \/ right[i]]
    ELSE IF Len(left) > Len(right)
         THEN IF right = <<TRUE>> THEN <<TRUE>> ELSE left
         ELSE IF left = <<TRUE>> THEN <<TRUE>> ELSE right

-----------------------------------------------------------------------------
(* expression_functors.hpp.  Comparisons and +, -, * leave NULL flags to   *)
(* their caller; an operand of type Null makes the value the default.      *)
StringLess(a, b) ==
    \E k \in 0..Min({Len(a), Len(b)}) :
        /\ SubSeq(a, 1, k) = SubSeq(b, 1, k)
        /\ \/ k = Len(a) /\ k < Len(b)
           \/ k < Len(a) /\ k < Len(b) /\ a[k + 1] < b[k + 1]

Less(type, a, b) == IF type = "String" THEN StringLess(a, b) ELSE a < b

ComparisonFunctor(condition, type, a, b) ==
    TruthValue(CASE condition = "Equals" -> a = b
                 [] condition = "NotEquals" -> a # b
                 [] condition = "LessThan" -> Less(type, a, b)
                 [] condition = "LessThanEquals" -> ~Less(type, b, a)
                 [] condition = "GreaterThan" -> Less(type, b, a)
                 [] condition = "GreaterThanEquals" -> ~Less(type, a, b))

ArithmeticFunctor(op, a, b) ==
    CASE op = "Addition" -> a + b [] op = "Subtraction" -> a - b [] op = "Multiplication" -> a * b

Sign(a) == IF a < 0 THEN -1 ELSE 1
Truncated(a, b) == Sign(a) * Sign(b) * ((Sign(a) * a) \div (Sign(b) * b))

(* The functors with a NULL logic of their own: <<value, null>>.           *)
TernaryOr(a, a_null, b, b_null) ==
    LET true == (~a_null /\ a # 0) \/ (~b_null /\ b # 0)
    IN <<TruthValue(true), (a_null \/ b_null) /\ ~true>>

\* Mutant: FALSE AND NULL is NULL.
AndOfNullIsNull(a, a_null, b, b_null) ==
    <<TruthValue(~a_null /\ a # 0 /\ ~b_null /\ b # 0), a_null \/ b_null>>

TernaryAnd(a, a_null, b, b_null) ==
    <<TruthValue(~a_null /\ a # 0 /\ ~b_null /\ b # 0),
      (a_null /\ b_null) \/ (a # 0 /\ b_null) \/ (b # 0 /\ a_null)>>

Modulo(a, a_null, b, b_null) ==
    IF a_null \/ b_null THEN <<0, TRUE>>
    ELSE IF b = 0 THEN <<0, TRUE>> ELSE <<a - b * Truncated(a, b), FALSE>>

Division(a, a_null, b, b_null) ==
    IF b = 0 THEN <<0, TRUE>> ELSE <<Truncated(a, b), a_null \/ b_null>>

-----------------------------------------------------------------------------
(* Two operands of which one may be a literal.                             *)
_evaluate_binary_with_default_null_logic(Functor(_, _, _), type, left, right) ==
    LET n == _result_size({size(left), size(right)})
        operand_type == IF left.type = "Null" THEN right.type ELSE left.type
    IN Result(type,
              [i \in 1..n |-> IF "Null" \in {left.type, right.type} THEN DefaultOf(type)
                              ELSE Functor(operand_type, result_value(left, i), result_value(right, i))],
              _evaluate_default_null_logic(left.nulls, right.nulls))

_evaluate_binary_with_functor_based_null_logic(Functor(_, _, _, _), type, left_result, right_result) ==
    LET left == as_view(left_result)
        right == as_view(right_result)
        n == _result_size({size(left), size(right)})
        pair(i) == Functor(result_value(left, i), result_is_null(left, i),
                           result_value(right, i), result_is_null(right, i))
    IN Result(type, [i \in 1..n |-> pair(i)[1]], [i \in 1..n |-> pair(i)[2]])

_evaluate_arithmetic_expression(op, type, left, right) ==
    LET Functor(t, a, b) == ArithmeticFunctor(op, a, b)
    IN CASE op = "Division" -> _evaluate_binary_with_functor_based_null_logic(Division, type, left, right)
         [] op = "Modulo" -> _evaluate_binary_with_functor_based_null_logic(Modulo, type, left, right)
         [] OTHER -> _evaluate_binary_with_default_null_logic(Functor, type, left, right)

_evaluate_binary_predicate_expression(condition, left, right) ==
    LET Functor(t, a, b) == ComparisonFunctor(condition, t, a, b)
    IN _evaluate_binary_with_default_null_logic(Functor, "Int", left, right)

_evaluate_logical_expression(op, left, right) ==
    IF op = "Or" THEN _evaluate_binary_with_functor_based_null_logic(TernaryOr, "Int", left, right)
    ELSE _evaluate_binary_with_functor_based_null_logic(TernaryAnd, "Int", left, right)

_evaluate_like_expression(condition, left, right) ==
    LET n == _result_size({size(left), size(right)})
        matches(i) == resolve(pattern_string_to_pattern_variant(result_value(right, i)),
                              condition = "NotLike", result_value(left, i))
    IN Result("Int", [i \in 1..n |-> TruthValue(matches(i))],
              _evaluate_default_null_logic(left.nulls, right.nulls))

_evaluate_is_null_expression(condition, operand) ==
    LET view == as_view(operand)
    IN Result("Int", [i \in 1..size(view) |->
                         TruthValue(result_is_null(view, i) = (condition = "IsNull"))], <<>>)

(* IN with a list of which all elements are values of the left type.       *)
InValues(left, elements) ==
    LET view == as_view(left)
        null(i) == result_is_null(view, i)
        found(i) == \E k \in DOMAIN elements : elements[k][2][2] = result_value(view, i)
        nullable == IF is_literal(view) THEN view.nulls[1] ELSE view.nulls # <<>>
    IN Result("Int", [i \in 1..size(view) |-> TruthValue(~null(i) /\ found(i))],
              IF nullable THEN [i \in 1..size(view) |-> null(i)] ELSE <<>>)

(* IN with a subselect; tables has one table, or one for each row.         *)
InTables(left, type, tables) ==
    LET view == as_view(left)
        n == _result_size({size(view), Len(tables)})
        list(i) == tables[IF Len(tables) = 1 THEN 1 ELSE i]
        raw(cell) == IF cell = Null THEN DefaultOf(type) ELSE cell
        found(i) == \E k \in DOMAIN list(i) : raw(list(i)[k]) = result_value(view, i)
        contains_null(i) == \E k \in DOMAIN list(i) : list(i)[k] = Null
    IN IF (view.type = "String") # (type = "String") THEN Result("Int", <<0>>, <<>>)
       ELSE Result("Int", [i \in 1..n |-> TruthValue(found(i))],
                   [i \in 1..n |-> (~found(i) /\ contains_null(i)) \/ result_is_null(view, i)])

_evaluate_case_expression(type, when, then, otherwise) ==
    LET n == _result_size({size(when), size(then), size(otherwise)})
        chosen(i) == IF result_value(when, i) # 0 /\ ~result_is_null(when, i) THEN then ELSE otherwise
    IN Result(type,
              [i \in 1..n |-> IF chosen(i).type = "Null" THEN DefaultOf(type) ELSE result_value(chosen(i), i)],
              [i \in 1..n |-> result_is_null(chosen(i), i)])

(* boost::lexical_cast between Int and String, and try_lexical_convert,    *)
(* which takes an optional sign and digits and nothing else.               *)
LexicalCast(number) ==
    LET digits[k \in 0..Sign(number) * number] ==
            IF k < 10 THEN <<k>> ELSE digits[k \div 10] \o <<k % 10>>
    IN IF number < 0 THEN <<MinusSign>> \o digits[-number] ELSE digits[number]

LexicalConvert(string) ==
    LET negative == string # <<>> /\ string[1] = MinusSign
        digits == IF negative THEN Tail(string) ELSE string
        AddDigit(total, digit) == 10 * total + digit
    IN IF digits = <<>> \/ ToSet(digits) \ (0..9) # {} THEN 0
       ELSE FoldLeft(AddDigit, 0, digits) * (IF negative THEN -1 ELSE 1)

_evaluate_cast_expression(type, argument) ==
    LET cast(value) ==
            CASE argument.type = "Null" -> DefaultOf(type)
              [] argument.type = type -> value
              [] type = "String" /\ argument.type # type -> LexicalCast(value)
              [] OTHER -> LexicalConvert(value)
    IN Result(type, [i \in DOMAIN argument.values |-> cast(argument.values[i])], argument.nulls)

_evaluate_extract_substr(from, offset, count) ==
    LET view == as_view(from)
    IN Result("String",
              [i \in DOMAIN from.values |->
                  IF i > size(view) \/ result_is_null(view, i) THEN <<>>
                  ELSE SubSeq(view.values[i], offset + 1, offset + count)],
              from.nulls)

_evaluate_extract_expression(component, from) ==
    CASE component = "Year" -> _evaluate_extract_substr(from, 0, 4)
      [] component = "Month" -> _evaluate_extract_substr(from, 5, 2)
      [] component = "Day" -> _evaluate_extract_substr(from, 8, 2)

_evaluate_unary_minus_expression(argument) ==
    Result(argument.type, [i \in DOMAIN argument.values |-> -argument.values[i]], argument.nulls)

(* One string of SUBSTR.  SubSeq is empty where the code's tests fail.     *)
Substring(string, start_argument, length_argument) ==
    LET start == IF start_argument < 0 THEN start_argument + Len(string)
                 ELSE IF start_argument = 0 THEN 0 ELSE start_argument - 1
        length == IF start_argument = 0 THEN length_argument - 1 ELSE length_argument
        end == Min({start + length, Len(string)})
    IN IF length_argument <= 0 THEN <<>> ELSE SubSeq(string, Max({0, start}) + 1, end)

_evaluate_substring(strings, starts, lengths) ==
    LET n == _result_size({size(strings), size(starts), size(lengths)})
    IN Result("String",
              [i \in 1..n |-> Substring(result_value(strings, i), result_value(starts, i),
                                        result_value(lengths, i))],
              [i \in 1..n |-> \E operand \in {strings, starts, lengths} : result_is_null(operand, i)])

_evaluate_concatenate(results) ==
    LET n == _result_size({size(results[k]) : k \in DOMAIN results})
        views == [k \in DOMAIN results |-> as_view(results[k])]
        nullable == \E k \in DOMAIN results : results[k].nulls # <<>>
    IN Result("String",
              [i \in 1..n |-> FlattenSeq([k \in DOMAIN views |-> result_value(views[k], i)])],
              IF nullable THEN [i \in 1..n |-> \E k \in DOMAIN views : result_is_null(views[k], i)]
              ELSE <<>>)

-----------------------------------------------------------------------------
(* A column that is not nullable has no flags.                             *)
_materialize_segment_if_not_yet_materialized(column) ==
    LET cell(i) == rows[i][column[1]]
    IN Result(column[2],
              [i \in DOMAIN rows |-> IF cell(i) = Null THEN DefaultOf(column[2]) ELSE cell(i)],
              IF column[3] THEN [i \in DOMAIN rows |-> cell(i) = Null] ELSE <<>>)

(* The plan runs once for every row, on a copy with its parameters set to  *)
(* the row's values, or once at all if it has no parameters.               *)
_evaluate_select_expression_for_row(select, row) ==
    select.pqp[[p \in DOMAIN select.parameters |-> row[select.parameters[p]]]]

_evaluate_select_expression_to_tables(select) ==
    IF select.parameters = <<>> THEN <<select.pqp[<<>>]>>
    ELSE [i \in DOMAIN rows |-> _evaluate_select_expression_for_row(select, rows[i])]

_evaluate_exists_expression(tables) ==
    Result("Int", [i \in DOMAIN tables |-> TruthValue(Len(tables[i]) > 0)], <<>>)

(* Each table must have one row.                                           *)
_evaluate_select_expression(select, tables) ==
    Result(select.data_type,
           [i \in DOMAIN tables |-> IF tables[i][1] = Null THEN DefaultOf(select.data_type) ELSE tables[i][1]],
           IF select.nullable THEN [i \in DOMAIN tables |-> tables[i][1] = Null] ELSE <<>>)

_evaluate_value_or_parameter_expression(type, value) ==
    IF value[1] = "Null" THEN make_null(type) ELSE Result(type, <<value[2]>>, <<>>)

(* The elements of an IN list that can be compared with the left operand.  *)
type_compatible_elements(value, elements) ==
    LET Compatible(element) == (data_type(element) = "String") = (data_type(value) = "String")
    IN SelectSeq(elements, Compatible)

all_elements_are_values_of_left_type(value, elements) ==
    \A k \in DOMAIN elements : elements[k][1] = "value" /\ elements[k][2][1] = data_type(value)

PredicateDisjunction(value, elements) ==
    LET AddElement(disjunction, element) == or_(disjunction, predicate_("Equals", <<value, element>>))
    IN FoldLeft(AddElement, predicate_("Equals", <<value, Head(elements)>>), Tail(elements))

RECURSIVE evaluate_expression_to_result(_, _)

(* _resolve_to_expression_result                                           *)
_resolve_with(e) ==
    IF data_type(e) = "Null" THEN make_null("Null") ELSE evaluate_expression_to_result(e, data_type(e))

(* The In case of _evaluate_predicate_expression.                          *)
_evaluate_in_expression(value, set) ==
    LET elements == IF set[1] = "list" THEN arguments(set) ELSE <<set>>
        compatible == type_compatible_elements(value, elements)
    IN IF set[1] = "select"
       THEN InTables(_resolve_with(value), set[2].data_type,
                     _evaluate_select_expression_to_tables(set[2]))
       ELSE IF elements = <<>> THEN Result("Int", <<0>>, <<>>)
       ELSE IF data_type(value) = "Null" THEN make_null("Int")
       ELSE IF compatible = <<>> THEN Result("Int", <<0>>, <<>>)
       ELSE IF all_elements_are_values_of_left_type(value, elements)
       THEN InValues(_resolve_with(value), compatible)
       ELSE evaluate_expression_to_result(PredicateDisjunction(value, compatible), "Int")

_evaluate_predicate_expression(condition, args) ==
    CASE condition \in Comparisons ->
           _evaluate_binary_predicate_expression(condition, _resolve_with(args[1]),
                                                 _resolve_with(args[2]))
      [] condition = "Between" ->
           evaluate_expression_to_result(and_(predicate_("GreaterThanEquals", <<args[1], args[2]>>),
                         predicate_("LessThanEquals", <<args[1], args[3]>>)), "Int")
      [] condition = "In" -> _evaluate_in_expression(args[1], args[2])
      [] condition \in {"Like", "NotLike"} ->
           _evaluate_like_expression(condition, evaluate_expression_to_result(args[1], "String"),
                                     evaluate_expression_to_result(args[2], "String"))
      [] condition \in {"IsNull", "IsNotNull"} ->
           _evaluate_is_null_expression(condition, _resolve_with(args[1]))

_evaluate_function_expression(function, args) ==
    IF function = "Substring"
    THEN _evaluate_substring(evaluate_expression_to_result(args[1], "String"),
                             evaluate_expression_to_result(args[2], "Int"),
                             evaluate_expression_to_result(args[3], "Int"))
    ELSE IF \E k \in DOMAIN args : data_type(args[k]) = "Null" THEN make_null("String")
    ELSE _evaluate_concatenate([k \in DOMAIN args |-> evaluate_expression_to_result(args[k], "String")])

evaluate_expression_to_result(e, type) ==
    LET kind == e[1]
        args == arguments(e)
        resolved(k) == _resolve_with(args[k])
    IN CASE kind = "arithmetic" -> _evaluate_arithmetic_expression(e[2], type, resolved(1), resolved(2))
         [] kind = "logical" -> _evaluate_logical_expression(e[2], resolved(1), resolved(2))
         [] kind = "predicate" -> _evaluate_predicate_expression(e[2], args)
         [] kind = "select" ->
              _evaluate_select_expression(e[2], _evaluate_select_expression_to_tables(e[2]))
         [] kind = "column" -> _materialize_segment_if_not_yet_materialized(e[2])
         [] kind = "value" -> _evaluate_value_or_parameter_expression(type, e[2])
         [] kind = "parameter" -> _evaluate_value_or_parameter_expression(type, e[2][3])
         [] kind = "function" -> _evaluate_function_expression(e[2], args)
         [] kind = "case" ->
              _evaluate_case_expression(type, evaluate_expression_to_result(args[1], "Int"), resolved(2), resolved(3))
         [] kind = "cast" -> _evaluate_cast_expression(type, resolved(1))
         [] kind = "exists" ->
              _evaluate_exists_expression(_evaluate_select_expression_to_tables(args[1][2]))
         [] kind = "extract" -> _evaluate_extract_expression(e[2], evaluate_expression_to_result(args[1], "String"))
         [] kind = "minus" -> _evaluate_unary_minus_expression(resolved(1))

(* The new segment: a cell for every row of the chunk.                     *)
evaluate_expression_to_segment(e) ==
    LET view == as_view(evaluate_expression_to_result(e, data_type(e)))
    IN [i \in DOMAIN rows |-> IF result_is_null(view, i) THEN Null ELSE result_value(view, i)]

(* The expressions evaluating which, to a type, meets no Fail() and no     *)
(* failing assertion: the functors' supports and the asserts on types.     *)
RECURSIVE Supported(_, _)
Supported(e, type) ==
    LET kind == e[1]
        args == arguments(e)
        t(k) == data_type(args[k])
        resolves(k) == t(k) = "Null" \/ (t(k) # "Fail" /\ Supported(args[k], t(k)))
        string(k) == t(k) = "String"
        comparable(j, k) == "Null" \in {t(j), t(k)} \/ string(j) = string(k)
    IN CASE kind = "column" -> e[2][2] = type
         [] kind = "value" -> e[2][1] \in {"Null", type}
         [] kind = "parameter" -> e[2][3] # <<>> /\ e[2][3][1] \in {"Null", type}
         [] kind = "arithmetic" -> type # "String" /\ \A k \in 1..2 : ~string(k) /\ resolves(k)
         [] kind = "logical" -> type = "Int" /\ \A k \in 1..2 : t(k) \in {"Int", "Null"} /\ resolves(k)
         [] kind = "predicate" ->
              type = "Int"
              /\ CASE e[2] \in Comparisons -> resolves(1) /\ resolves(2) /\ comparable(1, 2)
                   [] e[2] = "Between" ->
                        (\A k \in 1..3 : resolves(k)) /\ comparable(1, 2) /\ comparable(1, 3)
                   [] e[2] = "In" ->
                        resolves(1) /\ (args[2][1] = "list" =>
                            \A k \in DOMAIN arguments(args[2]) :
                                LET x == arguments(args[2])[k]
                                IN data_type(x) = "Null" \/ Supported(x, data_type(x)))
                   [] e[2] \in {"Like", "NotLike"} ->
                        Supported(args[1], "String") /\ Supported(args[2], "String")
                   [] OTHER -> resolves(1)
         [] kind = "function" ->
              type = "String"
              /\ IF e[2] = "Substring"
                 THEN Supported(args[1], "String") /\ Supported(args[2], "Int") /\ Supported(args[3], "Int")
                 ELSE \A k \in DOMAIN args : t(k) = "Null" \/ Supported(args[k], "String")
         [] kind = "case" ->
              Supported(args[1], "Int") /\ resolves(2) /\ resolves(3)
              /\ string(2) = string(3) /\ string(2) = (type = "String")
         [] kind = "cast" -> resolves(1)
         [] kind = "extract" -> type = "String" /\ Supported(args[1], "String")
         [] kind = "minus" -> ~string(1) /\ t(1) = type /\ resolves(1)
         [] kind = "exists" -> type = "Int"
         [] kind = "select" -> e[2].data_type = type
         [] OTHER -> FALSE

-----------------------------------------------------------------------------
(* What SQL makes of an expression for one row: the reference.             *)
TwoValued(v) == IF v = Null THEN Null ELSE TruthValue(v # 0)
Not(v) == IF v = Null THEN Null ELSE TruthValue(v = 0)
AnyOf(S) == IF 1 \in S THEN 1 ELSE IF Null \in S THEN Null ELSE 0

RECURSIVE SqlValue(_, _)
SqlValue(e, row) ==
    LET kind == e[1]
        args == arguments(e)
        v(k) == SqlValue(args[k], row)
        Strict(k, x) == IF \E j \in 1..k : v(j) = Null THEN Null ELSE x
        eq(a, b) == IF Null \in {a, b} THEN Null ELSE TruthValue(a = b)
        compare(c, a, b, type) == IF Null \in {a, b} THEN Null ELSE ComparisonFunctor(c, type, a, b)
        t == data_type(IF args[1] = null_ THEN args[2] ELSE args[1])
        table(select) == select.pqp[[p \in DOMAIN select.parameters |-> row[select.parameters[p]]]]
        comparable(x) == \/ "Null" \in {data_type(x), data_type(args[1])}
                         \/ (data_type(x) = "String") = (data_type(args[1]) = "String")
    IN CASE kind = "column" -> row[e[2][1]]
         [] kind = "value" -> e[2][2]
         [] kind = "parameter" -> e[2][3][2]
         [] kind = "arithmetic" ->
              Strict(2, CASE e[2] = "Addition" -> v(1) + v(2)
                          [] e[2] = "Subtraction" -> v(1) - v(2)
                          [] e[2] = "Multiplication" -> v(1) * v(2)
                          [] v(2) = 0 -> Null
                          [] e[2] = "Division" ->
                               CHOOSE q \in -9..9 : \E r \in -9..9 :
                                   v(1) = q * v(2) + r /\ r * v(1) >= 0 /\ r * r < v(2) * v(2)
                          [] e[2] = "Modulo" ->
                               CHOOSE r \in -9..9 : \E q \in -9..9 :
                                   v(1) = q * v(2) + r /\ r * v(1) >= 0 /\ r * r < v(2) * v(2))
         [] kind = "logical" /\ e[2] = "Or" -> AnyOf({TwoValued(v(1)), TwoValued(v(2))})
         [] kind = "logical" /\ e[2] = "And" -> Not(AnyOf({Not(v(1)), Not(v(2))}))
         [] kind = "predicate" /\ e[2] \in Comparisons -> compare(e[2], v(1), v(2), t)
         [] kind = "predicate" /\ e[2] = "Between" ->
              Not(AnyOf({Not(compare("LessThanEquals", v(2), v(1), t)),
                         Not(compare("LessThanEquals", v(1), v(3), t))}))
         [] kind = "predicate" /\ e[2] = "In" /\ args[2][1] = "list" ->
              AnyOf({eq(v(1), SqlValue(x, row)) : x \in {y \in ToSet(arguments(args[2])) : comparable(y)}})
         [] kind = "predicate" /\ e[2] = "In" /\ args[2][1] = "select" ->
              IF (args[2][2].data_type = "String") # (data_type(args[1]) = "String") THEN 0
              ELSE AnyOf({eq(v(1), x) : x \in ToSet(table(args[2][2]))}
                         \union {IF v(1) = Null THEN Null ELSE 0})
         [] kind = "predicate" /\ e[2] = "Like" -> Strict(2, TruthValue(Like(v(1), v(2))))
         [] kind = "predicate" /\ e[2] = "NotLike" -> Strict(2, TruthValue(~Like(v(1), v(2))))
         [] kind = "predicate" /\ e[2] = "IsNull" -> TruthValue(v(1) = Null)
         [] kind = "predicate" /\ e[2] = "IsNotNull" -> TruthValue(v(1) # Null)
         [] kind = "case" -> IF TwoValued(v(1)) = 1 THEN v(2) ELSE v(3)
         [] kind = "cast" -> Strict(1, IF data_type(args[1]) = e[2] THEN v(1)
                                       ELSE IF e[2] = "String" THEN LexicalCast(v(1)) ELSE LexicalConvert(v(1)))
         [] kind = "minus" -> Strict(1, -v(1))
         [] kind = "exists" -> TruthValue(table(args[1][2]) # <<>>)
         [] kind = "select" -> table(e[2])[1]
         [] kind = "function" /\ e[2] = "Substring" ->
              (* the characters at positions start..start+length-1 of the string, *)
              (* numbered 1, 2, ... from its start and -1, -2, ... from its end    *)
              Strict(3, LET n == Len(v(1))
                            first == IF v(2) < 0 THEN n + 1 + v(2) ELSE v(2)
                            wanted == {p \in 1..n : first <= p /\ p < first + v(3)}
                        IN [p \in 1..Cardinality(wanted) |-> v(1)[Min(wanted) + p - 1]])
         [] kind = "function" /\ e[2] = "Concatenate" ->
              Strict(Len(args), FlattenSeq([k \in DOMAIN args |-> v(k)]))
         [] kind = "extract" -> Strict(1, CASE e[2] = "Year" -> SubSeq(v(1), 1, 4)
                                            [] e[2] = "Month" -> SubSeq(v(1), 6, 7)
                                            [] e[2] = "Day" -> SubSeq(v(1), 9, 10))
=============================================================================
