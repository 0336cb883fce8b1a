----------------------------- MODULE Expressions -----------------------------
(***************************************************************************)
(* The expressions of Hyrise's query plans (src/lib/expression/).  An      *)
(* expression is a tuple <<kind, payload, arguments>>; what the payload is *)
(* depends on the kind:                                                    *)
(*   "column"      a column: its reference, its data type and whether it   *)
(*                 may be NULL (LQPColumnExpression, PQPColumnExpression)  *)
(*   "value"       <<data type, value>>                                    *)
(*   "parameter"   <<id, referenced, value>>: referenced is empty for a    *)
(*                 value placeholder and <<data type, nullable>> for a     *)
(*                 column of an outer query; value is empty until it is    *)
(*                 set to a <<data type, value>>                           *)
(*   "arithmetic", "logical", "predicate", "function", "aggregate" and     *)
(*   "extract"     the operator, condition, function or component          *)
(*   "cast"        the data type cast to                                   *)
(*   "select"      a subselect, see ExpressionEvaluator and SQLTranslator  *)
(*   "case", "minus", "list", "exists"   nothing, the empty string         *)
(* Equality of expressions (operator==, which compares the trees node by   *)
(* node) is equality of the tuples.                                        *)
(***************************************************************************)
EXTENDS Integers, FiniteSets, Sequences, SequencesExt, FiniteSetsExt

CONSTANT Null      \* the value of the data type Null

Comparisons == {"Equals", "NotEquals", "LessThan", "LessThanEquals", "GreaterThan", "GreaterThanEquals"}

arguments(expression) == expression[3]

column_(reference, data_type, nullable) == <<"column", <<reference, data_type, nullable>>, <<>> >>
value_(data_type, value) == <<"value", <<data_type, value>>, <<>> >>
null_ == value_("Null", Null)
parameter_(id, referenced) == <<"parameter", <<id, referenced, <<>> >>, <<>> >>
predicate_(condition, args) == <<"predicate", condition, args>>
and_(left, right) == <<"logical", "And", <<left, right>> >>
or_(left, right) == <<"logical", "Or", <<left, right>> >>

requires_computation(expression) == expression[1] \notin {"column", "value", "parameter"}

FloatingPoint == {"Float", "Double"}

(* "Fail" stands for the exception of the assertions.                      *)
expression_common_type(lhs, rhs) ==
    IF "Fail" \in {lhs, rhs} \/ (lhs = "Null" /\ rhs = "Null") \/ (lhs = "String") # (rhs = "String")
    THEN "Fail"
    ELSE IF lhs = "Null" THEN rhs
    ELSE IF rhs = "Null" THEN lhs
    ELSE IF lhs = "String" THEN "String"
    ELSE IF "Double" \in {lhs, rhs} THEN "Double"
    ELSE IF "Long" \in {lhs, rhs}
         THEN IF {lhs, rhs} \intersect FloatingPoint # {} THEN "Double" ELSE "Long"
    ELSE IF "Float" \in {lhs, rhs} THEN "Float" ELSE "Int"

(* AggregateExpression::data_type with the AggregateTraits of the operator. *)
aggregate_data_type(function, argument_type) ==
    CASE function \in {"Count", "CountDistinct"} -> "Long"
      [] function \in {"Min", "Max"} -> argument_type
      [] function = "Sum" -> IF argument_type \in FloatingPoint THEN "Double"
                             ELSE IF argument_type = "String" THEN "Null" ELSE "Long"
      [] function = "Avg" -> IF argument_type = "String" THEN "Null" ELSE "Double"

parameter_data_type(parameter) ==
    IF parameter[2] # <<>> THEN parameter[2][1]
    ELSE IF parameter[3] # <<>> THEN parameter[3][1] ELSE "Fail"

parameter_is_nullable(parameter) ==
    IF parameter[2] # <<>> THEN parameter[2][2] ELSE parameter[3][1] = "Null"

RECURSIVE data_type(_)
data_type(expression) ==
    LET kind == expression[1]
        args == arguments(expression)
    IN CASE kind = "column" -> expression[2][2]
         [] kind = "value" -> expression[2][1]
         [] kind = "parameter" -> parameter_data_type(expression[2])
         [] kind = "arithmetic" -> expression_common_type(data_type(args[1]), data_type(args[2]))
         [] kind = "case" -> expression_common_type(data_type(args[2]), data_type(args[3]))
         [] kind \in {"logical", "predicate", "exists"} -> "Int"
         [] kind = "cast" -> expression[2]
         [] kind \in {"function", "extract"} -> "String"
         [] kind = "minus" -> data_type(args[1])
         [] kind = "aggregate" ->
              aggregate_data_type(expression[2], IF args = <<>> THEN "Null" ELSE data_type(args[1]))
         [] kind = "select" -> expression[2].data_type
         [] kind = "list" -> "Fail"

RECURSIVE is_nullable(_)
is_nullable(expression) ==
    LET kind == expression[1]
        any_argument == \E i \in DOMAIN arguments(expression) : is_nullable(arguments(expression)[i])
    IN CASE kind = "column" -> expression[2][3]
         [] kind = "value" -> expression[2][1] = "Null"
         [] kind = "parameter" -> parameter_is_nullable(expression[2])
         [] kind = "arithmetic" -> any_argument \/ expression[2] \in {"Division", "Modulo"}
         [] kind = "aggregate" -> expression[2] \notin {"Count", "CountDistinct"}
         [] kind = "exists" -> FALSE
         [] kind = "select" -> expression[2].nullable
         [] OTHER -> any_argument

(* All sub-expressions in the order of visit_expression, breadth first: a  *)
(* queue that an expression leaves and its arguments enter.                *)
RECURSIVE VisitQueue(_)
VisitQueue(queue) ==
    IF queue = <<>> THEN <<>>
    ELSE <<Head(queue)>> \o VisitQueue(Tail(queue) \o arguments(Head(queue)))
visit_expression(expression) == VisitQueue(<<expression>>)

(* expression_flatten_conjunction: the conjuncts, those of an inner AND    *)
(* taken apart first to last in the order of the visit.                    *)
RECURSIVE FlattenQueue(_)
FlattenQueue(queue) ==
    IF queue = <<>> THEN <<>>
    ELSE LET e == Head(queue)
         IN IF e[1] = "logical" /\ e[2] = "And"
            THEN FlattenQueue(Tail(queue) \o arguments(e))
            ELSE <<e>> \o FlattenQueue(Tail(queue))
expression_flatten_conjunction(expression) == FlattenQueue(<<expression>>)

(* expression_set_parameters: values maps the ids of some parameters.      *)
(* ParameterExpression::set_value refuses a value of another type than the *)
(* referenced column's, and NULL is of the type Null: "Fail" as its value. *)
set_value(parameter, value) ==
    <<parameter[1], parameter[2],
      IF parameter[2] = <<>> \/ parameter[2][1] = value[1] THEN value ELSE <<"Fail", Null>> >>

RECURSIVE expression_set_parameters(_, _)
expression_set_parameters(expression, values) ==
    IF expression[1] = "parameter"
    THEN IF expression[2][1] \in DOMAIN values
         THEN <<"parameter", set_value(expression[2], values[expression[2][1]]), <<>> >>
         ELSE expression
    ELSE <<expression[1], expression[2],
           [i \in DOMAIN arguments(expression) |->
               expression_set_parameters(arguments(expression)[i], values)]>>

expression_contains_placeholders(expression) ==
    \E e \in ToSet(visit_expression(expression)) : e[1] = "parameter" /\ e[2][2] = <<>>

(* types.cpp: the condition for exchanged operands, and its negation.      *)
flip_predicate_condition(condition) ==
    CASE condition = "GreaterThan" -> "LessThan"
      [] condition = "LessThan" -> "GreaterThan"
      [] condition = "GreaterThanEquals" -> "LessThanEquals"
      [] condition = "LessThanEquals" -> "GreaterThanEquals"
      [] condition \in {"Equals", "NotEquals"} -> condition

inverse_predicate_condition(condition) ==
    CASE condition = "Equals" -> "NotEquals"
      [] condition = "NotEquals" -> "Equals"
      [] condition = "GreaterThan" -> "LessThanEquals"
      [] condition = "LessThanEquals" -> "GreaterThan"
      [] condition = "GreaterThanEquals" -> "LessThan"
      [] condition = "LessThan" -> "GreaterThanEquals"
      [] condition = "Like" -> "NotLike"
      [] condition = "NotLike" -> "Like"
      [] condition = "IsNull" -> "IsNotNull"
      [] condition = "IsNotNull" -> "IsNull"
=============================================================================
