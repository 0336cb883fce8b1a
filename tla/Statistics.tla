----------------------------- MODULE Statistics -----------------------------
(***************************************************************************)
(* The cardinality estimates of src/lib/statistics for integer columns,    *)
(* and the range filters that decide which chunks a predicate can prune.   *)
(*                                                                         *)
(* The statistics of a column are its null_value_ratio, distinct_count,    *)
(* min and max; those of a table its row_count and its columns'.  Floats   *)
(* are exact fractions here: <<numerator, denominator>>, reduced, <<0, 0>> *)
(* being not a number and <<1, 0>> infinite.  Arithmetic in the column     *)
(* type wraps around between Lowest and Highest.                           *)
(***************************************************************************)
EXTENDS Integers, FiniteSets, Sequences, SequencesExt, FiniteSetsExt

CONSTANTS
  Null,
  Lowest, Highest,    \* std::numeric_limits of the column type
  MAX_RANGES_COUNT    \* most ranges of a RangeFilter

-----------------------------------------------------------------------------
(* Fractions                                                               *)

Abs(n) == IF n < 0 THEN -n ELSE n
Gcd(a, b) == Max({d \in 1..Max({Abs(a), Abs(b), 1}) : a % d = 0 /\ b % d = 0})
Frac(n, d) == LET g == Gcd(n, d) IN IF d < 0 THEN <<(-n) \div g, (-d) \div g>> ELSE <<n \div g, d \div g>>
Whole(n) == <<n, 1>>
Plus(p, q) == Frac(p[1] * q[2] + q[1] * p[2], p[2] * q[2])
Minus(p, q) == Frac(p[1] * q[2] - q[1] * p[2], p[2] * q[2])
Times(p, q) == Frac(p[1] * q[1], p[2] * q[2])
Over(p, q) == Frac(p[1] * q[2], p[2] * q[1])
Leq(p, q) == p[1] * q[2] <= q[1] * p[2]
Lesser(p, q) == IF Leq(p, q) THEN p ELSE q
Greater(p, q) == IF Leq(p, q) THEN q ELSE p

\* A result of the column type.
Wrap(n) == ((n - Lowest) % (Highest - Lowest + 1)) + Lowest

DEFAULT_OPEN_ENDED_SELECTIVITY == Frac(1, 3)
DEFAULT_LIKE_SELECTIVITY == Frac(1, 10)

-----------------------------------------------------------------------------
(* ColumnStatistics                                                        *)

ColumnStatistics(null_value_ratio, distinct_count, min, max) ==
    [null_value_ratio |-> null_value_ratio, distinct_count |-> distinct_count, min |-> min, max |-> max]

non_null_value_ratio(c) == Minus(Whole(1), c.null_value_ratio)
without_null_values(c) == [c EXCEPT !.null_value_ratio = Whole(0)]
only_null_values(c) == [c EXCEPT !.null_value_ratio = Whole(1)]

\* From the cells of a column; an all NULL or empty one spans the whole type.
generate_column_statistics(cells) ==
    LET values == ToSet(cells) \ {Null}
        nulls == Cardinality({i \in DOMAIN cells : cells[i] = Null})
    IN ColumnStatistics(IF cells = <<>> THEN Whole(0) ELSE Frac(nulls, Len(cells)),
                        Whole(Cardinality(values)),
                        IF values = {} THEN Lowest ELSE Min(values),
                        IF values = {} THEN Highest ELSE Max(values))

generate_table_statistics(columns) ==
    [row_count |-> Whole(Len(columns[1])), columns |-> [i \in DOMAIN columns |-> generate_column_statistics(columns[i])]]

estimate_range_selectivity(c, minimum, maximum) ==
    IF minimum > c.max \/ maximum < c.min \/ minimum > maximum THEN Whole(0)
    ELSE IF c.min = c.max THEN Whole(1)
    ELSE Frac(Wrap(Min({c.max, maximum}) - Max({c.min, minimum}) + 1), Wrap(c.max - c.min + 1))

estimate_range(c, minimum, maximum) ==
    LET common_min == Max({minimum, c.min})
        common_max == Min({maximum, c.max})
        selectivity == IF common_min <= common_max THEN estimate_range_selectivity(c, common_min, common_max) ELSE Whole(0)
    IN IF common_min = c.min /\ common_max = c.max
       THEN [selectivity |-> non_null_value_ratio(c), column |-> without_null_values(c)]
       ELSE [selectivity |-> Times(non_null_value_ratio(c), selectivity),
             column |-> ColumnStatistics(Whole(0), Times(selectivity, c.distinct_count), common_min, common_max)]

estimate_equals_with_value(c, value) ==
    LET new_distinct_count == IF value < c.min \/ value > c.max THEN Whole(0) ELSE Whole(1)
    IN [selectivity |-> IF c.distinct_count = Whole(0) THEN Whole(0)
                        ELSE Over(Times(non_null_value_ratio(c), new_distinct_count), c.distinct_count),
        column |-> ColumnStatistics(Whole(0), new_distinct_count, value, value)]

estimate_not_equals_with_value(c, value) ==
    IF value < c.min \/ value > c.max
    THEN [selectivity |-> non_null_value_ratio(c), column |-> without_null_values(c)]
    ELSE [selectivity |-> IF c.distinct_count = Whole(0) THEN Whole(0)
                          ELSE Times(non_null_value_ratio(c), Minus(Whole(1), Over(Whole(1), c.distinct_count))),
          column |-> ColumnStatistics(Whole(0), Minus(c.distinct_count, Whole(1)), c.min, c.max)]

estimate_predicate_with_value(c, condition, value) ==
    CASE condition = "Equals" -> estimate_equals_with_value(c, value)
      [] condition = "NotEquals" -> estimate_not_equals_with_value(c, value)
      [] condition = "LessThan" -> estimate_range(c, c.min, Wrap(value - 1))
      [] condition = "LessThanEquals" -> estimate_range(c, c.min, value)
      [] condition = "GreaterThan" -> estimate_range(c, Wrap(value + 1), c.max)
      [] condition = "GreaterThanEquals" -> estimate_range(c, value, c.max)

estimate_predicate_with_value_placeholder(c, condition) ==
    CASE condition = "Equals" -> estimate_equals_with_value(c, c.min)
      [] condition = "NotEquals" -> estimate_not_equals_with_value(c, c.min)
      [] OTHER -> [selectivity |-> Times(non_null_value_ratio(c), DEFAULT_OPEN_ENDED_SELECTIVITY),
                   column |-> ColumnStatistics(Whole(0), Times(c.distinct_count, DEFAULT_OPEN_ENDED_SELECTIVITY),
                                               c.min, c.max)]

\* Mutant: the common range ends where the smaller of the two columns begins.
OverlapOfMinima(l, r) ==
    LET low == Max({l.min, r.min})
        high == Min({l.max, r.min})
        left == estimate_range_selectivity(l, low, high)
        right == estimate_range_selectivity(r, low, high)
        left_distinct == Times(left, l.distinct_count)
        right_distinct == Times(right, r.distinct_count)
    IN [min |-> low, max |-> high, left |-> left, right |-> right,
        left_below |-> estimate_range_selectivity(l, l.min, Wrap(low - 1)),
        left_above |-> estimate_range_selectivity(l, Wrap(high + 1), l.max),
        right_below |-> estimate_range_selectivity(r, r.min, Wrap(low - 1)),
        right_above |-> estimate_range_selectivity(r, Wrap(high + 1), r.max),
        distinct |-> Lesser(left_distinct, right_distinct),
        equal |-> IF Leq(right_distinct, left_distinct) THEN Over(right, l.distinct_count)
                                                         ELSE Over(left, r.distinct_count)]

\* The ratios of both columns' values below, within and above their common range.
Overlap(l, r) ==
    LET low == Max({l.min, r.min})
        high == Min({l.max, r.max})
        left == estimate_range_selectivity(l, low, high)
        right == estimate_range_selectivity(r, low, high)
        left_distinct == Times(left, l.distinct_count)
        right_distinct == Times(right, r.distinct_count)
    IN [min |-> low, max |-> high, left |-> left, right |-> right,
        left_below |-> estimate_range_selectivity(l, l.min, Wrap(low - 1)),
        left_above |-> estimate_range_selectivity(l, Wrap(high + 1), l.max),
        right_below |-> estimate_range_selectivity(r, r.min, Wrap(low - 1)),
        right_above |-> estimate_range_selectivity(r, Wrap(high + 1), r.max),
        distinct |-> Lesser(left_distinct, right_distinct),
        equal |-> IF Leq(right_distinct, left_distinct) THEN Over(right, l.distinct_count)
                                                         ELSE Over(left, r.distinct_count)]

ColumnEstimate(selectivity, left, right) == [selectivity |-> selectivity, left |-> left, right |-> right]

estimate_selectivity_for_open_ended_operators(l, r, overlap, below, above, new_min, new_max, add_equal_values) ==
    LET unequal == Times(Minus(Times(overlap.left, overlap.right), overlap.equal), Frac(1, 2))
        within == IF add_equal_values THEN Plus(unequal, overlap.equal) ELSE unequal
        selectivity == Minus(Plus(Plus(below, within), above), Times(below, above))
    IN ColumnEstimate(Times(Times(non_null_value_ratio(l), non_null_value_ratio(r)), selectivity),
                      estimate_range(l, new_min, new_max).column, estimate_range(r, new_min, new_max).column)

estimate_predicate_with_column(l, r, condition) ==
    LET overlap == Overlap(l, r)
        combined_non_null_ratio == Times(non_null_value_ratio(l), non_null_value_ratio(r))
        open(below, above, low, high, equal) ==
            estimate_selectivity_for_open_ended_operators(l, r, overlap, below, above, low, high, equal)
        common == ColumnStatistics(Whole(0), overlap.distinct, overlap.min, overlap.max)
    IN IF l.distinct_count = Whole(0) \/ r.distinct_count = Whole(0)
       THEN ColumnEstimate(Whole(0), without_null_values(l), without_null_values(r))
       ELSE CASE condition = "Equals" -> ColumnEstimate(Times(combined_non_null_ratio, overlap.equal), common, common)
              [] condition = "NotEquals" ->
                     ColumnEstimate(Times(combined_non_null_ratio, Minus(Whole(1), overlap.equal)),
                                    without_null_values(l), without_null_values(r))
              [] condition = "LessThan" -> open(overlap.left_below, overlap.right_above, l.min, r.max, FALSE)
              [] condition = "LessThanEquals" -> open(overlap.left_below, overlap.right_above, l.min, r.max, TRUE)
              [] condition = "GreaterThan" -> open(overlap.right_below, overlap.left_above, r.min, l.max, FALSE)
              [] condition = "GreaterThanEquals" -> open(overlap.right_below, overlap.left_above, r.min, l.max, TRUE)

-----------------------------------------------------------------------------
(* TableStatistics.  The operand of a predicate is a value, a column or a  *)
(* placeholder whose value comes later.                                    *)

Replaced(table, column, statistics, selectivity) ==
    [row_count |-> Times(table.row_count, selectivity), columns |-> [table.columns EXCEPT ![column] = statistics]]

EstimateValue(table, column, condition, value) ==
    LET e == estimate_predicate_with_value(table.columns[column], condition, value)
    IN Replaced(table, column, e.column, e.selectivity)

EstimatePlaceholder(table, column, condition) ==
    LET e == estimate_predicate_with_value_placeholder(table.columns[column], condition)
    IN Replaced(table, column, e.column, e.selectivity)

EstimateColumns(table, column, condition, other) ==
    LET e == estimate_predicate_with_column(table.columns[column], table.columns[other], condition)
    IN Replaced(Replaced(table, column, e.left, e.selectivity), other, e.right, Whole(1))

\* The two ratios are the other way round than the conditions' names.
EstimateIsNull(table, column, condition) ==
    LET c == table.columns[column]
    IN IF condition = "IsNotNull" THEN Replaced(table, column, without_null_values(c), Minus(Whole(1), non_null_value_ratio(c)))
                                  ELSE Replaced(table, column, only_null_values(c), non_null_value_ratio(c))

EstimateLike(table, condition) ==
    [table EXCEPT !.row_count = Times(@, IF condition = "Like" THEN DEFAULT_LIKE_SELECTIVITY
                                         ELSE Minus(Whole(1), DEFAULT_LIKE_SELECTIVITY))]

\* operand is [value |-> v], [column |-> c], [between |-> <<low, high>>] or [parameter |-> id].
estimate_predicate(table, column, condition, operand) ==
    CASE table.row_count = Whole(0) -> table
      [] table.row_count # Whole(0) /\ condition = "Between" ->
             LET lower == EstimateValue(table, column, "GreaterThanEquals", operand.between[1])
             IN IF lower.row_count = Whole(0) THEN lower
                ELSE EstimateValue(lower, column, "LessThanEquals", operand.between[2])
      [] table.row_count # Whole(0) /\ condition \in {"Like", "NotLike"} -> EstimateLike(table, condition)
      [] table.row_count # Whole(0) /\ condition \in {"IsNull", "IsNotNull"} -> EstimateIsNull(table, column, condition)
      [] OTHER -> IF "column" \in DOMAIN operand THEN EstimateColumns(table, column, condition, operand.column)
                  ELSE IF "value" \in DOMAIN operand THEN EstimateValue(table, column, condition, operand.value)
                  ELSE EstimatePlaceholder(table, column, condition)

estimate_cross_join(left, right) ==
    [row_count |-> Times(left.row_count, right.row_count), columns |-> left.columns \o right.columns]

calculate_added_null_values_for_outer_join(row_count, column, predicate_column_distinct_count) ==
    Plus(Times(column.null_value_ratio, row_count),
         IF column.distinct_count = Whole(0) THEN Whole(0)
         ELSE Times(Minus(Whole(1), Over(predicate_column_distinct_count, column.distinct_count)), row_count))

adjust_null_value_ratio_for_outer_join(columns, adjusted, row_count, null_value_no, new_row_count) ==
    IF null_value_no = Whole(0) THEN columns
    ELSE [i \in DOMAIN columns |->
             IF i \notin adjusted THEN columns[i]
             ELSE [columns[i] EXCEPT !.null_value_ratio =
                      Over(Plus(Times(@, row_count), null_value_no), new_row_count)]]

estimate_predicated_join(left, right, mode, left_column, right_column, condition) ==
    LET l == left.columns[left_column]
        r == right.columns[right_column]
        n == Len(left.columns)
        e == estimate_predicate_with_column(l, r, condition)
        cross == estimate_cross_join(left, right)
        inner_rows == Times(cross.row_count, e.selectivity)
        left_nulls == calculate_added_null_values_for_outer_join(right.row_count, r, e.right.distinct_count)
        right_nulls == calculate_added_null_values_for_outer_join(left.row_count, l, e.left.distinct_count)
        left_replaced == [cross.columns EXCEPT ![left_column] = e.left]
        right_replaced == [cross.columns EXCEPT ![n + right_column] = e.right]
        nulls_right(columns, rows) ==
            adjust_null_value_ratio_for_outer_join(columns, (n + 1)..Len(columns), right.row_count, right_nulls, rows)
        nulls_left(columns, rows) ==
            adjust_null_value_ratio_for_outer_join(columns, 1..n, left.row_count, left_nulls, rows)
        outer_rows == Plus(Plus(inner_rows, right_nulls), left_nulls)
    IN CASE mode = "Semi" ->
             [row_count |-> Times(Frac(3, 4), Lesser(Times(left.row_count, non_null_value_ratio(e.left)),
                                                     Times(right.row_count, non_null_value_ratio(e.right)))),
              columns |-> SubSeq(left_replaced, 1, n)]
         [] mode = "Anti" ->
             [row_count |-> Greater(left.row_count, Times(Times(right.row_count, non_null_value_ratio(e.right)), Frac(1, 10))),
              columns |-> left_replaced]
         [] mode = "Inner" ->
             [row_count |-> inner_rows, columns |-> [left_replaced EXCEPT ![n + right_column] = e.right]]
         [] mode = "Left" -> LET rows == Plus(inner_rows, right_nulls)
                             IN [row_count |-> rows, columns |-> nulls_right(right_replaced, rows)]
         [] mode = "Right" -> LET rows == Plus(inner_rows, left_nulls)
                              IN [row_count |-> rows, columns |-> nulls_left(left_replaced, rows)]
         [] mode = "Outer" -> [row_count |-> outer_rows,
                               columns |-> nulls_left(nulls_right(cross.columns, outer_rows), outer_rows)]

-----------------------------------------------------------------------------
(* RangeFilter, MinMaxFilter and SegmentStatistics.                        *)

\* std::sort by distance, largest first, is not stable: keep is any set of max_ranges - 1
\* gaps none of which is smaller than one it leaves out.
LargestGaps(dictionary, count) ==
    LET gaps == 1..(Len(dictionary) - 1)
        distance(i) == Wrap(dictionary[i + 1] - dictionary[i])
    IN {keep \in SUBSET gaps : /\ Cardinality(keep) = Min({count, Cardinality(gaps)})
                               /\ \A i \in keep, j \in gaps \ keep : distance(i) >= distance(j)}
\* The ranges between the gaps, the last one up to the dictionary's end.
RangesBetween(dictionary, gaps) ==
    LET ends == SetToSortSeq(gaps \union {Len(dictionary)}, <)
    IN [k \in DOMAIN ends |-> <<dictionary[IF k = 1 THEN 1 ELSE ends[k - 1] + 1], dictionary[ends[k]]>>]

build_filter(dictionary) ==
    {RangesBetween(dictionary, gaps) : gaps \in LargestGaps(dictionary, MAX_RANGES_COUNT - 1)}

RangeFilterCanPrune(ranges, condition, value) ==
    CASE condition = "GreaterThan" -> value >= ranges[Len(ranges)][2]
      [] condition = "GreaterThanEquals" -> value > ranges[Len(ranges)][2]
      [] condition = "LessThan" -> value <= ranges[1][1]
      [] condition = "LessThanEquals" -> value < ranges[1][1]
      [] condition = "Equals" -> \A k \in DOMAIN ranges : value < ranges[k][1] \/ value > ranges[k][2]
      [] OTHER -> FALSE

MinMaxFilterCanPrune(min, max, condition, value) ==
    CASE condition = "GreaterThan" -> value >= max
      [] condition = "GreaterThanEquals" -> value > max
      [] condition = "LessThan" -> value <= min
      [] condition = "LessThanEquals" -> value < min
      [] condition = "Equals" -> value < min \/ value > max
      [] OTHER -> FALSE

\* build_statistics: the filters a segment with these cells may get, none when it has no value.
build_statistics(cells) ==
    LET dictionary == SetToSortSeq(ToSet(cells) \ {Null}, <)
    IN IF dictionary = <<>> THEN {<<>>} ELSE {<<ranges>> : ranges \in build_filter(dictionary)}

can_prune(filters, condition, value) ==
    \E k \in DOMAIN filters : RangeFilterCanPrune(filters[k], condition, value)
=============================================================================
