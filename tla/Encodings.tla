----------------------------- MODULE Encodings ------------------------------
(***************************************************************************)
(* The encodings of segments and of the vectors of unsigned integers that  *)
(* they are built from.                                                    *)
(***************************************************************************)
EXTENDS Integers, FiniteSets, Sequences, SequencesExt, FiniteSetsExt, Bitwise

-----------------------------------------------------------------------------
(***************************************************************************)
(* Tables as the operators see them: a sequence of chunks, a chunk being    *)
(* the sequence of the cells of the column an operator works on.  Chunk and *)
(* row numbers start at 1 here and at 0 in the code.  A position list is a  *)
(* sequence of row ids.                                                     *)
(***************************************************************************)

CONSTANTS
  Null,       \* a cell that is NULL
  NullRef     \* a cell of a reference table whose position is NULL_ROW_ID

\* The value T{} stored next to the NULL flag of a cell (0, 0.0 or "").
DefaultValue == 0

NULL_ROW_ID == <<0, 0>>

IsNull(cell) == cell \in {Null, NullRef}

\* What an iterator hands out as the value of a cell, NULL or not.
RawValue(cell) == IF IsNull(cell) THEN DefaultValue ELSE cell

Cell(table, row) == table[row[1]][row[2]]

\* The row id an operator forms from the offset an iterator reports: the position
\* in the segment, but the first one for NULL_ROW_ID in a reference segment.
IteratorRow(table, row) == IF Cell(table, row) = NullRef THEN <<row[1], 1>> ELSE row

RowsOfChunk(table, c) == [o \in DOMAIN table[c] |-> <<c, o>>]

\* All row ids of a table, in the order chunks and offsets have.
Rows(table) == FlattenSeq([c \in DOMAIN table |-> RowsOfChunk(table, c)])

row_count(table) == Len(Rows(table))

chunk_count(table) == Len(table)

\* The rows of a reference table resolved to the rows its position lists name;
\* a data table, and a reference table without chunks, has none to resolve.
Dereference(pos_lists, rows) ==
  IF pos_lists = <<>> THEN rows
  ELSE [k \in DOMAIN rows |-> IF rows[k] = NULL_ROW_ID THEN NULL_ROW_ID
                               ELSE pos_lists[rows[k][1]][rows[k][2]]]

LeftRows(pairs)  == [k \in DOMAIN pairs |-> pairs[k][1]]
RightRows(pairs) == [k \in DOMAIN pairs |-> pairs[k][2]]

\* Table::append: a row goes to the last chunk, or to a new one when that is full.
append(table, max_chunk_size, cell) ==
  IF table = <<>> \/ Len(table[Len(table)]) >= max_chunk_size
  THEN Append(table, <<cell>>)
  ELSE [table EXCEPT ![Len(table)] = Append(@, cell)]

\* The comparison functor with_comparator() picks for a predicate condition.
with_comparator(condition, a, b) ==
  CASE condition = "Equals"            -> a = b
    [] condition = "NotEquals"         -> a # b
    [] condition = "LessThan"          -> a < b
    [] condition = "LessThanEquals"    -> a <= b
    [] condition = "GreaterThan"       -> a > b
    [] condition = "GreaterThanEquals" -> a >= b

Conditions == {"Equals", "NotEquals", "LessThan", "LessThanEquals",
               "GreaterThan", "GreaterThanEquals"}

-----------------------------------------------------------------------------
(* What a join has to compute: pairs of row ids, NULL_ROW_ID standing for    *)
(* the missing partner of an outer join.  Semi and Anti joins return single  *)
(* rows; an Anti join leaves out rows whose key is NULL, as all of the       *)
(* implementations do.                                                       *)

MatchingPairs(left, right, condition) ==
  { p \in ToSet(Rows(left)) \X ToSet(Rows(right)) :
      /\ ~IsNull(Cell(left, p[1])) /\ ~IsNull(Cell(right, p[2]))
      /\ with_comparator(condition, Cell(left, p[1]), Cell(right, p[2])) }

LeftUnmatched(left, pairs) ==
  { <<r, NULL_ROW_ID>> : r \in ToSet(Rows(left)) \ {p[1] : p \in pairs} }

RightUnmatched(right, pairs) ==
  { <<NULL_ROW_ID, r>> : r \in ToSet(Rows(right)) \ {p[2] : p \in pairs} }

Join(left, right, mode, condition) ==
  LET pairs   == MatchingPairs(left, right, condition)
      partner == {p[1] : p \in pairs}
  IN  CASE mode = "Inner" -> pairs
        [] mode = "Left"  -> pairs \cup LeftUnmatched(left, pairs)
        [] mode = "Right" -> pairs \cup RightUnmatched(right, pairs)
        [] mode = "Outer" -> pairs \cup LeftUnmatched(left, pairs)
                                   \cup RightUnmatched(right, pairs)
        [] mode = "Semi"  -> {<<r>> : r \in partner}
        [] mode = "Anti"  -> {<<r>> : r \in {r \in ToSet(Rows(left)) :
                                  ~IsNull(Cell(left, r)) /\ r \notin partner}}

\* An output without duplicates that holds exactly the rows of S.
Lists(output, S) == ToSet(output) = S /\ Len(output) = Cardinality(S)

-----------------------------------------------------------------------------
(***************************************************************************)
(* The compressed vectors of src/lib/storage/vector_compression: the       *)
(* fixed-size byte-aligned vector and SIMD-BP128.  An SSE register is a    *)
(* tuple of Lanes words of WordBits bits (4 and 32 in the code), so that a *)
(* block holds Lanes * WordBits integers, and a block packed with b bits   *)
(* per integer is exactly b registers long.  A byte is ByteBits wide.      *)
(***************************************************************************)

CONSTANTS Lanes, WordBits, BlocksInMetaBlock, ByteBits

block_size == Lanes * WordBits
meta_block_size == block_size * BlocksInMetaBlock

-----------------------------------------------------------------------------
(* FixedSizeByteAlignedCompressor: one, two or four bytes per integer,     *)
(* whichever holds the largest value that the caller announces.            *)

_find_max_value(vector) == Max(ToSet(vector))

_encode_using_uint_type(vector, bits) == [i \in DOMAIN vector |-> vector[i] % 2^bits]

UintBytes(max_value) == IF max_value <= 2^ByteBits - 1 THEN 1
                        ELSE IF max_value <= 2^(2 * ByteBits) - 1 THEN 2 ELSE 4

_encode_using_max_value(vector, max_value) ==
    _encode_using_uint_type(vector, ByteBits * UintBytes(max_value))

(* The caller's meta info carries at most one max_value.                   *)
FixedSizeByteAlignedEncode(vector, max_value) ==
    _encode_using_max_value(vector, IF max_value = {} THEN _find_max_value(vector)
                                                      ELSE CHOOSE v \in max_value : TRUE)

-----------------------------------------------------------------------------
(* SimdBp128Packing.                                                       *)

Zero == [l \in 1..Lanes |-> 0]
Masked(reg, bits) == [l \in 1..Lanes |-> reg[l] % 2^bits]
ShiftLeft(reg, bits) == [l \in 1..Lanes |-> (reg[l] * 2^bits) % 2^WordBits]
ShiftRight(reg, bits) == [l \in 1..Lanes |-> reg[l] \div 2^bits]
OrRegister(reg1, reg2) == [l \in 1..Lanes |-> reg1[l] | reg2[l]]

(* The i-th register loaded from an array of integers, i counted from 0.   *)
Load(in, i) == [l \in 1..Lanes |-> in[i * Lanes + l]]

I_MAX(bit_size, carry_over) == (WordBits - carry_over) \div bit_size
NEXT_OFFSET(bit_size, carry_over) == carry_over + I_MAX(bit_size, carry_over) * bit_size
NUM_FIRST_BITS(bit_size, carry_over) == WordBits - NEXT_OFFSET(bit_size, carry_over)

NEW_CARRY_OVER(bit_size, carry_over) ==
    IF NEXT_OFFSET(bit_size, carry_over) < WordBits
    THEN bit_size - NUM_FIRST_BITS(bit_size, carry_over) ELSE 0

(* One template instance fills one output register: the integers that fit, *)
(* then the first bits of the one that is split across the boundary.       *)
Pack128Bit(in, bit_size) ==
    LET out_register(s) ==
            FoldLeft(LAMBDA reg, i : OrRegister(reg, ShiftLeft(Masked(Load(in, s.next + i), bit_size),
                                                       s.carry_over + i * bit_size)),
                     s.out_reg, [i \in 1..I_MAX(bit_size, s.carry_over) |-> i - 1])
        pack[n \in 0..bit_size] ==
            IF n = 0 THEN [out |-> <<>>, next |-> 0, out_reg |-> Zero, carry_over |-> 0]
            ELSE LET s == pack[n - 1]
                     at == NEXT_OFFSET(bit_size, s.carry_over)
                     split == at < WordBits
                     last == s.next + I_MAX(bit_size, s.carry_over)
                     in_reg == IF split THEN Masked(Load(in, last), bit_size) ELSE Zero
                 IN [out |-> Append(s.out, OrRegister(out_register(s), ShiftLeft(in_reg, at))),
                     next |-> IF split THEN last + 1 ELSE last,
                     out_reg |-> ShiftRight(in_reg, NUM_FIRST_BITS(bit_size, s.carry_over)),
                     carry_over |-> NEW_CARRY_OVER(bit_size, s.carry_over)]
    IN pack[bit_size].out

(* The integers that one input register completes; a split integer takes   *)
(* its last bits from the register that follows.                           *)
Unpack128Bit(in, bit_size) ==
    LET unpack[n \in 0..bit_size] ==
            IF n = 0 THEN [out |-> <<>>, carry_over |-> 0]
            ELSE LET s == unpack[n - 1]
                     at == NEXT_OFFSET(bit_size, s.carry_over)
                     whole == [i \in 1..I_MAX(bit_size, s.carry_over) |->
                                Masked(ShiftRight(in[n], s.carry_over + (i - 1) * bit_size), bit_size)]
                     split == IF at >= WordBits THEN <<>>
                              ELSE << OrRegister(ShiftRight(in[n], at),
                                         Masked(ShiftLeft(in[n + 1],
                                                          NUM_FIRST_BITS(bit_size, s.carry_over)),
                                                bit_size)) >>
                 IN [out |-> s.out \o whole \o split,
                     carry_over |-> NEW_CARRY_OVER(bit_size, s.carry_over)]
    IN FlattenSeq(unpack[bit_size].out)

pack_block(in, bit_size) ==
    IF bit_size = 0 THEN <<>> ELSE Pack128Bit(in, bit_size)

(* data[offset + 1] is the first register of the block.                    *)
unpack_block(data, offset, bit_size) ==
    IF bit_size = 0 THEN [i \in 1..block_size |-> 0]
    ELSE Unpack128Bit(SubSeq(data, offset + 1, offset + bit_size), bit_size)

-----------------------------------------------------------------------------
(* SimdBp128Compressor: a meta block is one register with the bit sizes of *)
(* its blocks, followed by the packed blocks.                              *)

Block(meta_block, b) == SubSeq(meta_block, (b - 1) * block_size + 1, b * block_size)

BitsNeeded(block) ==
    LET bit_collector == FoldLeft(LAMBDA acc, v : acc | v, 0, block)
    IN Min({n \in 0..WordBits : bit_collector < 2^n})

_bits_needed_per_block(meta_block) ==
    [b \in 1..BlocksInMetaBlock |-> BitsNeeded(Block(meta_block, b))]

_pack_blocks(meta_block, num_blocks, bits_needed) ==
    FlattenSeq([b \in 1..num_blocks |-> pack_block(Block(meta_block, b), bits_needed[b])])

_pack_meta_block(meta_block) ==
    LET bits_needed == _bits_needed_per_block(meta_block)
    IN << bits_needed >> \o _pack_blocks(meta_block, BlocksInMetaBlock, bits_needed)

_pack_incomplete_meta_block(pending) ==
    LET filled == [i \in 1..meta_block_size |-> IF i <= Len(pending) THEN pending[i] ELSE 0]
        bits_needed == _bits_needed_per_block(filled)
        num_blocks_left == (Len(pending) + block_size - 1) \div block_size
    IN << bits_needed >> \o _pack_blocks(filled, num_blocks_left, bits_needed)

SimdBp128Encode(vector) ==
    LET complete == Len(vector) \div meta_block_size
        pending == SubSeq(vector, complete * meta_block_size + 1, Len(vector))
    IN FlattenSeq([k \in 1..complete |->
           _pack_meta_block(SubSeq(vector, (k - 1) * meta_block_size + 1, k * meta_block_size))])
       \o IF pending = <<>> THEN <<>> ELSE _pack_incomplete_meta_block(pending)

-----------------------------------------------------------------------------
(* SimdBp128Iterator: decodes one meta block ahead.                        *)

_unpack_next_meta_block(data, data_index) ==
    LET info == data[data_index + 1]
        unpack[b \in 0..BlocksInMetaBlock] ==
            IF b = 0 THEN [values |-> <<>>, data_index |-> data_index + 1]
            ELSE LET s == unpack[b - 1]
                 IN [values |-> s.values \o unpack_block(data, s.data_index, info[b]),
                     data_index |-> s.data_index + info[b]]
    IN unpack[BlocksInMetaBlock]

(* From begin() to end(): the next meta block is unpacked when the last    *)
(* one has been read and there are more integers.                          *)
SimdBp128Iterate(data, size) ==
    LET unpacked[k \in 0..((size + meta_block_size - 1) \div meta_block_size)] ==
            IF k = 0 THEN [values |-> <<>>, data_index |-> 0]
            ELSE LET s == unpacked[k - 1]
                     next == _unpack_next_meta_block(data, s.data_index)
                 IN [values |-> s.values \o next.values, data_index |-> next.data_index]
        all == unpacked[(size + meta_block_size - 1) \div meta_block_size].values
    IN SubSeq(all, 1, size)

-----------------------------------------------------------------------------
(* SimdBp128Decompressor: point access through a cached block and a cached *)
(* meta block.  NoIndex stands for the maximum of size_t.                  *)

NoIndex == -1

NewDecompressor ==
    [cached_meta_info_offset |-> 0, cached_meta_block_first_index |-> NoIndex,
     cached_block_first_index |-> NoIndex, cached_meta_info |-> [b \in 1..BlocksInMetaBlock |-> 0],
     cached_block |-> [i \in 1..block_size |-> 0]]

_is_index_within_cached_block(d, i) ==
    /\ d.cached_block_first_index # NoIndex
    /\ d.cached_block_first_index <= i
    /\ i < d.cached_block_first_index + block_size

_is_index_within_cached_meta_block(d, i) ==
    /\ d.cached_meta_block_first_index # NoIndex
    /\ d.cached_meta_block_first_index <= i
    /\ i < d.cached_meta_block_first_index + meta_block_size

_is_index_after_or_within_cached_meta_block(d, i) ==
    /\ d.cached_meta_block_first_index # NoIndex
    /\ d.cached_meta_block_first_index <= i

_unpack_block(data, d, block_index) ==
    LET relative_data_offset ==
            1 + FoldLeft(LAMBDA acc, v : acc + v, 0, SubSeq(d.cached_meta_info, 1, block_index))
    IN [d EXCEPT !.cached_block = unpack_block(data, d.cached_meta_info_offset + relative_data_offset,
                                               d.cached_meta_info[block_index + 1]),
                 !.cached_block_first_index =
                     d.cached_meta_block_first_index + block_index * block_size]

_get_within_cached_meta_block(data, d, i) ==
    _unpack_block(data, d, (i - d.cached_meta_block_first_index) \div block_size)

_read_meta_info(data, d, meta_info_offset) ==
    [d EXCEPT !.cached_meta_info = data[meta_info_offset + 1]]

_read_meta_info_from_offset(data, d, relative_meta_block_index) ==
    LET skip[n \in 0..relative_meta_block_index] ==
            IF n = 0 THEN d
            ELSE LET s == skip[n - 1]
                     offset == s.cached_meta_info_offset + 1
                               + FoldLeft(LAMBDA acc, v : acc + v, 0, s.cached_meta_info)
                 IN [_read_meta_info(data, s, offset) EXCEPT !.cached_meta_info_offset = offset]
    IN [skip[relative_meta_block_index] EXCEPT
           !.cached_meta_block_first_index = @ + relative_meta_block_index * meta_block_size]

_clear_meta_block_cache(d) ==
    [d EXCEPT !.cached_meta_info_offset = 0, !.cached_meta_block_first_index = 0]

(* The decompressor after get(i); the value is at i in its cached block.   *)
get(data, d, i) ==
    IF _is_index_within_cached_block(d, i) THEN d
    ELSE IF _is_index_within_cached_meta_block(d, i) THEN _get_within_cached_meta_block(data, d, i)
    ELSE IF _is_index_after_or_within_cached_meta_block(d, i)
    THEN _get_within_cached_meta_block(data,
             _read_meta_info_from_offset(data, d,
                 (i - d.cached_meta_block_first_index) \div meta_block_size), i)
    ELSE LET cleared == _clear_meta_block_cache(d)
             first == _read_meta_info(data, cleared, cleared.cached_meta_info_offset)
         IN _get_within_cached_meta_block(data,
                _read_meta_info_from_offset(data, first, i \div meta_block_size), i)

ValueAt(d, i) == d.cached_block[i - d.cached_block_first_index + 1]

-----------------------------------------------------------------------------
(***************************************************************************)
(* The segment encodings of src/lib/storage: value, dictionary, fixed      *)
(* string dictionary, run length and frame of reference segments, their    *)
(* encoders, and the three ways the operators read them (get_typed_value,  *)
(* the sequential iterators and the point access iterators).               *)
(*                                                                         *)
(* A segment's content is a sequence of cells, each a value or Null.  A    *)
(* string is a sequence of characters, naturals above the terminator 0.    *)
(***************************************************************************)

CONSTANTS ForBlockSize   \* FrameOfReferenceSegment::block_size

INVALID_VALUE_ID == 2147483647   \* above every value id, as the maximum of uint32_t is

-----------------------------------------------------------------------------
(* ValueSegment.                                                           *)

ValueSegment(nullable) == [nullable |-> nullable, values |-> <<>>, null_values |-> <<>>]

(* default is T{}, what a NULL leaves in the values vector.                *)
ValueSegmentAppend(segment, cell, default) ==
    IF segment.nullable
    THEN [segment EXCEPT !.values = Append(@, IF cell = Null THEN default ELSE cell),
                         !.null_values = Append(@, cell = Null)]
    ELSE [segment EXCEPT !.values = Append(@, cell)]

(* append() asserts that a NULL only goes to a nullable segment.           *)
CanAppend(segment, cell) == segment.nullable \/ cell # Null

is_null(segment, i) == segment.nullable /\ segment.null_values[i]
ValueSegmentGet(segment, i) == IF is_null(segment, i) THEN Null ELSE segment.values[i]

-----------------------------------------------------------------------------
(* DictionaryEncoder.                                                      *)

LessInt(a, b) == a < b

LessString(a, b) ==
    LET common == Min({Len(a), Len(b)})
        diff == {i \in 1..common : a[i] # b[i]}
    IN IF diff = {} THEN Len(a) < Len(b) ELSE a[Min(diff)] < b[Min(diff)]

(* Swaps the values of NULL cells to the back, from the last to the first, *)
(* and erases them.                                                        *)
RemoveNulls(segment) ==
    LET n == Len(segment.values)
        swap(s, i, j) == [k \in DOMAIN s |-> s[CASE k = i -> j [] k = j -> i [] OTHER -> k]]
        scan[i \in 1..(n + 1)] ==
            IF i = n + 1 THEN [dictionary |-> segment.values, erase_from |-> n + 1]
            ELSE LET later == scan[i + 1]
                 IN IF segment.null_values[i]
                    THEN [dictionary |-> swap(later.dictionary, i, later.erase_from - 1),
                          erase_from |-> later.erase_from - 1]
                    ELSE later
    IN IF ~segment.nullable THEN segment.values
       ELSE SubSeq(scan[1].dictionary, 1, scan[1].erase_from - 1)

(* std::sort followed by std::unique.                                      *)
SortUnique(values, Less(_, _)) == SetToSortSeq(ToSet(values), Less)

(* The position of the first element of a sorted dictionary that is not    *)
(* smaller than value, counted from 0.                                     *)
LowerBound(dictionary, value, Less(_, _)) == Cardinality({i \in DOMAIN dictionary : Less(dictionary[i], value)})
UpperBound(dictionary, value, Less(_, _)) == Cardinality({i \in DOMAIN dictionary : ~Less(value, dictionary[i])})

_get_value_id(dictionary, value, Less(_, _)) == LowerBound(dictionary, value, Less)

(* The NULL's id is the dictionary's size, one past the last value id.     *)
AttributeVector(segment, dictionary, null_value_id, Less(_, _)) ==
    [i \in DOMAIN segment.values |->
        IF is_null(segment, i) THEN null_value_id
                               ELSE _get_value_id(dictionary, segment.values[i], Less)]

(* Announced to the vector compression: one more than the largest id.      *)
MaxValueId(dictionary_size) == dictionary_size + 1

EncodeDictionary(segment, Less(_, _)) ==
    LET dictionary == SortUnique(RemoveNulls(segment), Less)
        null_value_id == Len(dictionary)
    IN [dictionary |-> dictionary, null_value_id |-> null_value_id,
        attribute_vector |-> FixedSizeByteAlignedEncode(
            AttributeVector(segment, dictionary, null_value_id, Less), {MaxValueId(Len(dictionary))})]

DictionaryGet(segment, i) ==
    LET value_id == segment.attribute_vector[i]
    IN IF value_id = segment.null_value_id THEN Null ELSE segment.dictionary[value_id + 1]

BoundOrInvalid(dictionary, bound) == IF bound = Len(dictionary) THEN INVALID_VALUE_ID ELSE bound

lower_bound(segment, value, Less(_, _)) ==
    BoundOrInvalid(segment.dictionary, LowerBound(segment.dictionary, value, Less))
upper_bound(segment, value, Less(_, _)) ==
    BoundOrInvalid(segment.dictionary, UpperBound(segment.dictionary, value, Less))

-----------------------------------------------------------------------------
(* FixedString and FixedStringVector: all strings in one vector of         *)
(* characters, each padded with terminators to the longest one's length.   *)

_calculate_fixed_string_length(values) == Max({0} \union {Len(values[i]) : i \in DOMAIN values})

PadString(string, length) ==
    [i \in 1..length |-> IF i <= Len(string) THEN string[i] ELSE 0]

FixedStringVector(values, length) ==
    [string_length |-> length,
     chars |-> IF length = 0 THEN <<0>>
               ELSE FlattenSeq([i \in DOMAIN values |-> PadString(values[i], length)])]

FixedStringVectorSize(v) == IF v.string_length = 0 THEN 1 ELSE Len(v.chars) \div v.string_length

(* What lies between begin() and end(): nothing when all strings are empty. *)
FixedStringElements(v) ==
    [i \in 1..(IF v.string_length = 0 THEN 0 ELSE FixedStringVectorSize(v)) |->
        SubSeq(v.chars, (i - 1) * v.string_length + 1, i * v.string_length)]

(* FixedString::string(): up to the first terminator.                      *)
FixedStringToString(mem) == SelectSeq(mem, LAMBDA c : c # 0)

LessFixedString(a, b) == LessString(FixedStringToString(a), FixedStringToString(b))

(* get_string_at, which reads the character before the buffer when all     *)
(* strings are empty; both outcomes of its test then yield the empty one.  *)
get_string_at(v, pos) ==
    IF v.string_length = 0 THEN <<>>
    ELSE LET mem == SubSeq(v.chars, pos * v.string_length + 1, (pos + 1) * v.string_length)
         IN IF mem[v.string_length] = 0 THEN FixedStringToString(mem) ELSE mem

EncodeFixedString(segment) ==
    LET length == _calculate_fixed_string_length(segment.values)
        all == FixedStringVector(segment.values, length)
        padded == [segment EXCEPT !.values = FixedStringElements(all)]
        dictionary == IF length = 0 THEN all
                      ELSE [all EXCEPT !.chars =
                               FlattenSeq(SortUnique(RemoveNulls(padded), LessFixedString))]
        strings == [i \in DOMAIN FixedStringElements(dictionary) |->
                       FixedStringToString(FixedStringElements(dictionary)[i])]
        null_value_id == FixedStringVectorSize(dictionary)
    IN [dictionary |-> dictionary, strings |-> strings, null_value_id |-> null_value_id,
        attribute_vector |-> FixedSizeByteAlignedEncode(
            AttributeVector(segment, strings, null_value_id, LessString),
            {MaxValueId(FixedStringVectorSize(dictionary))})]

FixedStringGet(segment, i) ==
    LET value_id == segment.attribute_vector[i]
    IN IF value_id = segment.null_value_id THEN Null ELSE get_string_at(segment.dictionary, value_id)

FixedStringLowerBound(segment, value) ==
    BoundOrInvalid(segment.strings, LowerBound(segment.strings, value, LessString))
FixedStringUpperBound(segment, value) ==
    BoundOrInvalid(segment.strings, UpperBound(segment.strings, value, LessString))

-----------------------------------------------------------------------------
(* RunLengthEncoder and RunLengthSegment: one value and the last position  *)
(* of every run.  Positions are counted from 0.                            *)

SameRun(value, is_null_value, previous, is_previous_null) ==
    is_previous_null = is_null_value /\ (is_previous_null \/ previous = value)

EncodeRunLength(segment) ==
    LET extend(runs, i) ==
            LET last == Len(runs)
            IN IF i > 1 /\ SameRun(segment.values[i], is_null(segment, i),
                                   segment.values[i - 1], is_null(segment, i - 1))
               THEN [runs EXCEPT ![last].end_position = i - 1]
               ELSE Append(runs, [value |-> segment.values[i], is_null |-> is_null(segment, i),
                                  end_position |-> i - 1])
    IN FoldLeft(extend, <<>>, [i \in DOMAIN segment.values |-> i])

RunLengthSize(runs) == IF runs = <<>> THEN 0 ELSE runs[Len(runs)].end_position + 1

(* std::lower_bound on the end positions up to the index limit.            *)
RunLowerBound(runs, limit, chunk_offset) ==
    Cardinality({k \in 1..limit : runs[k].end_position < chunk_offset})

RunCell(run) == IF run.is_null THEN Null ELSE run.value

RunLengthGet(runs, i) == RunCell(runs[RunLowerBound(runs, Len(runs), i - 1) + 1])

(* The sequential iterator steps to the next run behind an end position.   *)
RunLengthIterate(runs) ==
    LET at[position \in 0..RunLengthSize(runs)] ==
            IF position = 0 THEN [run |-> 1, out |-> <<>>]
            ELSE LET s == at[position - 1]
                 IN [run |-> IF position > runs[s.run].end_position THEN s.run + 1 ELSE s.run,
                     out |-> Append(s.out, RunCell(runs[s.run]))]
    IN at[RunLengthSize(runs)].out

(* The point access iterator remembers the offset and the run of its       *)
(* previous access and searches before or behind it.                       *)
RunLengthCursor(runs) == [prev_chunk_offset |-> RunLengthSize(runs), prev_index |-> Len(runs)]

(* Mutant: the search goes on from the previous run whatever the offset.   *)
SeekForward(runs, cursor, chunk_offset) ==
    LET behind == {k \in cursor.prev_index..(Len(runs) - 1) : runs[k + 1].end_position >= chunk_offset}
    IN [prev_chunk_offset |-> chunk_offset,
        prev_index |-> IF cursor.prev_index = Len(runs) THEN RunLowerBound(runs, cursor.prev_index, chunk_offset)
                       ELSE Min(behind \union {Len(runs)})]

RunLengthSeek(runs, cursor, chunk_offset) ==
    LET behind == {k \in cursor.prev_index..(Len(runs) - 1) : runs[k + 1].end_position >= chunk_offset}
    IN [prev_chunk_offset |-> chunk_offset,
        prev_index |-> IF chunk_offset < cursor.prev_chunk_offset
                       THEN RunLowerBound(runs, cursor.prev_index, chunk_offset)
                       ELSE Min(behind \union {Len(runs)})]

-----------------------------------------------------------------------------
(* FrameOfReferenceEncoder and FrameOfReferenceSegment: the minimum of     *)
(* every block of ForBlockSize values, and the offsets from it.            *)

BlockOf(i) == (i - 1) \div ForBlockSize + 1

EncodeFrameOfReference(segment) ==
    LET n == Len(segment.values)
        num_blocks == (n + ForBlockSize - 1) \div ForBlockSize
        value(i) == IF is_null(segment, i) THEN 0 ELSE segment.values[i]
        block_minima == [b \in 1..num_blocks |-> Min({value(i) : i \in {j \in 1..n : BlockOf(j) = b}})]
        offset_values == [i \in 1..n |-> value(i) - block_minima[BlockOf(i)]]
        max_offset == Max({0} \union ToSet(offset_values))
    IN [block_minima |-> block_minima, null_values |-> [i \in 1..n |-> is_null(segment, i)],
        offset_values |-> FixedSizeByteAlignedEncode(offset_values, {max_offset})]

FrameOfReferenceGet(segment, i) ==
    IF segment.null_values[i] THEN Null
    ELSE segment.offset_values[i] + segment.block_minima[BlockOf(i)]

(* The sequential iterator counts the position within the frame.           *)
FrameOfReferenceIterate(segment) ==
    LET n == Len(segment.null_values)
        at[i \in 0..n] ==
            IF i = 0 THEN [block |-> 1, index_within_frame |-> 0, out |-> <<>>]
            ELSE LET s == at[i - 1]
                     next == s.index_within_frame + 1
                     full == next >= ForBlockSize
                 IN [block |-> IF full THEN s.block + 1 ELSE s.block,
                     index_within_frame |-> IF full THEN 0 ELSE next,
                     out |-> Append(s.out, IF segment.null_values[i] THEN Null
                                           ELSE segment.offset_values[i] + segment.block_minima[s.block])]
    IN at[n].out

-----------------------------------------------------------------------------
(* A column's segment under one of the encodings, and its iterables: what  *)
(* with_iterators hands out, sequentially or for a list of offsets.        *)

IntEncodings == {"Unencoded", "Dictionary", "RunLength", "FrameOfReference"}

(* encode_segment                                                          *)
Encode(encoding, segment) ==
    [encoding |-> encoding,
     data |-> CASE encoding = "Unencoded" -> segment
                [] encoding = "Dictionary" -> EncodeDictionary(segment, LessInt)
                [] encoding = "RunLength" -> EncodeRunLength(segment)
                [] encoding = "FrameOfReference" -> EncodeFrameOfReference(segment)]

SegmentSize(s) ==
    CASE s.encoding = "Unencoded" -> Len(s.data.values)
      [] s.encoding = "Dictionary" -> Len(s.data.attribute_vector)
      [] s.encoding = "RunLength" -> RunLengthSize(s.data)
      [] s.encoding = "FrameOfReference" -> Len(s.data.null_values)

get_typed_value(s, i) ==
    CASE s.encoding = "Unencoded" -> ValueSegmentGet(s.data, i)
      [] s.encoding = "Dictionary" -> DictionaryGet(s.data, i)
      [] s.encoding = "RunLength" -> RunLengthGet(s.data, i)
      [] s.encoding = "FrameOfReference" -> FrameOfReferenceGet(s.data, i)

SequentialCells(s) ==
    CASE s.encoding = "RunLength" -> RunLengthIterate(s.data)
      [] s.encoding = "FrameOfReference" -> FrameOfReferenceIterate(s.data)
      [] OTHER -> [i \in 1..SegmentSize(s) |-> get_typed_value(s, i)]

PointAccessCells(s, offsets) ==
    LET cursor[k \in 0..Len(offsets)] ==
            IF k = 0 THEN RunLengthCursor(s.data)
                     ELSE RunLengthSeek(s.data, cursor[k - 1], offsets[k] - 1)
    IN [k \in DOMAIN offsets |-> IF s.encoding = "RunLength"
                                 THEN RunCell(s.data[cursor[k].prev_index + 1])
                                 ELSE get_typed_value(s, offsets[k])]

=============================================================================
