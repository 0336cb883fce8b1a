---------------------------- MODULE ImportExport ----------------------------
(***************************************************************************)
(* The binary files of ExportBinary and ImportBinary and the CSV files of  *)
(* ExportCsv, CsvWriter, CsvParser and CsvConverter.                       *)
(*                                                                         *)
(* A table is a record of its max_chunk_size, its columns (name, type      *)
(* "int" or "string", nullable) and its chunks, a chunk being a sequence   *)
(* of segments.  A segment is of kind "Value", "Dictionary", "FixedString" *)
(* or "Reference"; the last holds the cells its position list names.       *)
(* A file is a sequence of units: a number, a Boolean byte, a length or a  *)
(* character takes one.  A string is a sequence of characters.             *)
(***************************************************************************)
EXTENDS Encodings

TypeDefault(type) == IF type = "string" THEN <<>> ELSE DefaultValue
TypeLess(type, a, b) == IF type = "string" THEN LessString(a, b) ELSE a < b

FromCells(cells, nullable, default) ==
    FoldLeft(LAMBDA s, cell : ValueSegmentAppend(s, cell, default), ValueSegment(nullable), cells)

MakeSegment(kind, column, cells) ==
    LET values == FromCells(cells, column.nullable, TypeDefault(column.type))
    IN [kind |-> kind,
        data |-> CASE kind = "Value" -> values
                   [] kind = "Dictionary" -> EncodeDictionary(values, LAMBDA a, b : TypeLess(column.type, a, b))
                   [] kind = "FixedString" -> EncodeFixedString(values)
                   [] kind = "Reference" -> cells]

SegmentCells(s) ==
    CASE s.kind = "Value" -> [i \in DOMAIN s.data.values |-> ValueSegmentGet(s.data, i)]
      [] s.kind = "Dictionary" -> [i \in DOMAIN s.data.attribute_vector |-> DictionaryGet(s.data, i)]
      [] s.kind = "FixedString" -> [i \in DOMAIN s.data.attribute_vector |-> FixedStringGet(s.data, i)]
      [] s.kind = "Reference" -> s.data

\* What the queries see of a table.
Content(table) == [columns |-> table.columns, max_chunk_size |-> table.max_chunk_size,
                   cells |-> [c \in DOMAIN table.chunks |->
                                 [i \in DOMAIN table.columns |-> SegmentCells(table.chunks[c][i])]]]

-----------------------------------------------------------------------------
(* ExportBinary                                                            *)

export_string_values(values) == [i \in DOMAIN values |-> Len(values[i])] \o FlattenSeq(values)

export_values(type, values) == IF type = "string" THEN export_string_values(values) ELSE values

BoolAsByte(bools) == [i \in DOMAIN bools |-> IF bools[i] THEN 1 ELSE 0]

\* data_type_to_string, the names shortened to a character.
TypeName(type) == IF type = "string" THEN <<2>> ELSE <<1>>

_write_header(table) ==
    LET n == Len(table.columns)
    IN <<table.max_chunk_size, Len(table.chunks), n>>
       \o export_string_values([i \in 1..n |-> TypeName(table.columns[i].type)])
       \o BoolAsByte([i \in 1..n |-> table.columns[i].nullable])
       \o export_string_values([i \in 1..n |-> table.columns[i].name])

ExportValueSegment(type, data) ==
    <<0>> \o (IF data.nullable THEN BoolAsByte(data.null_values) ELSE <<>>) \o export_values(type, data.values)

\* Written as a value segment without the NULL flags, whatever the column says.
ExportReferenceSegment(type, cells) ==
    <<0>> \o export_values(type, [i \in DOMAIN cells |-> IF cells[i] = Null THEN TypeDefault(type) ELSE cells[i]])

\* The attribute vector's width is read back and decides how wide an id is.
ExportDictionarySegment(type, dictionary, attribute_vector) ==
    <<1, 1, Len(dictionary)>> \o export_values(type, dictionary) \o attribute_vector

ExportSegment(type, s) ==
    CASE s.kind = "Value" -> ExportValueSegment(type, s.data)
      [] s.kind = "Reference" -> ExportReferenceSegment(type, s.data)
      [] s.kind = "Dictionary" -> ExportDictionarySegment(type, s.data.dictionary, s.data.attribute_vector)
      [] s.kind = "FixedString" -> ExportDictionarySegment(type, s.data.strings, s.data.attribute_vector)

_write_chunk(table, chunk) ==
    <<Len(SegmentCells(chunk[1]))>>
    \o FlattenSeq([i \in DOMAIN chunk |-> ExportSegment(table.columns[i].type, chunk[i])])

ExportBinary(table) ==
    _write_header(table) \o FlattenSeq([c \in DOMAIN table.chunks |-> _write_chunk(table, table.chunks[c])])

-----------------------------------------------------------------------------
(* ImportBinary: a reader holds the rest of the file; ok turns FALSE when  *)
(* a read runs past the end, which throws, or a width is unknown.          *)

_read_units(r, n) ==
    IF r.ok /\ n <= Len(r.rest)
    THEN [got |-> SubSeq(r.rest, 1, n), r |-> [ok |-> TRUE, rest |-> SubSeq(r.rest, n + 1, Len(r.rest))]]
    ELSE [got |-> [i \in 1..n |-> 0], r |-> [ok |-> FALSE, rest |-> <<>>]]

_read_value(r) == LET read == _read_units(r, 1) IN [got |-> read.got[1], r |-> read.r]

_read_string_values(r, count) ==
    LET lengths == _read_units(r, count)
        start(i) == FoldLeft(+, 0, SubSeq(lengths.got, 1, i - 1))
        buffer == _read_units(lengths.r, start(count + 1))
    IN [got |-> [i \in 1..count |-> SubSeq(buffer.got, start(i) + 1, start(i) + lengths.got[i])], r |-> buffer.r]

_read_values(type, r, count) == IF type = "string" THEN _read_string_values(r, count) ELSE _read_units(r, count)

_read_header(r) ==
    LET sizes == _read_units(r, 3)
        n == sizes.got[3]
        data_types == _read_string_values(sizes.r, n)
        column_nullables == _read_units(data_types.r, n)
        column_names == _read_string_values(column_nullables.r, n)
    IN [max_chunk_size |-> sizes.got[1], chunk_count |-> sizes.got[2],
        columns |-> [i \in 1..n |-> [name |-> column_names.got[i],
                                     type |-> IF data_types.got[i] = TypeName("string") THEN "string" ELSE "int",
                                     nullable |-> column_nullables.got[i] # 0]],
        r |-> column_names.r]

_import_value_segment(r, row_count_, column) ==
    LET nullables == _read_units(r, IF column.nullable THEN row_count_ ELSE 0)
        values == _read_values(column.type, nullables.r, row_count_)
    IN [segment |-> [kind |-> "Value",
                     data |-> [nullable |-> column.nullable, values |-> values.got,
                               null_values |-> [i \in DOMAIN nullables.got |-> nullables.got[i] # 0]]],
        r |-> values.r]

\* The NULL's id is not in the file: it is taken to be the dictionary's size.
_import_dictionary_segment(r, row_count_, column) ==
    LET width == _read_value(r)
        dictionary_size == _read_value(width.r)
        dictionary == _read_values(column.type, dictionary_size.r, dictionary_size.got)
        attribute_vector == _read_units(dictionary.r, row_count_)
    IN [segment |-> [kind |-> "Dictionary",
                     data |-> [dictionary |-> dictionary.got, null_value_id |-> dictionary_size.got,
                               attribute_vector |-> attribute_vector.got]],
        r |-> [attribute_vector.r EXCEPT !.ok = @ /\ width.got \in {1, 2, 4}]]

_import_segment(r, row_count_, column) ==
    LET column_type == _read_value(r)
        read == IF column_type.got = 1 THEN _import_dictionary_segment(column_type.r, row_count_, column)
                                       ELSE _import_value_segment(column_type.r, row_count_, column)
    IN [read EXCEPT !.r.ok = @ /\ column_type.got \in {0, 1}]

_import_chunk(state, columns) ==
    LET rows == _read_value(state.r)
        add(s, column) == LET read == _import_segment(s.r, rows.got, column)
                          IN [segments |-> Append(s.segments, read.segment), r |-> read.r]
        all == FoldLeft(add, [segments |-> <<>>, r |-> rows.r], columns)
    IN [chunks |-> Append(state.chunks, all.segments), r |-> all.r]

\* The imported table, and whether the import went through without an exception.
ImportBinary(file) ==
    LET header == _read_header([ok |-> TRUE, rest |-> file])
        read == FoldLeft(LAMBDA state, c : _import_chunk(state, header.columns),
                         [chunks |-> <<>>, r |-> header.r], [c \in 1..header.chunk_count |-> c])
    IN [ok |-> read.r.ok,
        table |-> [max_chunk_size |-> header.max_chunk_size, columns |-> header.columns, chunks |-> read.chunks]]

-----------------------------------------------------------------------------
(* ExportCsv and CsvWriter.  The characters with a meaning; a digit d is   *)
(* the character 10 + d.                                                   *)

Separator == 1
Delimiter == 2
Quote == 3
Backslash == 4

\* ParseConfig{}; the escape character is the quote itself unless a meta file says otherwise.
ParseConfig(escape, rfc_mode) ==
    [delimiter |-> Delimiter, separator |-> Separator, quote |-> Quote, escape |-> escape,
     delimiter_escape |-> Backslash, rfc_mode |-> rfc_mode]

_escape(string, config) ==
    FlattenSeq([i \in DOMAIN string |->
        IF string[i] = config.quote THEN <<config.escape, string[i]>> ELSE <<string[i]>>])

_write_string_value(string, config) == <<config.quote>> \o _escape(string, config) \o <<config.quote>>

_write_value(type, cell, config) ==
    IF cell = Null THEN <<>>
    ELSE IF type = "string" THEN _write_string_value(cell, config) ELSE <<10 + cell>>

write(type, cell, current_column_count, config) ==
    (IF current_column_count > 0 THEN <<config.separator>> ELSE <<>>) \o _write_value(type, cell, config)

end_line(config) == <<config.delimiter>>

_generate_content_file(table, config) ==
    LET line(cells, o) == FlattenSeq([i \in DOMAIN cells |->
                              write(table.columns[i].type, cells[i][o], i - 1, config)]) \o end_line(config)
        lines(cells) == FlattenSeq([o \in DOMAIN cells[1] |-> line(cells, o)])
    IN FlattenSeq([c \in DOMAIN table.chunks |-> lines(Content(table).cells[c])])

-----------------------------------------------------------------------------
(* CsvParser and CsvConverter.                                             *)

\* The ends of the fields of the first max_chunk_size rows, counted from 1; ok is
\* FALSE when a row has too many or too few fields.
_find_fields_in_chunk(content, column_count, max_chunk_size, config) ==
    LET special == {config.separator, config.delimiter, config.quote}
        step(s, pos) ==
            LET elem == content[pos]
                quote_is_escaped == config.quote # config.escape /\ pos > 1 /\ content[pos - 1] = config.escape
                in_quotes == IF elem = config.quote /\ ~quote_is_escaped THEN ~s.in_quotes ELSE s.in_quotes
                row_end == elem = config.delimiter /\ ~in_quotes
            IN IF ~s.ok \/ s.rows >= max_chunk_size \/ elem \notin special THEN s
               ELSE IF row_end /\ s.field_count # column_count THEN [s EXCEPT !.ok = FALSE]
               ELSE LET field_end == ~in_quotes /\ elem # config.quote
                    IN [s EXCEPT !.in_quotes = in_quotes,
                                 !.rows = IF row_end THEN @ + 1 ELSE @,
                                 !.field_count = (IF row_end THEN 0 ELSE @) + (IF field_end THEN 1 ELSE 0),
                                 !.field_ends = IF field_end THEN Append(@, pos) ELSE @]
    IN FoldLeft(step, [ok |-> TRUE, in_quotes |-> FALSE, rows |-> 0, field_count |-> 1, field_ends |-> <<>>],
                [pos \in DOMAIN content |-> pos])

\* Replaces an escaped line break by the line break alone.
_sanitize_field(field, config) ==
    FoldLeft(LAMBDA out, c : IF c = config.delimiter /\ out # <<>> /\ out[Len(out)] = config.delimiter_escape
                             THEN Append(Front(out), c) ELSE Append(out, c), <<>>, field)

unescape(field, config) ==
    IF field = <<>> \/ Head(field) # config.quote THEN field
    ELSE FoldLeft(LAMBDA s, c : IF c = config.escape /\ ~s.escaped
                                THEN [s EXCEPT !.escaped = TRUE]
                                ELSE [out |-> Append(s.out, c), escaped |-> FALSE],
                  [out |-> <<>>, escaped |-> FALSE], SubSeq(field, 2, Len(field) - 1)).out

\* CsvConverter::insert; a field of an int column is converted by std::stoi, which
\* throws (ok FALSE) unless the field is a number, and must not be quoted.
CsvConverterInsert(field, column, config) ==
    IF column.nullable /\ field = <<>> THEN [ok |-> TRUE, cell |-> Null]
    ELSE IF column.type = "string" THEN [ok |-> TRUE, cell |-> unescape(field, config)]
    ELSE IF field # unescape(field, config) \/ Len(field) # 1 \/ (Len(field) = 1 /\ field[1] < 10)
    THEN [ok |-> FALSE, cell |-> DefaultValue]
    ELSE [ok |-> TRUE, cell |-> field[1] - 10]

_parse_into_chunk(csv_chunk, field_ends, columns, config) ==
    LET n == Len(columns)
        rows == Len(field_ends) \div n
        start(k) == IF k = 1 THEN 1 ELSE field_ends[k - 1] + 1
        field(k) == SubSeq(csv_chunk, start(k), field_ends[k] - 1)
        text(k) == IF config.rfc_mode THEN field(k) ELSE _sanitize_field(field(k), config)
        parsed(o, i) == CsvConverterInsert(text((o - 1) * n + i), columns[i], config)
    IN [ok |-> \A o \in 1..rows, i \in 1..n : parsed(o, i).ok,
        chunk |-> [i \in 1..n |-> MakeSegment("Value", columns[i], [o \in 1..rows |-> parsed(o, i).cell])]]

\* CsvParser::parse: the loop over the content, one parsing task per chunk.  The empty
\* content gets a delimiter as well, and is then one line with one empty field.
CsvParse(file, columns, max_chunk_size, config) ==
    LET content == IF file = <<>> \/ file[Len(file)] # config.delimiter
                   THEN Append(file, config.delimiter) ELSE file
        RECURSIVE ParseFrom(_)
        ParseFrom(view) ==
            IF view = <<>> THEN [ok |-> TRUE, chunks |-> <<>>]
            ELSE LET found == _find_fields_in_chunk(view, Len(columns), max_chunk_size, config)
                 IN IF ~found.ok \/ found.field_ends = <<>> THEN [ok |-> FALSE, chunks |-> <<>>]
                    ELSE LET end == found.field_ends[Len(found.field_ends)]
                             parsed == _parse_into_chunk(SubSeq(view, 1, end - 1), found.field_ends, columns, config)
                             rest == ParseFrom(SubSeq(view, end + 1, Len(view)))
                         IN [ok |-> parsed.ok /\ rest.ok, chunks |-> <<parsed.chunk>> \o rest.chunks]
        all == ParseFrom(content)
    IN [ok |-> all.ok, table |-> [max_chunk_size |-> max_chunk_size, columns |-> columns, chunks |-> all.chunks]]
=============================================================================
