----------------------------- MODULE MCStorage -----------------------------
(***************************************************************************)
(* How rows are kept, on small instances: compressed vectors, encoded      *)
(* segments and the indexes on them, binary and CSV files, the growth of a *)
(* table under Inserts, loading, compression and migration, the placement  *)
(* of chunks on NUMA nodes, and the container of the hash join's           *)
(* partitions.  They share no state here; a behaviour is one of the one    *)
(* that is its subject.  Vectors, segments and files are read in the end.  *)
(***************************************************************************)
EXTENDS Indexes, ImportExport, UninitializedVector, ChunkStorage, InsertOperator

CONSTANTS i1, i2, i3,
          MaxCounter, MaxRounds   \* bounds: accesses of a chunk, runs of the metrics collection

VARIABLES
  subject,
  vector, data, decoder,   \* an integer vector, its SIMD-BP128 form and a decompressor
  segment, second,         \* the segments of two columns
  strings,                 \* a segment of strings
  rows, kind, config,      \* a table's rows, how its segments are stored, and a CSV dialect
  read,                    \* what is stored has been read
  rounds

vectorVars == <<vector, data, decoder>>
segmentVars == <<segment, second, strings>>
fileVars == <<rows, kind, config>>
numaVars == <<placementVars, rounds>>

inputVars == <<vectorVars, segmentVars, fileVars>>

vars == <<subject, read, inputVars, vectors, storageVars, numaVars, insertVars>>

-----------------------------------------------------------------------------
(* Vectors of up to five blocks, each with a number of bits of its own.     *)

VectorSizes == {1, 7, 12, 13, 25}
Blocks(n) == (n + block_size - 1) \div block_size

InitVector == vector = <<>> /\ data = <<>> /\ decoder = NewDecompressor

Compress ==
  /\ vector = <<>>
  /\ \E n \in VectorSizes : \E width \in [1..Blocks(n) -> 0..WordBits] :
       vector' = [i \in 1..n |-> ((i * 5 + 3) % 2^WordBits) % 2^width[Blocks(i)]] \o <<>>
  /\ data' = SimdBp128Encode(vector')
  /\ UNCHANGED decoder

ReadBlock ==
  /\ \E b \in 0..(Blocks(Len(vector)) - 1) : decoder' = get(data, decoder, b * block_size)
  /\ UNCHANGED <<vector, data>>

NextVector == Compress \/ ReadBlock

-----------------------------------------------------------------------------
(* Segments: one of integers, or two of them, or one of strings.            *)

Integers6 == {Null, 0, 2, 4, 6, 8}
Strings == {Null, <<>>, <<1>>, <<1, 2>>, <<2>>}
TheArtCapacities == <<1, 2, 3, 4>>

MaxCells == 4
MaxAscendingCells == 5   \* an ascending segment may get longer, for its larger dictionary

Ascending(s) == \A i, j \in DOMAIN s.values : i < j => s.values[i] < s.values[j]

InitSegments ==
  /\ segment \in {ValueSegment(TRUE), ValueSegment(FALSE)}
  /\ second = ValueSegment(TRUE) /\ strings = segment

AppendInteger ==
  /\ Len(segment.values) < IF Ascending(segment) THEN MaxAscendingCells ELSE MaxCells
  /\ second.values = <<>> /\ strings.values = <<>>
  /\ \E cell \in Integers6 : CanAppend(segment, cell) /\ segment' = ValueSegmentAppend(segment, cell, 0)
  /\ UNCHANGED <<second, strings>>

AppendPair ==
  /\ segment.nullable /\ Len(segment.values) < 3 /\ Len(second.values) = Len(segment.values)
  /\ strings.values = <<>>
  /\ \E cell, other \in {Null, 2, 4} :
       segment' = ValueSegmentAppend(segment, cell, 0) /\ second' = ValueSegmentAppend(second, other, 0)
  /\ UNCHANGED strings

AppendString ==
  /\ Len(strings.values) < MaxCells /\ segment.values = <<>>
  /\ \E cell \in Strings : CanAppend(strings, cell) /\ strings' = ValueSegmentAppend(strings, cell, <<>>)
  /\ UNCHANGED <<segment, second>>

NextSegments == AppendInteger \/ AppendPair \/ AppendString

-----------------------------------------------------------------------------
(* Files: a table of a string column and an integer column, in chunks of    *)
(* two rows of which the first has segments of the kind.                    *)

Column(name, type, nullable) == [name |-> <<name>>, type |-> type, nullable |-> nullable]

InitFiles ==
  /\ \E nullable \in BOOLEAN :
       rows = [columns |-> <<Column(5, "string", nullable), Column(6, "int", nullable)>>, cells |-> <<>>]
  /\ kind \in {"Value", "Dictionary", "FixedString", "Reference"}
  /\ config \in {ParseConfig(Quote, TRUE), ParseConfig(Backslash, TRUE)}

StringCells == {Null, <<>>, <<Quote, 5>>, <<Delimiter, Separator>>, <<Backslash>>}

AppendRow ==
  /\ Len(rows.cells) < 3
  /\ \E string \in StringCells, int \in {Null, 0} :
       /\ rows.columns[1].nullable \/ (string # Null /\ int # Null)
       /\ rows' = [rows EXCEPT !.cells = Append(@, <<string, int>>)]
  /\ UNCHANGED <<kind, config>>

RowsPerChunk == 2
ColumnOfChunk(c, i) ==
  LET first == (c - 1) * RowsPerChunk
  IN [o \in 1..Lesser(RowsPerChunk, Len(rows.cells) - first) |-> rows.cells[first + o][i]]
KindOf(c, i) == IF c > 1 THEN "Value" ELSE IF i = 2 /\ kind = "FixedString" THEN "Dictionary" ELSE kind

TheTable ==
  [max_chunk_size |-> RowsPerChunk, columns |-> rows.columns,
   chunks |-> [c \in 1..((Len(rows.cells) + 1) \div RowsPerChunk) |->
                 [i \in 1..2 |-> MakeSegment(KindOf(c, i), rows.columns[i], ColumnOfChunk(c, i))]]]

-----------------------------------------------------------------------------
(* NUMA nodes: every topology that the tests initialise on a machine of     *)
(* four cores on two nodes.                                                 *)

TheNodes == <<{0, 1}, {2, 3}>>
TwiceAsHot(temperatures) == \E i, j \in DOMAIN temperatures : temperatures[i] > 2 * temperatures[j]
Topologies == {_init_non_numa_topology(m) : m \in 0..2} \cup {_init_numa_topology(m) : m \in 0..5}
              \cup {_init_fake_numa_topology(m, w) : m \in 0..4, w \in 1..3}

InitNuma == InitPlacement(Topologies) /\ rounds = 0

NextNuma ==
  \/ /\ \E c \in Chunks, placed \in BOOLEAN :
          (\A d \in Chunks : d < c => d \in DOMAIN chunks) /\ get_next_memory_resource(c, placed)
     /\ UNCHANGED rounds
  \/ (\E c \in Chunks : Complete(c)) /\ UNCHANGED rounds
  \/ /\ \E c \in Chunks, n \in 1..2 :
          c \in DOMAIN chunks /\ chunks[c].counter + n <= MaxCounter /\ increment(c, n)
     /\ UNCHANGED rounds
  \/ rounds < MaxRounds /\ rounds' = rounds + 1 /\ ChunkMetricsCollectionTask
  \/ MigrationPreparationTask /\ UNCHANGED rounds

-----------------------------------------------------------------------------
(* Three Inserts, one of them empty.                                        *)

TheInputRows == [i \in Inserter |-> CASE i = i1 -> 3 [] i = i2 -> 2 [] i = i3 -> 0]

-----------------------------------------------------------------------------
(* A subject with several initial states starts in one of them only when it *)
(* is the subject.                                                          *)
Init ==
  /\ subject \in {"vector", "segments", "files", "container", "chunks", "numa", "insert"}
  /\ read = FALSE
  /\ InitVector /\ InitSegments /\ InitFiles /\ InitVectors /\ InitStorage /\ InitNuma /\ InitInsert
  /\ subject # "segments" => segment.nullable
  /\ subject # "files" => rows.columns[1].nullable /\ kind = "Value" /\ config = ParseConfig(Quote, TRUE)
  /\ subject # "numa" => topology = _init_non_numa_topology(0)

Store ==
  \/ subject = "vector" /\ NextVector /\ UNCHANGED <<segmentVars, fileVars>>
  \/ subject = "segments" /\ NextSegments /\ UNCHANGED <<vectorVars, fileVars>>
  \/ subject = "files" /\ AppendRow /\ UNCHANGED <<vectorVars, segmentVars>>

Read ==
  /\ subject \in {"vector", "segments", "files"}
  /\ read' = TRUE
  /\ UNCHANGED <<subject, inputVars, vectors, storageVars, numaVars, insertVars>>

Next ==
  \/ ~read /\ Store /\ UNCHANGED <<subject, read, vectors, storageVars, numaVars, insertVars>>
  \/ ~read /\ Read
  \/ subject = "container" /\ NextVectors /\ UNCHANGED <<subject, read, inputVars, storageVars, numaVars, insertVars>>
  \/ subject = "chunks" /\ NextStorage /\ UNCHANGED <<subject, read, inputVars, vectors, numaVars, insertVars>>
  \/ subject = "numa" /\ NextNuma /\ UNCHANGED <<subject, read, inputVars, vectors, storageVars, insertVars>>
  \/ subject = "insert" /\ NextInsert /\ UNCHANGED <<subject, read, inputVars, vectors, storageVars, numaVars>>

Spec == Init /\ [][Next]_vars

-----------------------------------------------------------------------------
(* Properties of the compressed vectors.                                    *)

\* What SIMD-BP128 packs is what its iterator and its decompressor read: the iterator from front to back across
\* blocks and meta blocks, the decompressor at any position whatever it has cached before.
Bp128ReadsBack ==
  subject = "vector" /\ vector # <<>> =>
    /\ decoder = NewDecompressor => SimdBp128Iterate(data, Len(vector)) = vector
    /\ \A b \in 0..(Blocks(Len(vector)) - 1) :
         \A i \in {b * block_size, Lesser(b * block_size + 4, Len(vector) - 1)} :
           \A d \in {get(data, decoder, i)} : ValueAt(d, i) = vector[i + 1]

(* Properties of the segments.                                              *)

CellsOf(s) == [i \in DOMAIN s.values |-> ValueSegmentGet(s, i)]

\* Every encoding of a column, NULLs included, gives the cells back in all the ways that operators read a segment: by
\* offset, front to back, and with an iterator that goes back and forth between offsets.  The bounds of a dictionary of
\* strings separate the value ids of smaller and larger strings.
EncodedReadsBack ==
  subject = "segments" =>
    /\ segment.values # <<>> /\ second.values = <<>> =>
         \A encoding \in IntEncodings : \A s \in {Encode(encoding, segment)} : \A cells \in {CellsOf(segment)} :
           /\ SequentialCells(s) = cells
           /\ \A i \in DOMAIN cells : get_typed_value(s, i) = cells[i]
           /\ \A i, j \in DOMAIN cells : PointAccessCells(s, <<i, j>>) = <<cells[i], cells[j]>>
    /\ strings.values # <<>> =>
         \A s \in {EncodeFixedString(strings)} :
           \A i \in DOMAIN strings.values :
             /\ FixedStringGet(s, i) = ValueSegmentGet(strings, i)
             /\ s.strings # <<>> /\ ValueSegmentGet(strings, i) # Null =>
                  \A v \in Strings \ {Null} :
                    /\ s.attribute_vector[i] < FixedStringLowerBound(s, v) <=> LessString(strings.values[i], v)
                    /\ s.attribute_vector[i] < FixedStringUpperBound(s, v) <=> ~LessString(v, strings.values[i])

NullsOf(s) == {i \in DOMAIN s.values : ValueSegmentGet(s, i) = Null}

Satisfies(cell, condition, value, value2) ==
  IF condition = "Between" THEN value <= cell /\ cell <= value2 ELSE with_comparator(condition, cell, value)

\* An IndexScan returns every row that satisfies its condition once, for every type of index and for values that are
\* in the column, between its values or beyond them.  Ranges that reach the end of an index on a dictionary contain
\* the NULLs too, which are stored behind the last value; the B-tree has none.
IndexScanIsFilter ==
  (subject = "segments" /\ segment.values # <<>> /\ second.values = <<>>) =>
    \A type \in {t \in IndexTypes : t = "BTree" => NullsOf(segment) # DOMAIN segment.values} :
      \A index \in {BuildIndex(type, segment)} :
        \A value \in {-1, 0, 3, 6, 9} :
          \A condition \in Conditions \cup {"Between"} :
            \A value2 \in IF condition = "Between" THEN {w \in {3, 9} : value <= w} ELSE {value} :
              \A out \in {_scan_chunk(type, index, condition, value, value2)} :
                /\ ToSet(out) \ (IF type = "BTree" THEN {} ELSE NullsOf(segment))
                     = {i \in DOMAIN segment.values \ NullsOf(segment) :
                          Satisfies(ValueSegmentGet(segment, i), condition, value, value2)}
                /\ IsInjective(out)

\* The bounds of a composite group key index split the rows in the order of the two columns together: before a bound
\* lie the rows with smaller values, if the first value occurs in the first column.  Rows with a NULL may lie on
\* either side.
CompositeBoundsSplit ==
  (subject = "segments" /\ second.values # <<>>) =>
    \A index \in {CompositeGroupKeyIndex(<<EncodeDictionary(segment, LessInt), EncodeDictionary(second, LessInt)>>)} :
      LET known == DOMAIN segment.values \ (NullsOf(segment) \cup NullsOf(second))
          upTo(bound) == {index.position_list[k] : k \in 1..bound} \cap known
          below(v) == {i \in known : segment.values[i] < v}
          with(v) == {i \in known : segment.values[i] = v}
      IN \A v \in {segment.values[i] : i \in DOMAIN segment.values \ NullsOf(segment)}, w \in 1..5 :
           /\ upTo(CompositeLowerBound(index, <<v>>)) = below(v)
           /\ upTo(CompositeUpperBound(index, <<v>>)) = below(v) \cup with(v)
           /\ upTo(CompositeLowerBound(index, <<v, w>>)) = below(v) \cup {i \in with(v) : second.values[i] < w}
           /\ upTo(CompositeUpperBound(index, <<v, w>>)) = below(v) \cup {i \in with(v) : second.values[i] <= w}

-----------------------------------------------------------------------------
(* Properties of the files.                                                 *)

AllEmpty(t) == \E c \in DOMAIN t.chunks : t.chunks[c][1].kind = "FixedString" /\ t.chunks[c][1].data.strings = <<>>

\* ImportBinary reads what ExportBinary wrote: the same chunks with the same cells, from value, dictionary, fixed
\* string and reference segments.  Reference segments of a nullable column are written without their NULL flags, and
\* a fixed string dictionary of empty strings without its string; both are left out.
BinaryRoundTrip ==
  subject = "files" =>
    \A t \in {TheTable} :
      ~(kind = "Reference" /\ rows.columns[1].nullable) /\ ~AllEmpty(t) =>
        \A result \in {ImportBinary(ExportBinary(t))} : result.ok /\ Content(result.table) = Content(t)

\* CsvParser reads what ExportCsv wrote, with quotes, separators and line breaks inside of strings, and with NULL
\* distinct from the empty string.  An escape character other than the quote is not escaped by the writer, and a file
\* without rows is refused; both are left out.
CsvRoundTrip ==
  (subject = "files" /\ rows.cells # <<>>) =>
    ((config.escape = Quote \/ \A k \in DOMAIN rows.cells : rows.cells[k][1] # <<Backslash>>) =>
       \A t \in {TheTable} :
         \A result \in {CsvParse(_generate_content_file(t, config), t.columns, RowsPerChunk, config)} :
           result.ok /\ Content(result.table) = Content(t))

-----------------------------------------------------------------------------
(* Properties of the containers.                                            *)

\* The referenced element is still where it was when the room for n elements at p has been made.
Stays(v, n, p, item) == item.own = 0 \/ (capacity(v) >= v.size + n /\ item.own <= p)


-----------------------------------------------------------------------------
(* Properties of the chunks.                                                *)

RowOf(n, i) == (n - 1) * max_chunk_size + i

\* No committed row is lost or moved: whatever tasks compress and migrate a chunk at the same time, every column of it
\* holds the committed rows in their order.
CommittedRowsStay ==
  subject = "chunks" =>
    \A n \in DOMAIN _chunks : \A c \in Columns : \A i \in DOMAIN _chunks[n].committed :
      _chunks[n].committed[i] =>
        LET cells == _chunks[n].segments[c].cells IN i \in DOMAIN cells /\ cells[i] = RowOf(n, i)

\* A reader that has found a row visible finds its cells in every column, although segments are replaced between its
\* look at one column and at the next.
ReadersSeeWholeRows ==
  subject = "chunks" =>
    \A r \in Readers : (reading[r] # Nothing /\ reading[r].rows # Nothing) =>
      \A c \in DOMAIN reading[r].cells : \A i \in reading[r].rows :
        i \in DOMAIN reading[r].cells[c] /\ reading[r].cells[c][i] = RowOf(reading[r].chunk, i)

\* The statistics of a chunk cover all of its cells, or a query would prune a chunk that has rows for it.
StatisticsCoverChunk ==
  subject = "chunks" =>
    \A n \in DOMAIN _chunks : _chunks[n].statistics # Nothing =>
      \A c \in Columns : ToSet(_chunks[n].segments[c].cells) \subseteq _chunks[n].statistics[c]

-----------------------------------------------------------------------------
(* Properties of the placement.                                             *)

\* The nodes of a topology have CPUs, share none, and together number them from 0 without a gap.
NodesPartitionCpus ==
  subject = "numa" =>
    LET nodes == topology.nodes
        cpus == UNION {nodes[i] : i \in DOMAIN nodes}
    IN /\ \A i, j \in DOMAIN nodes : nodes[i] # {} /\ (i # j => nodes[i] \cap nodes[j] = {})
       /\ cpus = 0..(Cardinality(cpus) - 1)

\* A migration moves a chunk to another node, unless the nodes are invented and both lie on the same real one.
MigrationsChangeNode ==
  subject = "numa" =>
    \A moves \in migrations : \A k \in DOMAIN moves :
      ~topology.fake => chunks[moves[k].chunk].node # _create_memory_resources(topology, moves[k].target)

HeatOf(n) == FoldSet(LAMBDA c, sum : sum + temperature(chunks[c]), 0, {c \in collect_chunk_infos : chunks[c].node = n})

\* Only completed chunks are migrated, and only from a node to a colder one.
MovesToColderNode ==
  [][subject = "numa" /\ ~topology.fake =>
       \A c \in DOMAIN chunks : chunks'[c].node # chunks[c].node =>
         chunks[c].completed /\ HeatOf(chunks[c].node) > HeatOf(chunks'[c].node)]_vars

-----------------------------------------------------------------------------
ReadsBack == Bp128ReadsBack /\ EncodedReadsBack /\ BinaryRoundTrip /\ CsvRoundTrip
FindsRows == IndexScanIsFilter /\ CompositeBoundsSplit

\* What is stored is what is read: from compressed vectors, encoded segments (the encoders and their iterables), binary
\* and CSV files (export_binary.cpp, import_binary.cpp, csv_writer.cpp, csv_parser.cpp).
StoredIsRead == [][Read => ReadsBack]_vars




\* Topologies partition the CPUs, and the migrations that are prepared for them move completed chunks from a hot to a
\* colder node (topology.cpp, migration_preparation_task.cpp).
PlacementMovesHeat == [](NodesPartitionCpus /\ MigrationsChangeNode) /\ MovesToColderNode

=============================================================================
