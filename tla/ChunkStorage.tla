---------------------------- MODULE ChunkStorage ----------------------------
(* The chunks of a stored table while rows are loaded into it and tasks       *)
(* compress and migrate its chunks beside readers: Table, Chunk, MvccData,    *)
(* load_table, ChunkEncoder, ChunkCompressionTask and ChunkMigrationTask.     *)
(* Rows are numbered in the order they are appended, and a cell is the number *)
(* of its row.                                                                *)
EXTENDS Integers, Sequences, FiniteSets, SequencesExt, FiniteSetsExt, TLC

CONSTANTS ColumnCount, max_chunk_size,
          MaxRows,            \* bound on the rows that are loaded
          IndexedColumns,     \* the sets of columns that may be indexed
          Compressors, Migrators, Readers,
          IS_DEBUG,           \* whether DebugAssert is compiled in
          Nothing

ASSUME ChunkStorageAssumption == ColumnCount \in Nat \ {0} /\ max_chunk_size \in Nat \ {0}

VARIABLES _chunks,   \* the chunks of the table
          _indexes,  \* the columns Table::create_index was called for
          appending, \* what is left of Chunk::append: the row, its chunk and the next column
          task,      \* the state of each task
          reading,   \* the chunk, the rows and the cells each reader has seen
          thrown     \* the assertions that failed

storageVars == <<_chunks, _indexes, appending, task, reading, thrown>>

Columns == 1 .. ColumnCount
Workers == Compressors \cup Migrators

\* A segment: its identity changes with every new object.
NewValueSegment == [version |-> 0, encoded |-> FALSE, cells |-> <<>>]

\* Chunk::Chunk as Table::append_mutable_chunk calls it.
NewChunk == [segments |-> [c \in Columns |-> NewValueSegment], committed |-> <<>>, indices |-> {}, statistics |-> Nothing,
             is_mutable |-> TRUE, locked_by |-> {}, moving |-> {}, shrinking |-> {}]

InitStorage ==
  /\ _chunks = <<>> /\ _indexes = {} /\ appending = Nothing
  /\ task = [t \in Workers |-> Nothing]
  /\ reading = [r \in Readers |-> Nothing]
  /\ thrown = {}

chunk_size(chunk) == Len(chunk.segments[1].cells)
table_row_count == FoldSeq(LAMBDA chunk, sum : sum + chunk_size(chunk), 0, _chunks)

---------------------------------------------------------------------------
\* Table::append: a new chunk if there is none or the last one is full; Chunk::append gives the row its MVCC data first.
append_ ==
  /\ appending = Nothing /\ table_row_count < MaxRows
  /\ LET full == _chunks = <<>> \/ chunk_size(Last(_chunks)) >= max_chunk_size
         with_space == IF full THEN Append(_chunks, NewChunk) ELSE _chunks
         last == Len(with_space)
     IN IF with_space[last].is_mutable
        THEN /\ _chunks' = [with_space EXCEPT ![last].committed = Append(@, FALSE)]
             /\ appending' = [row |-> table_row_count + 1, chunk |-> last, column |-> 1]
             /\ UNCHANGED thrown
        ELSE thrown' = thrown \cup {"append to immutable"} /\ UNCHANGED <<_chunks, appending>>
  /\ UNCHANGED <<_indexes, task, reading>>

\* The segments get their values one by one; load_table then sets the row's begin_cid.
AppendToSegment ==
  /\ appending # Nothing /\ appending.column \in Columns
  /\ _chunks' = [_chunks EXCEPT ![appending.chunk].segments[appending.column].cells = Append(@, appending.row)]
  /\ appending' = [appending EXCEPT !.column = @ + 1]
  /\ UNCHANGED <<_indexes, task, reading, thrown>>

load_table ==
  /\ appending # Nothing /\ appending.column = ColumnCount + 1
  /\ _chunks' = [_chunks EXCEPT ![appending.chunk].committed = [i \in DOMAIN @ |-> @[i] \/ i = Len(@)]]
  /\ appending' = Nothing
  /\ UNCHANGED <<_indexes, task, reading, thrown>>

---------------------------------------------------------------------------
\* Indexes belong to the segments they were built for.
create_index(columns) ==
  /\ _chunks' = [i \in DOMAIN _chunks |->
                   [_chunks[i] EXCEPT !.indices = @ \cup {[c \in columns |-> _chunks[i].segments[c].version]}]]
  /\ _indexes' = _indexes \cup {columns}
  /\ UNCHANGED <<appending, task, reading, thrown>>

remove_index(n) ==
  /\ \E i \in _chunks[n].indices : _chunks' = [_chunks EXCEPT ![n].indices = @ \ {i}]
  /\ UNCHANGED <<_indexes, appending, task, reading, thrown>>

---------------------------------------------------------------------------


_chunk_is_completed(chunk) == chunk_size(chunk) = max_chunk_size /\ \A row \in DOMAIN chunk.committed : chunk.committed[row]

\* A task runs once.
Done == [at |-> "done"]

Throw(t, what) ==
  /\ task' = [task EXCEPT ![t] = Done]
  /\ thrown' = thrown \cup {what}
  /\ UNCHANGED _chunks

\* ChunkCompressionTask and ChunkMigrationTask start by asserting that the chunk is completed.
StartTask(t, n) ==
  /\ task[t] = Nothing /\ n \in DOMAIN _chunks
  /\ IF IS_DEBUG /\ ~_chunk_is_completed(_chunks[n]) THEN Throw(t, "not completed")
     ELSE IF t \in Migrators /\ _chunks[n].indices # {} THEN Throw(t, "migrate with indices")
     ELSE /\ task' = [task EXCEPT ![t] = [chunk |-> n, column |-> 1, at |-> "read", segments |-> <<>>]]
          /\ UNCHANGED <<_chunks, thrown>>
  /\ UNCHANGED <<_indexes, appending, reading>>

Working(t, at) == task[t] # Nothing /\ task[t].at = at

\* The next column's segment is looked up.  A compression asserts that it is not encoded yet; a migration copies it.
get_segment(t) ==
  /\ Working(t, "read") /\ task[t].column \in Columns
  /\ LET segment == _chunks[task[t].chunk].segments[task[t].column]
     IN IF t \in Compressors /\ segment.encoded THEN Throw(t, "not a value segment")
        ELSE /\ task' = [task EXCEPT ![t].segments = Append(@, segment),
                                     ![t].column = IF t \in Migrators THEN @ + 1 ELSE @,
                                     ![t].at = IF t \in Migrators THEN @ ELSE "encode"]
             /\ UNCHANGED <<_chunks, thrown>>
  /\ UNCHANGED <<_indexes, appending, reading>>

\* encode_segment and Chunk::replace_segment; the statistics are those of the encoded segment.  With Unencoded the
\* segment stays.
replace_segment(t, unencoded) ==
  /\ Working(t, "encode")
  /\ _chunks' = IF unencoded THEN _chunks
                ELSE [_chunks EXCEPT ![task[t].chunk].segments[task[t].column] =
                        [version |-> @.version + 1, encoded |-> TRUE, cells |-> Last(task[t].segments).cells]]
  /\ task' = [task EXCEPT ![t].column = @ + 1, ![t].at = "read"]
  /\ UNCHANGED <<_indexes, appending, reading, thrown>>

\* mark_immutable and set_statistics
set_statistics(t) ==
  /\ t \in Compressors /\ Working(t, "read") /\ task[t].column = ColumnCount + 1
  /\ _chunks' = [_chunks EXCEPT ![task[t].chunk].is_mutable = FALSE,
                                ![task[t].chunk].statistics = [c \in Columns |-> ToSet(task[t].segments[c].cells)]]
  /\ task' = [task EXCEPT ![t].at = "shrink"]
  /\ UNCHANGED <<_indexes, appending, reading, thrown>>

\* get_scoped_mvcc_data_lock()->shrink(): the lock is a shared one.
shrink(t) ==
  /\ Working(t, "shrink")
  /\ _chunks' = [_chunks EXCEPT ![task[t].chunk].locked_by = @ \cup {t}, ![task[t].chunk].shrinking = @ \cup {t}]
  /\ task' = [task EXCEPT ![t].at = "shrinking"]
  /\ UNCHANGED <<_indexes, appending, reading, thrown>>

Shrunk(t) ==
  /\ Working(t, "shrinking")
  /\ _chunks' = [_chunks EXCEPT ![task[t].chunk].locked_by = @ \ {t}, ![task[t].chunk].shrinking = @ \ {t}]
  /\ task' = [task EXCEPT ![t] = Done]
  /\ UNCHANGED <<_indexes, appending, reading, thrown>>

\* The end of Chunk::migrate, which moves the copied vector of segments into place without protection.
Move(t) ==
  /\ t \in Migrators /\ Working(t, "read") /\ task[t].column = ColumnCount + 1
  /\ _chunks' = [_chunks EXCEPT ![task[t].chunk].moving = @ \cup {t}]
  /\ task' = [task EXCEPT ![t].at = "moving"]
  /\ UNCHANGED <<_indexes, appending, reading, thrown>>

migrate(t) ==
  /\ Working(t, "moving")
  /\ _chunks' = [_chunks EXCEPT ![task[t].chunk].moving = @ \ {t},
                                ![task[t].chunk].segments =
                                   [c \in Columns |-> [task[t].segments[c] EXCEPT !.version = @ + 1]]]
  /\ task' = [task EXCEPT ![t] = Done]
  /\ UNCHANGED <<_indexes, appending, reading, thrown>>

---------------------------------------------------------------------------
\* A reader (Validate, then a scan): it finds the committed rows under the shared lock of the MVCC data and then looks
\* at the segments one after the other.
Validate(r, n) ==
  /\ reading[r] = Nothing /\ n \in DOMAIN _chunks
  /\ _chunks' = [_chunks EXCEPT ![n].locked_by = @ \cup {r}]
  /\ reading' = [reading EXCEPT ![r] = [chunk |-> n, rows |-> Nothing, cells |-> <<>>]]
  /\ UNCHANGED <<_indexes, appending, task, thrown>>

Validated(r) ==
  /\ reading[r] # Nothing /\ reading[r].rows = Nothing
  /\ LET chunk == _chunks[reading[r].chunk]
     IN reading' = [reading EXCEPT ![r].rows = {i \in 1 .. chunk_size(chunk) : chunk.committed[i]}]
  /\ _chunks' = [_chunks EXCEPT ![reading[r].chunk].locked_by = @ \ {r}]
  /\ UNCHANGED <<_indexes, appending, task, thrown>>

Scan(r) ==
  /\ reading[r] # Nothing /\ reading[r].rows # Nothing /\ Len(reading[r].cells) < ColumnCount
  /\ reading' = [reading EXCEPT ![r].cells =
                   Append(@, _chunks[reading[r].chunk].segments[Len(@) + 1].cells)]
  /\ UNCHANGED <<_chunks, _indexes, appending, task, thrown>>

Scanned(r) ==
  /\ reading[r] # Nothing /\ Len(reading[r].cells) = ColumnCount
  /\ reading' = [reading EXCEPT ![r] = Nothing]
  /\ UNCHANGED <<_chunks, _indexes, appending, task, thrown>>

NextStorage ==
  \/ append_ \/ AppendToSegment \/ load_table
  \/ \E columns \in IndexedColumns : columns \notin _indexes /\ create_index(columns)
  \/ \E n \in DOMAIN _chunks : remove_index(n)
  \/ \E t \in Workers, n \in DOMAIN _chunks : StartTask(t, n)
  \/ \E t \in Workers : \/ get_segment(t) \/ (\E u \in BOOLEAN : replace_segment(t, u)) \/ set_statistics(t)
                        \/ shrink(t) \/ Shrunk(t) \/ Move(t) \/ migrate(t)
  \/ \E r \in Readers : (\E n \in DOMAIN _chunks : Validate(r, n)) \/ Validated(r) \/ Scan(r) \/ Scanned(r)

-----------------------------------------------------------------------------
(* Where chunks live on a machine with several NUMA nodes: the topology       *)
(* (Topology), the placement of new chunks and the two procedures that the    *)
(* NUMAPlacementManager runs in a loop, ChunkMetricsCollectionTask and        *)
(* MigrationPreparationTask with the ChunkMigrationTasks it schedules.        *)

CONSTANTS hardware_concurrency,       \* the machine: its CPUs,
          hardware_nodes,             \* the CPUs of each of its nodes (a sequence of sets),
          HistoryCapacity,            \* the size of the ring buffer of an access counter,
          lookback, migration_count,  \* the options of the manager
          Imbalanced(_),              \* inverted_entropy(temperatures) > imbalance_threshold
          Chunks

VARIABLES topology,         \* [nodes, fake]: the CPUs of each node; whether they are invented
          _current_node_id,
          chunks            \* the placed chunks: [node, completed, counter, history]

placementVars == <<topology, _current_node_id, chunks>>

UNDEFINED_NODE_ID == -1

---------------------------------------------------------------------------
\* The topology, with nodes and CPUs counted from 0.

Least(a, b) == IF b # 0 /\ b < a THEN b ELSE a

_init_non_numa_topology(max_num_cores) ==
  [nodes |-> <<0 .. Least(hardware_concurrency, max_num_cores) - 1>>, fake |-> FALSE]

\* A node is opened as long as cores are left, and takes its first CPUs up to the number of cores.
_init_numa_topology(max_num_cores) ==
  LET before(n) == FoldSet(LAMBDA i, sum : sum + Cardinality(hardware_nodes[i]), 0, 1 .. n - 1)
      room(n) == max_num_cores - before(n)
      taken(n) == {c \in hardware_nodes[n] :
                     max_num_cores = 0 \/ Cardinality({d \in hardware_nodes[n] : d < c}) < room(n)}
      opened == SelectSeq([n \in DOMAIN hardware_nodes |-> n], LAMBDA n : max_num_cores = 0 \/ room(n) > 0)
  IN [nodes |-> [k \in DOMAIN opened |-> taken(opened[k])], fake |-> FALSE]

_init_fake_numa_topology(max_num_workers, workers_per_node) ==
  LET num_workers == Least(hardware_concurrency, max_num_workers)
      num_nodes == num_workers \div workers_per_node + (IF num_workers % workers_per_node # 0 THEN 1 ELSE 0)
  IN [nodes |-> [n \in 1 .. num_nodes |->
                   {c \in 0 .. num_workers - 1 : (n - 1) * workers_per_node <= c /\ c < n * workers_per_node}],
      fake |-> TRUE]

num_nodes_of(t) == Len(t.nodes)

\* The node of the machine behind a node of the topology.
_create_memory_resources(t, node_id) == IF t.fake THEN node_id % Len(hardware_nodes) ELSE node_id

---------------------------------------------------------------------------
\* ChunkAccessCounter

process(chunk) ==
  [chunk EXCEPT !.history = IF Len(@) = HistoryCapacity THEN Append(Tail(@), chunk.counter)
                                                        ELSE Append(@, chunk.counter)]

history_sample(history) ==
  IF Len(history) < 2 \/ lookback = 0 THEN 0
  ELSE Last(history) - history[Max({0, Len(history) - lookback}) + 1]

---------------------------------------------------------------------------
\* MigrationPreparationTask

temperature(chunk) == history_sample(chunk.history)

\* Mutant: chunks that are still filled are collected too.
CollectAllChunkInfos == DOMAIN chunks

collect_chunk_infos == {c \in DOMAIN chunks : chunks[c].completed}

\* vector::at throws for a chunk that is on no node of the topology, or on none at all.
get_node_temperatures_throws ==
  \E c \in collect_chunk_infos : chunks[c].node \notin 0 .. num_nodes_of(topology) - 1

\* scale() divides by one more than the sum; the order of the temperatures, and how they compare with their mean, is
\* that of the sums.
get_node_temperatures ==
  [n \in 0 .. num_nodes_of(topology) - 1 |->
     FoldSet(LAMBDA c, sum : sum + temperature(chunks[c]), 0, {c \in collect_chunk_infos : chunks[c].node = n})]

hot_nodes(temperatures) ==
  LET sum == FoldSet(LAMBDA n, s : s + temperatures[n], 0, DOMAIN temperatures)
  IN {n \in DOMAIN temperatures : temperatures[n] * Cardinality(DOMAIN temperatures) > sum}

\* node_has_capacity compares the size of the node with itself, and always holds.
cold_nodes(temperatures) == (DOMAIN temperatures) \ hot_nodes(temperatures)

\* std::sort puts equals in any order.
OrderedBy(S, value(_), descending) ==
  {s \in SetToSeqs(S) : \A i, j \in DOMAIN s :
     i < j => IF descending THEN value(s[i]) >= value(s[j]) ELSE value(s[i]) <= value(s[j])}

\* The migrations of one run of the task, in the order they are scheduled.
migrations ==
  LET temperatures == get_node_temperatures
      considered(infos) == IF migration_count = 0 THEN SubSeq(infos, 1, Min({Len(infos), 1})) ELSE infos
      candidates(infos) ==
        LET all == SelectSeq(considered(infos),
                             LAMBDA c : chunks[c].node < 0 \/ chunks[c].node \in hot_nodes(temperatures))
        IN SubSeq(all, 1, Min({Len(all), Max({migration_count, 1})}))
  IN IF Imbalanced(temperatures) /\ cold_nodes(temperatures) # {}
     THEN {[k \in DOMAIN candidates(infos) |-> [chunk |-> candidates(infos)[k], target |-> cold[((k - 1) % Len(cold)) + 1]]] :
             infos \in OrderedBy(collect_chunk_infos, LAMBDA c : temperature(chunks[c]), TRUE),
             cold \in OrderedBy(cold_nodes(temperatures), LAMBDA n : temperatures[n], FALSE)}
     ELSE {<<>>}

---------------------------------------------------------------------------
InitPlacement(topologies) ==
  /\ topology \in topologies
  /\ _current_node_id = 0
  /\ chunks = <<>>

\* A new chunk on the next node, or with the default allocator (not placed).
get_next_memory_resource(c, placed) ==
  /\ c \notin DOMAIN chunks
  /\ chunks' = [d \in DOMAIN chunks \cup {c} |->
                  IF d # c THEN chunks[d]
                  ELSE [node |-> IF placed THEN _create_memory_resources(topology, _current_node_id)
                                           ELSE UNDEFINED_NODE_ID,
                        completed |-> FALSE, counter |-> 0, history |-> <<>>]]
  /\ _current_node_id' = IF placed THEN (_current_node_id + 1) % num_nodes_of(topology) ELSE _current_node_id
  /\ UNCHANGED topology

\* chunk_is_completed: the chunk is full and all of its rows are committed.
Complete(c) ==
  /\ c \in DOMAIN chunks /\ ~chunks[c].completed
  /\ chunks' = [chunks EXCEPT ![c].completed = TRUE]
  /\ UNCHANGED <<topology, _current_node_id>>

\* The destructor of a ProxyChunk adds the time the chunk was in use.
increment(c, cycles) ==
  /\ c \in DOMAIN chunks
  /\ chunks' = [chunks EXCEPT ![c].counter = @ + cycles]
  /\ UNCHANGED <<topology, _current_node_id>>

ChunkMetricsCollectionTask ==
  /\ chunks' = [c \in DOMAIN chunks |-> process(chunks[c])]
  /\ UNCHANGED <<topology, _current_node_id>>

\* The task waits for the migrations it schedules.
MigrationPreparationTask ==
  /\ ~get_node_temperatures_throws
  /\ \E moves \in migrations :
       chunks' = [c \in DOMAIN chunks |->
                    IF \E k \in DOMAIN moves : moves[k].chunk = c
                    THEN [chunks[c] EXCEPT !.node =
                            _create_memory_resources(topology, (CHOOSE m \in ToSet(moves) : m.chunk = c).target)]
                    ELSE chunks[c]]
  /\ UNCHANGED <<topology, _current_node_id>>

=============================================================================
