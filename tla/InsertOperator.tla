--------------------------- MODULE InsertOperator ---------------------------
(***************************************************************************)
(* How rows get into a table.  An Insert grows the last chunks of its      *)
(* table under the append mutex and then, without the mutex, copies its    *)
(* input into the rows it has reserved.  Other Inserts may grow the table  *)
(* meanwhile, and a ChunkCompressionTask replaces the segments of chunks   *)
(* that it finds completed.                                                *)
(*                                                                         *)
(* A row is one cell; its value says which row of which input it is.  The  *)
(* loops of commit_records and rollback_records are in Mvcc; here either   *)
(* completes the rows of an Insert.                                        *)
(* (insert.cpp, table.cpp, chunk.cpp, mvcc_data.cpp,                       *)
(* chunk_compression_task.cpp, chunk_encoder.cpp.)                         *)
(***************************************************************************)
EXTENDS Integers, Sequences

CONSTANTS
  Inserter,         \* the Insert operators
  InputRows,        \* how many rows each of them inserts
  InputChunkSize,   \* rows per chunk of their inputs
  MaxChunkSize,     \* rows per chunk of the table
  InitialRows,      \* rows of the table's first chunk, inserted long ago
  NoInserter

ASSUME InsertAssumption ==
  /\ InputRows \in [Inserter -> Nat]
  /\ InputChunkSize \in Nat \ {0} /\ MaxChunkSize \in Nat \ {0}
  /\ InitialRows \in 0..MaxChunkSize
  /\ NoInserter \notin Inserter

VARIABLES
  append_mutex,     \* the Insert that holds the table's append mutex
  target_chunks,    \* the chunks: MVCC begin ids, cells, and whether mutable
  insert_pc,
  my,               \* the local variables of each Insert
  inserted,         \* _inserted_rows of each Insert
  encoder           \* the compression: step, chunk, the cells it has encoded

insertVars == <<append_mutex, target_chunks, insert_pc, my, inserted, encoder>>

Lesser(a, b) == IF a < b THEN a ELSE b

Repeat(v, n) == [i \in 1..n |-> v]

EmptyChunk == [begins |-> <<>>, cells |-> <<>>, mutable |-> TRUE]

Idle == [step |-> "idle", chunk |-> 0, cells |-> <<>>]

InitInsert ==
  /\ append_mutex = NoInserter
  /\ target_chunks = <<[begins |-> Repeat("set", InitialRows),
                 cells |-> Repeat(<<NoInserter, 0>>, InitialRows), mutable |-> TRUE]>>
  /\ insert_pc = [i \in Inserter |-> "start"]
  /\ my = [i \in Inserter |->
             [start_chunk_id |-> 0, start_index |-> 0, chunks_inserted |-> 0,
              remaining |-> InputRows[i], target |-> 0, num |-> 0, target_index |-> 0,
              still_to_insert |-> 0, source |-> 1, source_index |-> 0, offset |-> 0]]
  /\ inserted = [i \in Inserter |-> <<>>]
  /\ encoder = Idle

Goto(i, from, to) == insert_pc[i] = from /\ insert_pc' = [insert_pc EXCEPT ![i] = to]

Size(c) == Len(target_chunks[c].cells)
LastChunk == Len(target_chunks)

-----------------------------------------------------------------------------
(* Reservation, under the append mutex.                                    *)

(* If the last chunk has been compressed, the table gets a new one.        *)
Lock(i) ==
  /\ Goto(i, "start", IF InputRows[i] > 0 THEN "grow" ELSE "unlock")
  /\ append_mutex = NoInserter
  /\ append_mutex' = i
  /\ target_chunks' = IF target_chunks[LastChunk].mutable THEN target_chunks ELSE Append(target_chunks, EmptyChunk)
  /\ my' = [my EXCEPT ![i].start_chunk_id = LastChunk,
                      ![i].start_index = Size(LastChunk),
                      ![i].chunks_inserted = Len(target_chunks') - Len(target_chunks)]
  /\ UNCHANGED <<inserted, encoder>>

RowsThisLoop(i) == Lesser(MaxChunkSize - Size(LastChunk), my[i].remaining)

GrowMvcc(i) ==
  /\ Goto(i, "grow", "resize")
  /\ target_chunks' = [target_chunks EXCEPT ![LastChunk].begins = @ \o Repeat("MAX", RowsThisLoop(i))]
  /\ UNCHANGED <<append_mutex, my, inserted, encoder>>

(* The segments grow, and if rows remain the table gets a new chunk.       *)
ResizeSegments(i) ==
  LET n == RowsThisLoop(i)
      more == my[i].remaining > n
      grown == [target_chunks EXCEPT ![LastChunk].cells = @ \o Repeat(<<NoInserter, 0>>, n)]
  IN /\ Goto(i, "resize", IF more THEN "grow" ELSE "unlock")
     /\ target_chunks' = IF more THEN Append(grown, EmptyChunk) ELSE grown
     /\ my' = [my EXCEPT ![i].remaining = @ - n,
                         ![i].chunks_inserted = IF more THEN @ + 1 ELSE @]
     /\ UNCHANGED <<append_mutex, inserted, encoder>>

Unlock(i) ==
  /\ Goto(i, "unlock", "for")
  /\ append_mutex' = NoInserter
  /\ my' = [my EXCEPT ![i].target = my[i].start_chunk_id]
  /\ UNCHANGED <<target_chunks, inserted, encoder>>

-----------------------------------------------------------------------------
(* Copying, without the mutex: a loop over the target chunks, in it one    *)
(* over the pieces of the source chunks, then the new rows are locked.     *)

InTargets(i) == my[i].target <= my[i].start_chunk_id + my[i].chunks_inserted

NextTarget(i) ==
  /\ Goto(i, "for", "copy")
  /\ InTargets(i)
  /\ LET n == Lesser(Size(my[i].target) - my[i].start_index, InputRows[i] - my[i].offset)
     IN my' = [my EXCEPT ![i].num = n, ![i].still_to_insert = n,
                         ![i].target_index = my[i].start_index]
  /\ UNCHANGED <<append_mutex, target_chunks, inserted, encoder>>

SourceChunks(i) == (InputRows[i] + InputChunkSize - 1) \div InputChunkSize
SourceSize(i, s) == Lesser(InputChunkSize, InputRows[i] - (s - 1) * InputChunkSize)

TargetFilled(i) == my[i].target_index = Size(my[i].target)

Copy(i) ==
  LET m == my[i]
      n == Lesser(SourceSize(i, m.source) - m.source_index, m.still_to_insert)
      depleted == m.source_index + n = SourceSize(i, m.source)
      first == (m.source - 1) * InputChunkSize + m.source_index
  IN /\ insert_pc[i] = "copy" /\ ~TargetFilled(i) /\ m.source <= SourceChunks(i)
     /\ target_chunks' = [target_chunks EXCEPT ![m.target].cells =
                     [j \in DOMAIN @ |-> IF j \in (m.target_index + 1)..(m.target_index + n)
                                         THEN <<i, first + j - m.target_index>> ELSE @[j]]]
     /\ my' = [my EXCEPT ![i].still_to_insert = @ - n, ![i].target_index = @ + n,
                         ![i].source = IF depleted THEN @ + 1 ELSE @,
                         ![i].source_index = IF depleted THEN 0 ELSE @ + n]
     /\ UNCHANGED <<append_mutex, insert_pc, inserted, encoder>>

(* There is no such source chunk: Table::get_chunk fails.                  *)
CopyBeyondSource(i) ==
  /\ Goto(i, "copy", "out_of_range")
  /\ ~TargetFilled(i) /\ my[i].source > SourceChunks(i)
  /\ UNCHANGED <<append_mutex, target_chunks, my, inserted, encoder>>

SetTids(i) ==
  /\ Goto(i, "copy", "for")
  /\ TargetFilled(i)
  /\ inserted' = [inserted EXCEPT ![i] =
                    @ \o [k \in 1..my[i].num |-> <<my[i].target, my[i].start_index + k>>]]
  /\ my' = [my EXCEPT ![i].offset = @ + my[i].num, ![i].start_index = 0, ![i].target = @ + 1]
  /\ UNCHANGED <<append_mutex, target_chunks, encoder>>

Executed(i) ==
  /\ ~InTargets(i)
  /\ Goto(i, "for", "executed")
  /\ UNCHANGED <<append_mutex, target_chunks, my, inserted, encoder>>

IsRowOf(i, c, j) == \E k \in DOMAIN inserted[i] : inserted[i][k] = <<c, j>>

(* commit_records or rollback_records: no begin id is MAX any more.        *)
CompleteInsert(i) ==
  /\ Goto(i, "executed", "done")
  /\ target_chunks' = [c \in DOMAIN target_chunks |->
                  [target_chunks[c] EXCEPT !.begins =
                     [j \in DOMAIN @ |-> IF IsRowOf(i, c, j) THEN "set" ELSE @[j]]]]
  /\ UNCHANGED <<append_mutex, my, inserted, encoder>>

-----------------------------------------------------------------------------
(* Compression.                                                            *)


ChunkIsCompleted(c) ==
  Size(c) = MaxChunkSize /\ \A j \in DOMAIN target_chunks[c].begins : target_chunks[c].begins[j] # "MAX"

(* The encoder reads the segments of a completed chunk ...                 *)
EncodeChunk(c) ==
  /\ encoder = Idle
  /\ ChunkIsCompleted(c) /\ target_chunks[c].mutable
  /\ encoder' = [step |-> "replace", chunk |-> c, cells |-> target_chunks[c].cells]
  /\ UNCHANGED <<append_mutex, target_chunks, insert_pc, my, inserted>>

(* ... puts the encoded ones into their place and marks the chunk          *)
(* immutable.  Shrinking its MVCC data leaves their values alone.          *)
ReplaceSegments ==
  /\ encoder.step = "replace"
  /\ target_chunks' = [target_chunks EXCEPT ![encoder.chunk].cells = encoder.cells,
                              ![encoder.chunk].mutable = FALSE]
  /\ encoder' = Idle
  /\ UNCHANGED <<append_mutex, insert_pc, my, inserted>>

InsertStep(i) ==
  \/ Lock(i) \/ GrowMvcc(i) \/ ResizeSegments(i) \/ Unlock(i)
  \/ NextTarget(i) \/ Copy(i) \/ CopyBeyondSource(i) \/ SetTids(i) \/ Executed(i)
  \/ CompleteInsert(i)

NextInsert ==
  \/ \E i \in Inserter : InsertStep(i)
  \/ \E c \in DOMAIN target_chunks : EncodeChunk(c)
  \/ ReplaceSegments

-----------------------------------------------------------------------------

(* Once an Insert has executed, the rows it registered hold its input, in   *)
(* order and for good: no other Insert writes to them and no compression    *)
(* puts older cells into their place.  (insert.cpp, _on_execute.)          *)
InsertedAsGiven ==
  \A i \in Inserter : insert_pc[i] \in {"executed", "done"} =>
    /\ Len(inserted[i]) = InputRows[i]
    /\ \A k \in 1..InputRows[i] : target_chunks[inserted[i][k][1]].cells[inserted[i][k][2]] = <<i, k>>

(* An operator that sees a row of a chunk finds MVCC data for it.  (chunk.cpp: *)
(* "ensure that the first thing to exist in a row are the MVCC data".)     *)
MvccExistsFirst == \A c \in DOMAIN target_chunks : Size(c) <= Len(target_chunks[c].begins)

(* Only the last chunk of a table can have room.                           *)
OnlyLastChunkHasRoom ==
  \A c \in 1..(LastChunk - 1) : Size(c) = MaxChunkSize

=============================================================================
