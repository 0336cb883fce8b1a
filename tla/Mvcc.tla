-------------------------------- MODULE Mvcc --------------------------------
(***************************************************************************)
(* Multi-version concurrency control on the rows of one table.  A row has  *)
(* three MVCC fields: tids (the transaction that has locked it), begin_cids *)
(* and end_cids (the commit ids between which it is visible).  Validate    *)
(* reads them, Insert, Delete and Update execute, commit and roll back by  *)
(* writing them, one field of one row at a time, while other transactions  *)
(* do the same: none of these loops holds a lock.                          *)
(*                                                                         *)
(* Commit ids come from CommitOrder, which TransactionManager implements.  *)
(* A transaction runs one operator after the other (one per statement).    *)
(* The values of the rows are left out, and so is the copying of Insert,   *)
(* which InsertOperator models.                                            *)
(***************************************************************************)
EXTENDS Integers, Sequences, TLC

CONSTANTS
  Txn,                \* the transactions, standing for their transaction ids
  INVALID_TRANSACTION_ID,
  INITIAL_COMMIT_ID,
  MAX_COMMIT_ID,      \* bound: fewer commits than the largest commit id
  InitialRows,        \* the table starts with the rows 1..InitialRows
  MaxRows,            \* bound: rows that fit into the table
  ChunkSize,          \* rows per chunk
  MaxOperators        \* bound: read-write operators of one transaction

ASSUME MvccAssumption ==
  /\ INVALID_TRANSACTION_ID \notin Txn
  /\ INITIAL_COMMIT_ID \in Nat \ {0}
  /\ MAX_COMMIT_ID \in Nat /\ INITIAL_COMMIT_ID < MAX_COMMIT_ID
  /\ InitialRows \in Nat /\ MaxRows \in Nat /\ InitialRows <= MaxRows
  /\ ChunkSize \in Nat \ {0}
  /\ MaxOperators \in Nat

VARIABLES
  last_commit_id, newest_id, cid, ready, committed,   \* see CommitOrder
  size,               \* the rows of the table are 1..size
  tids, begin_cids, end_cids,
  snapshot,           \* snapshot_commit_id of each transaction
  pc,                 \* what each transaction is doing
  ops,                \* _read_write_operators of each transaction
  at,                 \* the next write of each transaction: to which field of
                      \* which row of which of its operators
  inserts_next,       \* rows the Insert of an Update has still to add
  loads_in_order,     \* whether the build keeps the loads of the plain
                      \* begin_cids and end_cids in the order of the source
  reading,            \* the fields Validate has loaded of the row it checks
  seen                \* the rows Validate found visible since the last operator

orderVars == <<last_commit_id, newest_id, cid, ready, committed>>
rowVars == <<size, tids, begin_cids, end_cids>>
workVars == <<ops, at, inserts_next>>
readVars == <<reading, seen>>
vars == <<orderVars, rowVars, snapshot, pc, workVars, readVars, loads_in_order>>

Order == INSTANCE CommitOrder

Row == 1..MaxRows

ChunkOf(r) == (r - 1) \div ChunkSize

(* What Validate has loaded, -1 standing for a field it has not.           *)
Loaded(row, tid, begin, end) == [row |-> row, tid |-> tid, begin |-> begin, end |-> end]
NothingRead == Loaded(0, INVALID_TRANSACTION_ID, -1, -1)

WriteAt(op, row, field) == [op |-> op, row |-> row, field |-> field]
FirstWrite(op) == WriteAt(op, 1, 1)

Init ==
  /\ Order!Init
  /\ size = InitialRows
  /\ tids = [r \in Row |-> INVALID_TRANSACTION_ID]
  /\ begin_cids = [r \in Row |-> IF r <= InitialRows THEN 0 ELSE MAX_COMMIT_ID]
  /\ end_cids = [r \in Row |-> MAX_COMMIT_ID]
  /\ snapshot = [t \in Txn |-> 0]
  /\ pc = [t \in Txn |-> "NotStarted"]
  /\ ops = [t \in Txn |-> <<>>]
  /\ at = [t \in Txn |-> FirstWrite(1)]
  /\ inserts_next = [t \in Txn |-> 0]
  /\ loads_in_order \in BOOLEAN
  /\ reading = [t \in Txn |-> NothingRead]
  /\ seen = [t \in Txn |-> {}]

Goto(t, from, to) == pc[t] = from /\ pc' = [pc EXCEPT ![t] = to]

Begin(t) ==
  /\ Goto(t, "NotStarted", "Active")
  /\ snapshot' = [snapshot EXCEPT ![t] = last_commit_id]
  /\ UNCHANGED <<orderVars, rowVars, workVars, readVars>>

-----------------------------------------------------------------------------
(* Validate: is_row_visible loads the three fields one after the other.    *)

StartReading(t, r) ==
  /\ Goto(t, "Active", "Reading")
  /\ r <= size
  /\ reading' = [reading EXCEPT ![t] = Loaded(r, tids[r], -1, -1)]
  /\ UNCHANGED <<orderVars, rowVars, snapshot, workVars, seen>>

ReadBegin(t) ==
  /\ pc[t] = "Reading"
  /\ reading[t].begin = -1
  /\ reading' = [reading EXCEPT ![t] = Loaded(@.row, @.tid, begin_cids[@.row], @.end)]
  /\ UNCHANGED <<orderVars, rowVars, snapshot, pc, workVars, seen>>

(* The fields are plain integers: a build that reorders the two loads may  *)
(* load the end first.                                                     *)
ReadEnd(t) ==
  /\ pc[t] = "Reading"
  /\ reading[t].end = -1
  /\ loads_in_order => reading[t].begin # -1
  /\ reading' = [reading EXCEPT ![t] = Loaded(@.row, @.tid, @.begin, end_cids[@.row])]
  /\ UNCHANGED <<orderVars, rowVars, snapshot, pc, workVars, seen>>

is_row_visible(our_tid, snapshot_commit_id, read) ==
  /\ snapshot_commit_id < read.end
  /\ (snapshot_commit_id >= read.begin) # (read.tid = our_tid)

RowRead(t) ==
  /\ Goto(t, "Reading", "Active")
  /\ reading[t].begin # -1 /\ reading[t].end # -1
  /\ seen' = [seen EXCEPT ![t] =
                IF is_row_visible(t, snapshot[t], reading[t])
                THEN @ \cup {reading[t].row} ELSE @ \ {reading[t].row}]
  /\ reading' = [reading EXCEPT ![t] = NothingRead]
  /\ UNCHANGED <<orderVars, rowVars, snapshot, workVars>>

-----------------------------------------------------------------------------
(* The read-write operators.  They execute, commit and roll back by loops  *)
(* over their rows; every iteration writes one or more fields of the row,  *)
(* and the transaction carries out one write at a time.                    *)

Operator(kind, rows) == [kind |-> kind, rows |-> rows]

(* Mutants of what commit and rollback write: a committed Delete gives its *)
(* locks back; a rolled back Insert resets begin before end.               *)
CommitFieldsUnlock(kind) == IF kind = "Insert" THEN <<"begin", "free">> ELSE <<"end", "free">>

RollbackFieldsBeginFirst(kind) ==
  IF kind = "Insert" THEN <<"begin", "end", "free">> ELSE <<"unlock">>

ExecuteFields(kind) == IF kind = "Insert" THEN <<"own">> ELSE <<"lock">>

CommitFields(kind) == IF kind = "Insert" THEN <<"begin", "free">> ELSE <<"end">>

RollbackFields(kind) ==
  IF kind = "Insert" THEN <<"end", "begin", "free">> ELSE <<"unlock">>

(* Where a transaction is in these loops.                                  *)
CurrentOp(t) == ops[t][at[t].op]
CurrentRow(t) == CurrentOp(t).rows[at[t].row]
OperatorDone(t) == at[t].row > Len(CurrentOp(t).rows)
NoOperatorLeft(t) == at[t].op > Len(ops[t])

Fields(t) ==
  CASE pc[t] = "Executing"  -> ExecuteFields(CurrentOp(t).kind)
    [] pc[t] = "Committing" -> CommitFields(CurrentOp(t).kind)
    [] pc[t] = "Aborted"    -> RollbackFields(CurrentOp(t).kind)

NextWrite(t, field) ==
  /\ pc[t] \in {"Executing", "Committing", "Aborted"}
  /\ ~NoOperatorLeft(t) /\ ~OperatorDone(t)
  /\ Fields(t)[at[t].field] = field

WriteDone(t) ==
  at' = [at EXCEPT ![t] = IF @.field < Len(Fields(t)) THEN WriteAt(@.op, @.row, @.field + 1)
                          ELSE WriteAt(@.op, @.row + 1, 1)]

-----------------------------------------------------------------------------
(* Execution.                                                              *)

(* The lists of n of these rows that Delete can receive: the rows of a     *)
(* chunk stay in their order and together, but TableScan appends the       *)
(* chunks of its output in the order in which its jobs finish.             *)
PosLists(n, rows) ==
  {p \in [1..n -> rows] : \A i, j \in 1..n : i < j =>
     /\ ChunkOf(p[i]) = ChunkOf(p[j]) => p[i] < p[j]
     /\ \A k \in i..j : ChunkOf(p[i]) = ChunkOf(p[j]) => ChunkOf(p[k]) = ChunkOf(p[i])}

Registers(t, op) ==
  /\ Len(ops[t]) < MaxOperators
  /\ ops' = [ops EXCEPT ![t] = Append(@, op)]
  /\ at' = [at EXCEPT ![t] = FirstWrite(Len(ops[t]) + 1)]
  /\ seen' = [seen EXCEPT ![t] = {}]

(* Insert reserves its rows at the end of the table under the append mutex. *)
(* They carry no transaction id yet.                                       *)
Reserve(t, n) ==
  /\ size + n <= MaxRows
  /\ size' = size + n
  /\ Registers(t, Operator("Insert", [i \in 1..n |-> size + i]))
  /\ UNCHANGED <<orderVars, tids, begin_cids, end_cids, snapshot, reading>>

Insert(t, n) ==
  /\ Goto(t, "Active", "Executing")
  /\ Reserve(t, n)
  /\ UNCHANGED inserts_next

(* Delete, alone (n = 0) or as the first half of an Update.                *)
Delete(t, pos_list, n) ==
  /\ Goto(t, "Active", "Executing")
  /\ Registers(t, Operator("Delete", pos_list))
  /\ inserts_next' = [inserts_next EXCEPT ![t] = n]
  /\ UNCHANGED <<orderVars, rowVars, snapshot, reading>>

(* The second half of an Update: insert as many rows as were deleted.      *)
UpdateInserts(t) ==
  /\ pc[t] = "Executing" /\ OperatorDone(t) /\ inserts_next[t] > 0
  /\ Reserve(t, inserts_next[t])
  /\ inserts_next' = [inserts_next EXCEPT ![t] = 0]
  /\ UNCHANGED pc

(* The operator is done; the transaction goes on with its next statement.  *)
Executed(t) ==
  /\ Goto(t, "Executing", "Active")
  /\ OperatorDone(t) /\ inserts_next[t] = 0
  /\ UNCHANGED <<orderVars, rowVars, snapshot, workVars, readVars>>

SetOwnTid(t) ==
  /\ NextWrite(t, "own")
  /\ tids' = [tids EXCEPT ![CurrentRow(t)] = t]
  /\ WriteDone(t)
  /\ UNCHANGED <<orderVars, size, begin_cids, end_cids, snapshot, pc, ops, inserts_next, readVars>>

(* Delete locks a row that nobody has locked, and gives up the lock on a   *)
(* row that this transaction inserted, so that even it sees it no more.    *)
LockRow(t) ==
  /\ NextWrite(t, "lock")
  /\ tids[CurrentRow(t)] \in {INVALID_TRANSACTION_ID, t}
  /\ tids' = [tids EXCEPT ![CurrentRow(t)] = IF @ = t THEN INVALID_TRANSACTION_ID ELSE t]
  /\ WriteDone(t)
  /\ UNCHANGED <<orderVars, size, begin_cids, end_cids, snapshot, pc, ops, inserts_next, readVars>>

(* The row is locked by another transaction: the operator fails.           *)
LockFails(t) ==
  /\ NextWrite(t, "lock")
  /\ tids[CurrentRow(t)] \notin {INVALID_TRANSACTION_ID, t}
  /\ Goto(t, "Executing", "Failed")
  /\ UNCHANGED <<orderVars, rowVars, snapshot, workVars, readVars>>

-----------------------------------------------------------------------------
(* Commit: a commit id is assigned, every operator writes it to its rows,  *)
(* then the transaction is pending until CommitOrder makes it visible.     *)
(* Rollback: every operator takes its changes back.                        *)

PrepareCommit(t) ==
  /\ Goto(t, "Active", "Committing")
  /\ newest_id + 1 < MAX_COMMIT_ID
  /\ Order!AssignId(t)
  /\ at' = [at EXCEPT ![t] = FirstWrite(1)]
  /\ UNCHANGED <<rowVars, snapshot, ops, inserts_next, readVars>>

Abort(t) ==
  /\ pc[t] \in {"Active", "Failed"}
  /\ pc' = [pc EXCEPT ![t] = "Aborted"]
  /\ at' = [at EXCEPT ![t] = FirstWrite(1)]
  /\ UNCHANGED <<orderVars, rowVars, snapshot, ops, inserts_next, readVars>>

NextOperator(t) ==
  /\ pc[t] \in {"Committing", "Aborted"}
  /\ ~NoOperatorLeft(t) /\ OperatorDone(t)
  /\ at' = [at EXCEPT ![t] = FirstWrite(@.op + 1)]
  /\ UNCHANGED <<orderVars, rowVars, snapshot, pc, ops, inserts_next, readVars>>

MakePending(t) ==
  /\ Goto(t, "Committing", "Pending")
  /\ NoOperatorLeft(t)
  /\ Order!MakeReady(t)
  /\ UNCHANGED <<rowVars, snapshot, workVars, readVars>>

Advance(t) ==
  /\ Order!Advance(t)
  /\ UNCHANGED <<rowVars, snapshot, pc, workVars, readVars>>

Committed(t) ==
  /\ Goto(t, "Pending", "Committed")
  /\ Order!Notify(t)
  /\ UNCHANGED <<rowVars, snapshot, workVars, readVars>>

RolledBack(t) ==
  /\ Goto(t, "Aborted", "RolledBack")
  /\ NoOperatorLeft(t)
  /\ UNCHANGED <<orderVars, rowVars, snapshot, workVars, readVars>>

(* The writes: a commit writes the commit id, a rollback zero.             *)
CidToWrite(t) == IF pc[t] = "Committing" THEN cid[t] ELSE 0

WriteBegin(t) ==
  /\ NextWrite(t, "begin")
  /\ begin_cids' = [begin_cids EXCEPT ![CurrentRow(t)] = CidToWrite(t)]
  /\ WriteDone(t)
  /\ UNCHANGED <<orderVars, size, tids, end_cids, snapshot, pc, ops, inserts_next, readVars>>

WriteEnd(t) ==
  /\ NextWrite(t, "end")
  /\ end_cids' = [end_cids EXCEPT ![CurrentRow(t)] = CidToWrite(t)]
  /\ WriteDone(t)
  /\ UNCHANGED <<orderVars, size, tids, begin_cids, snapshot, pc, ops, inserts_next, readVars>>

FreeRow(t) ==
  /\ NextWrite(t, "free")
  /\ tids' = [tids EXCEPT ![CurrentRow(t)] = INVALID_TRANSACTION_ID]
  /\ WriteDone(t)
  /\ UNCHANGED <<orderVars, size, begin_cids, end_cids, snapshot, pc, ops, inserts_next, readVars>>

(* Delete rolls back by a compare-and-swap per row.                        *)
UnlockRow(t) ==
  /\ NextWrite(t, "unlock")
  /\ tids[CurrentRow(t)] = t
  /\ tids' = [tids EXCEPT ![CurrentRow(t)] = INVALID_TRANSACTION_ID]
  /\ WriteDone(t)
  /\ UNCHANGED <<orderVars, size, begin_cids, end_cids, snapshot, pc, ops, inserts_next, readVars>>

(* It returns at the first row that this transaction has not locked.       *)
UnlockStops(t) ==
  /\ NextWrite(t, "unlock")
  /\ tids[CurrentRow(t)] # t
  /\ at' = [at EXCEPT ![t] = WriteAt(@.op, Len(CurrentOp(t).rows) + 1, 1)]
  /\ UNCHANGED <<orderVars, rowVars, snapshot, pc, ops, inserts_next, readVars>>

-----------------------------------------------------------------------------

Statement(t) ==
  \/ \E n \in 1..(MaxRows - InitialRows) : Insert(t, n)
  \/ \E n \in 1..MaxRows : \E p \in PosLists(n, seen[t]) :
       Delete(t, p, 0) \/ Delete(t, p, n)

Step(t) ==
  \/ Begin(t)
  \/ \E r \in Row : StartReading(t, r)
  \/ ReadBegin(t) \/ ReadEnd(t) \/ RowRead(t)
  \/ Statement(t) \/ UpdateInserts(t) \/ Executed(t)
  \/ SetOwnTid(t) \/ LockRow(t) \/ LockFails(t)
  \/ PrepareCommit(t) \/ MakePending(t) \/ Advance(t) \/ Committed(t)
  \/ Abort(t) \/ RolledBack(t)
  \/ NextOperator(t)
  \/ WriteBegin(t) \/ WriteEnd(t) \/ FreeRow(t) \/ UnlockRow(t) \/ UnlockStops(t)

Next == (\E t \in Txn : Step(t)) /\ UNCHANGED loads_in_order

Spec == Init /\ [][Next]_vars

-----------------------------------------------------------------------------

(* The fields have their types, operators work on rows of the table, and   *)
(* every loop stays within the rows and fields of its operator.            *)
TypeOK ==
  /\ size \in 0..MaxRows
  /\ tids \in [Row -> Txn \cup {INVALID_TRANSACTION_ID}]
  /\ begin_cids \in [Row -> Nat] /\ end_cids \in [Row -> Nat]
  /\ snapshot \in [Txn -> Nat] /\ inserts_next \in [Txn -> Nat]
  /\ at \in [Txn -> [op : Nat \ {0}, row : Nat \ {0}, field : 1..3]]
  /\ \A t \in Txn :
       /\ at[t].op <= Len(ops[t]) + 1
       /\ \A i \in 1..Len(ops[t]) : \A j \in 1..Len(ops[t][i].rows) : ops[t][i].rows[j] \in 1..size
       /\ seen[t] \subseteq 1..size
       /\ pc[t] \in {"Executing", "Committing", "Aborted"} /\ ~NoOperatorLeft(t) =>
            at[t].row <= Len(CurrentOp(t).rows) + 1 /\ at[t].field <= Len(Fields(t))

RowsOf(t, kind) ==
  {r \in Row : \E i \in 1..Len(ops[t]) :
     ops[t][i].kind = kind /\ \E j \in 1..Len(ops[t][i].rows) : ops[t][i].rows[j] = r}

(* Whether t works on what u did: its own operators, and those of the      *)
(* transactions that had become visible when t began.                      *)
Observes(t, u) == u = t \/ (Order!HasId(u) /\ cid[u] <= snapshot[t])

InSnapshot(t, r) ==
  /\ r <= InitialRows \/ \E u \in Txn : Observes(t, u) /\ r \in RowsOf(u, "Insert")
  /\ ~\E u \in Txn : Observes(t, u) /\ r \in RowsOf(u, "Delete")

(* Validate passes exactly the rows of the transaction's snapshot, whatever *)
(* other transactions do between its three loads: the rows that committed   *)
(* before it began, with its own changes.  (validate.cpp, is_row_visible.)  *)
(* It depends on the order of the loads: the rollback of an Insert writes   *)
(* end before begin, and a build may load end first.                        *)
ReadsSnapshot ==
  [][\A t \in Txn : loads_in_order /\ pc[t] = "Reading" /\ pc'[t] = "Active" =>
       (reading[t].row \in seen'[t] <=> InSnapshot(t, reading[t].row))]_vars

(* Two transactions that both commit have never deleted or updated the same *)
(* row: the second one finds it locked, even after the first has committed. *)
(* (delete.cpp, _on_execute and _on_commit_records.)  With the loads in     *)
(* another order both may have deleted a row whose Insert is rolled back.   *)
NoLostUpdate ==
  \A t, u \in Txn : loads_in_order /\ t # u /\ Order!HasId(t) /\ Order!HasId(u) =>
    RowsOf(t, "Delete") \cap RowsOf(u, "Delete") = {}

(* A transaction that has rolled back holds no lock: its rows can be        *)
(* changed again.  (delete.cpp, _on_rollback_records: "unlock all rows      *)
(* locked in _on_execute".)                                                *)
RollbackUnlocks ==
  \A t \in Txn : pc[t] = "RolledBack" => \A r \in Row : tids[r] # t

(* A row that a committed transaction deleted stays locked by it for good,  *)
(* unless that transaction had inserted the row itself.  (With the loads in *)
(* another order it may have deleted a row whose Insert is rolled back.)    *)
DeletedStaysLocked ==
  \A t \in Txn : \A r \in RowsOf(t, "Delete") \ RowsOf(t, "Insert") :
    loads_in_order /\ pc[t] \in {"Committing", "Pending", "Committed"} => tids[r] = t

(* Nothing tells one transaction from another but what it does.             *)
TxnSymmetry == Permutations(Txn)

=============================================================================
