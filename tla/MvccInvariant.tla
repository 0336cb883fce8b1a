--------------------------- MODULE MvccInvariant ----------------------------
(***************************************************************************)
(* The inductive invariant of MVCC, and its part about types, loops and    *)
(* commit ids: no step breaks it.                                          *)
(***************************************************************************)
EXTENDS Mvcc, TLAPS

Ins(t) == RowsOf(t, "Insert")
Del(t) == RowsOf(t, "Delete")

(* The rows of a transaction's operators that its current loop is through  *)
(* with.                                                                   *)
Done(t, kind) ==
  {r \in Row : \E i \in 1..Len(ops[t]) :
     /\ ops[t][i].kind = kind
     /\ \E j \in 1..Len(ops[t][i].rows) :
          ops[t][i].rows[j] = r /\ (i < at[t].op \/ (i = at[t].op /\ j < at[t].row))}

Running == {"Active", "Reading", "Executing"}
HasCommitId == {"Committing", "Pending", "Committed"}
IsAborted == {"Aborted", "RolledBack"}
Pc == Running \cup HasCommitId \cup IsAborted \cup {"NotStarted", "Failed"}

OpType == [kind : {"Insert", "Delete"}, rows : Seq(Row)]
AtType == [op : Nat \ {0}, row : Nat \ {0}, field : 1..3]
ReadType == [row : 0..MaxRows, tid : Txn \cup {INVALID_TRANSACTION_ID}, begin : Int, end : Int]

TypeInv ==
  /\ size \in InitialRows..MaxRows
  /\ tids \in [Row -> Txn \cup {INVALID_TRANSACTION_ID}]
  /\ begin_cids \in [Row -> 0..MAX_COMMIT_ID] /\ end_cids \in [Row -> 0..MAX_COMMIT_ID]
  /\ snapshot \in [Txn -> Nat] /\ inserts_next \in [Txn -> Nat]
  /\ at \in [Txn -> AtType]
  /\ ops \in [Txn -> Seq(OpType)]
  /\ pc \in [Txn -> Pc]
  /\ reading \in [Txn -> ReadType]
  /\ seen \in [Txn -> SUBSET (1..size)]
  /\ loads_in_order \in BOOLEAN
  /\ last_commit_id \in Nat /\ newest_id \in Nat /\ cid \in [Txn -> Nat]
  /\ ready \subseteq Txn /\ committed \subseteq Txn

(* Where the loops of a transaction are.                                   *)
Loop(t) ==
  /\ at[t].op <= Len(ops[t]) + 1
  /\ \A i \in 1..Len(ops[t]) : \A j \in 1..Len(ops[t][i].rows) : ops[t][i].rows[j] <= size
  /\ pc[t] = "NotStarted" => ops[t] = <<>>
  /\ pc[t] \in {"Active", "Reading"} =>
       Len(ops[t]) <= at[t].op /\ (at[t].op = Len(ops[t]) => OperatorDone(t))
  /\ pc[t] = "Reading" => reading[t].row \in 1..size
  /\ pc[t] = "Executing" => at[t].op = Len(ops[t])
  /\ pc[t] \in {"Executing", "Committing", "Aborted"} /\ ~NoOperatorLeft(t) =>
       at[t].row <= Len(CurrentOp(t).rows) + 1 /\ at[t].field <= Len(Fields(t))

LoopInv == \A t \in Txn : Loop(t)

(* Commit ids are distinct, and what is visible is completely written.     *)
OrderInv ==
  /\ INITIAL_COMMIT_ID <= last_commit_id /\ last_commit_id <= newest_id
  /\ newest_id < MAX_COMMIT_ID
  /\ \A t \in Txn :
       /\ cid[t] # 0 <=> pc[t] \in HasCommitId
       /\ cid[t] <= newest_id
       /\ t \in ready <=> pc[t] \in {"Pending", "Committed"}
       /\ cid[t] # 0 /\ cid[t] <= last_commit_id => t \in ready
       /\ snapshot[t] <= last_commit_id
       /\ \A u \in Txn : cid[t] # 0 /\ cid[t] = cid[u] => t = u

(* Rows are inserted once.                                                 *)
RowInv ==
  /\ \A t \in Txn : \A r \in Ins(t) : InitialRows < r
  /\ \A t, u \in Txn : t # u => Ins(t) \cap Ins(u) = {}
  /\ \A r \in 1..size : InitialRows < r => \E t \in Txn : r \in Ins(t)
  /\ \A r \in Row : size < r => /\ tids[r] = INVALID_TRANSACTION_ID
                                /\ begin_cids[r] = MAX_COMMIT_ID /\ end_cids[r] = MAX_COMMIT_ID

(* What the fields of a row say about who inserted and who deleted it.     *)
InitialInv == \A r \in 1..InitialRows : begin_cids[r] = 0

BeginOf(t, r) ==
  /\ pc[t] \in Running \cup {"Failed"} => begin_cids[r] = MAX_COMMIT_ID
  /\ pc[t] = "Committing" =>
       /\ begin_cids[r] \in {MAX_COMMIT_ID, cid[t]}
       /\ r \in Done(t, "Insert") => begin_cids[r] = cid[t]
  /\ pc[t] \in {"Pending", "Committed"} => begin_cids[r] = cid[t]
  /\ pc[t] \in IsAborted =>
       begin_cids[r] = MAX_COMMIT_ID \/ (begin_cids[r] = 0 /\ end_cids[r] = 0)

EndOf(t, r) ==
  /\ pc[t] = "Committing" /\ r \in Done(t, "Delete") => end_cids[r] = cid[t]
  /\ pc[t] \in {"Pending", "Committed"} => end_cids[r] = cid[t]

(* The row whose Insert is being committed or rolled back.                 *)
Halfway(t) == ~NoOperatorLeft(t) /\ ~OperatorDone(t) /\ CurrentOp(t).kind = "Insert" /\ at[t].field = 2

HalfwayOf(t) ==
  Halfway(t) => /\ pc[t] = "Committing" => begin_cids[CurrentRow(t)] = cid[t]
                /\ pc[t] = "Aborted" => end_cids[CurrentRow(t)] = 0

(* Why the row ends.                                                       *)
CauseOf(r) ==
  \/ end_cids[r] = MAX_COMMIT_ID
  \/ \E t \in Txn : cid[t] # 0 /\ r \in Del(t) /\ end_cids[r] = cid[t]
  \/ end_cids[r] = 0 /\ \E t \in Txn : r \in Ins(t) /\ pc[t] \in IsAborted

FieldInv ==
  /\ InitialInv
  /\ \A t \in Txn : \A r \in Ins(t) : BeginOf(t, r)
  /\ \A t \in Txn : \A r \in Del(t) : EndOf(t, r)
  /\ \A t \in Txn : HalfwayOf(t)
  /\ \A r \in Row : CauseOf(r)

(* A transaction holds the rows it has deleted and those it has inserted,  *)
(* but not the ones it has inserted and deleted.                           *)
LockOf(t) ==
  /\ \A r \in Row : tids[r] = t =>
       r \in Ins(t) \/ r \in (IF pc[t] \in Running THEN Done(t, "Delete") ELSE Del(t))
  /\ pc[t] \in Running => \A r \in Done(t, "Delete") :
       IF r \in Ins(t) THEN tids[r] # t ELSE tids[r] = t
  /\ pc[t] \in HasCommitId => \A r \in Del(t) \ Ins(t) : tids[r] = t
  /\ pc[t] \in Running => \A r \in Done(t, "Insert") \ Done(t, "Delete") : tids[r] = t

LockInv == \A t \in Txn : LockOf(t)

(* The current operator works on rows that its transaction has not deleted *)
(* yet, each of them once.                                                 *)
FreshOf(t) ==
  pc[t] = "Executing" =>
    \A j \in 1..Len(CurrentOp(t).rows) :
      /\ at[t].row <= j => CurrentOp(t).rows[j] \notin Done(t, "Delete")
      /\ CurrentOp(t).kind = "Insert" => CurrentOp(t).rows[j] \notin Del(t)
      /\ CurrentOp(t).kind = "Delete" => \A k \in 1..Len(CurrentOp(t).rows) :
           j # k => CurrentOp(t).rows[j] # CurrentOp(t).rows[k]

FreshInv == \A t \in Txn : FreshOf(t)

Inserted(t, r) == r <= InitialRows \/ \E u \in Txn : Observes(t, u) /\ r \in Ins(u)
DeletedByOther(t, r) == \E u \in Txn : u # t /\ Observes(t, u) /\ r \in Del(u)

(* Transactions delete what was there when they began.                     *)
SeenOf(t) ==
  /\ \A r \in Del(t) : Inserted(t, r) /\ ~DeletedByOther(t, r)
  /\ \A r \in seen[t] : Inserted(t, r) /\ ~DeletedByOther(t, r) /\ r \notin Del(t)
  /\ pc[t] = "NotStarted" => seen[t] = {}

SeenInv == \A t \in Txn : SeenOf(t)

(* What Validate has loaded of a row.                                      *)
TidRead(t, r) ==
  /\ reading[t].tid = t => r \in Ins(t) \/ r \in Del(t)
  /\ r \in Ins(t) => (reading[t].tid = t <=> r \notin Del(t))
  /\ r \in Del(t) /\ r \notin Ins(t) => reading[t].tid = t

BeginRead(t, r) ==
  /\ r <= InitialRows => reading[t].begin <= snapshot[t]
  /\ r \in Ins(t) => snapshot[t] < reading[t].begin
  /\ \A u \in Txn : u # t /\ r \in Ins(u) =>
       IF Observes(t, u) THEN reading[t].begin <= snapshot[t]
       ELSE \/ snapshot[t] < reading[t].begin
            \/ pc[u] \in IsAborted /\ end_cids[r] = 0 /\ reading[t].end \in {-1, 0}

EndRead(t, r) ==
  /\ DeletedByOther(t, r) => reading[t].end <= snapshot[t]
  /\ Inserted(t, r) /\ ~DeletedByOther(t, r) => snapshot[t] < reading[t].end

ReadOf(t) ==
  pc[t] = "Reading" =>
    /\ reading[t].end # -1 => reading[t].begin # -1
    /\ TidRead(t, reading[t].row)
    /\ reading[t].begin # -1 => BeginRead(t, reading[t].row)
    /\ reading[t].end # -1 => EndRead(t, reading[t].row)

ReadInv == \A t \in Txn : ReadOf(t)

Versions == RowInv /\ FieldInv /\ LockInv /\ FreshInv /\ SeenInv /\ ReadInv

Base == TypeInv /\ LoopInv /\ OrderInv

Inv == Base /\ (loads_in_order => Versions)

-----------------------------------------------------------------------------
(* The loops of a transaction.                                             *)

(* What a transaction is about to write, and where.                        *)
LEMMA WriteFacts ==
  ASSUME TypeInv, LoopInv, NEW t \in Txn, NEW f, NextWrite(t, f)
  PROVE  /\ at[t].op \in 1..Len(ops[t]) /\ CurrentOp(t) \in OpType
         /\ at[t].row \in 1..Len(CurrentOp(t).rows)
         /\ CurrentRow(t) \in 1..size /\ CurrentRow(t) \in Row
         /\ \/ /\ pc[t] = "Executing" /\ CurrentOp(t).kind = "Insert" /\ Len(Fields(t)) = 1
               /\ at[t].field = 1 /\ f = "own"
            \/ /\ pc[t] = "Executing" /\ CurrentOp(t).kind = "Delete" /\ Len(Fields(t)) = 1
               /\ at[t].field = 1 /\ f = "lock"
            \/ /\ pc[t] = "Committing" /\ CurrentOp(t).kind = "Insert" /\ Len(Fields(t)) = 2
               /\ ((at[t].field = 1 /\ f = "begin") \/ (at[t].field = 2 /\ f = "free"))
            \/ /\ pc[t] = "Committing" /\ CurrentOp(t).kind = "Delete" /\ Len(Fields(t)) = 1
               /\ at[t].field = 1 /\ f = "end"
            \/ /\ pc[t] = "Aborted" /\ CurrentOp(t).kind = "Insert" /\ Len(Fields(t)) = 3
               /\ \/ at[t].field = 1 /\ f = "end"
                  \/ at[t].field = 2 /\ f = "begin"
                  \/ at[t].field = 3 /\ f = "free"
            \/ /\ pc[t] = "Aborted" /\ CurrentOp(t).kind = "Delete" /\ Len(Fields(t)) = 1
               /\ at[t].field = 1 /\ f = "unlock"
<1>1. at[t].op \in 1..Len(ops[t]) /\ CurrentOp(t) \in OpType
  <2>1. ops[t] \in Seq(OpType) /\ at[t].op \in Nat \ {0} /\ Len(ops[t]) \in Nat
    BY DEF TypeInv, AtType
  <2>2. at[t].op \in 1..Len(ops[t])
    BY <2>1 DEF NextWrite, NoOperatorLeft
  <2> QED BY <2>1, <2>2 DEF CurrentOp
<1>2. at[t].row \in 1..Len(CurrentOp(t).rows) /\ CurrentRow(t) \in Row
  <2>1. at[t].row \in Nat \ {0}
    BY Zenon DEF TypeInv, AtType
  <2>2. CurrentOp(t).rows \in Seq(Row) /\ Len(CurrentOp(t).rows) \in Nat
    BY <1>1 DEF OpType
  <2>3. at[t].row \in 1..Len(CurrentOp(t).rows)
    BY <2>1, <2>2, SMTT(30) DEF NextWrite, OperatorDone
  <2> QED BY <2>2, <2>3 DEF CurrentRow
<1>3. CurrentRow(t) \in 1..size
  <2>1. ops[t][at[t].op].rows[at[t].row] <= size
    BY <1>1, <1>2, Zenon DEF LoopInv, Loop, CurrentOp
  <2> QED BY <1>2, <2>1, MvccAssumption DEF CurrentRow, CurrentOp, Row, TypeInv
<1>4. CurrentOp(t).kind \in {"Insert", "Delete"} /\ at[t].field \in Nat \ {0}
  <2>1. CurrentOp(t).kind \in {"Insert", "Delete"}
    BY <1>1, Zenon DEF OpType
  <2>2. at[t].field \in 1..3
    BY Zenon DEF TypeInv, AtType
  <2> QED BY <2>1, <2>2
<1>5. at[t].field <= Len(Fields(t))
  BY <1>1, Zenon DEF LoopInv, Loop, NextWrite
<1>6. CASE pc[t] = "Executing"
  <2>1. Fields(t) = ExecuteFields(CurrentOp(t).kind)
    BY <1>6, Zenon DEF Fields
  <2>2. CASE CurrentOp(t).kind = "Insert"
    <3>1. Fields(t) = <<"own">>
      BY <2>1, <2>2, Zenon DEF ExecuteFields
    <3>2. Len(Fields(t)) = 1 /\ Fields(t)[1] = "own"
      BY <3>1
    <3>3. at[t].field \in {1} /\ f = Fields(t)[at[t].field]
      BY <1>4, <1>5, <3>2 DEF NextWrite
    <3>4. (at[t].field = 1 /\ f = "own")
      BY <3>2, <3>3, Zenon
    <3> QED BY <1>1, <1>2, <1>3, <1>6, <2>2, <3>2, <3>4, Zenon
  <2>3. CASE CurrentOp(t).kind = "Delete"
    <3>1. Fields(t) = <<"lock">>
      BY <2>1, <2>3, Zenon DEF ExecuteFields
    <3>2. Len(Fields(t)) = 1 /\ Fields(t)[1] = "lock"
      BY <3>1
    <3>3. at[t].field \in {1} /\ f = Fields(t)[at[t].field]
      BY <1>4, <1>5, <3>2 DEF NextWrite
    <3>4. (at[t].field = 1 /\ f = "lock")
      BY <3>2, <3>3, Zenon
    <3> QED BY <1>1, <1>2, <1>3, <1>6, <2>3, <3>2, <3>4, Zenon
  <2> QED BY <1>4, <2>2, <2>3, Zenon
<1>7. CASE pc[t] = "Committing"
  <2>1. Fields(t) = CommitFields(CurrentOp(t).kind)
    BY <1>7, Zenon DEF Fields
  <2>2. CASE CurrentOp(t).kind = "Insert"
    <3>1. Fields(t) = <<"begin", "free">>
      BY <2>1, <2>2, Zenon DEF CommitFields
    <3>2. Len(Fields(t)) = 2 /\ Fields(t)[1] = "begin" /\ Fields(t)[2] = "free"
      BY <3>1
    <3>3. at[t].field \in {1, 2} /\ f = Fields(t)[at[t].field]
      BY <1>4, <1>5, <3>2 DEF NextWrite
    <3>4. (at[t].field = 1 /\ f = "begin") \/ (at[t].field = 2 /\ f = "free")
      BY <3>2, <3>3, Zenon
    <3> QED BY <1>1, <1>2, <1>3, <1>7, <2>2, <3>2, <3>4, Zenon
  <2>3. CASE CurrentOp(t).kind = "Delete"
    <3>1. Fields(t) = <<"end">>
      BY <2>1, <2>3, Zenon DEF CommitFields
    <3>2. Len(Fields(t)) = 1 /\ Fields(t)[1] = "end"
      BY <3>1
    <3>3. at[t].field \in {1} /\ f = Fields(t)[at[t].field]
      BY <1>4, <1>5, <3>2 DEF NextWrite
    <3>4. (at[t].field = 1 /\ f = "end")
      BY <3>2, <3>3, Zenon
    <3> QED BY <1>1, <1>2, <1>3, <1>7, <2>3, <3>2, <3>4, Zenon
  <2> QED BY <1>4, <2>2, <2>3, Zenon
<1>8. CASE pc[t] = "Aborted"
  <2>1. Fields(t) = RollbackFields(CurrentOp(t).kind)
    BY <1>8, Zenon DEF Fields
  <2>2. CASE CurrentOp(t).kind = "Insert"
    <3>1. Fields(t) = <<"end", "begin", "free">>
      BY <2>1, <2>2, Zenon DEF RollbackFields
    <3>2. Len(Fields(t)) = 3 /\ Fields(t)[1] = "end" /\ Fields(t)[2] = "begin" /\ Fields(t)[3] = "free"
      BY <3>1
    <3>3. at[t].field \in {1, 2, 3} /\ f = Fields(t)[at[t].field]
      BY <1>4, <1>5, <3>2 DEF NextWrite
    <3>4. (at[t].field = 1 /\ f = "end") \/ (at[t].field = 2 /\ f = "begin") \/ (at[t].field = 3 /\ f = "free")
      BY <3>2, <3>3, Zenon
    <3> QED BY <1>1, <1>2, <1>3, <1>8, <2>2, <3>2, <3>4, Zenon
  <2>3. CASE CurrentOp(t).kind = "Delete"
    <3>1. Fields(t) = <<"unlock">>
      BY <2>1, <2>3, Zenon DEF RollbackFields
    <3>2. Len(Fields(t)) = 1 /\ Fields(t)[1] = "unlock"
      BY <3>1
    <3>3. at[t].field \in {1} /\ f = Fields(t)[at[t].field]
      BY <1>4, <1>5, <3>2 DEF NextWrite
    <3>4. (at[t].field = 1 /\ f = "unlock")
      BY <3>2, <3>3, Zenon
    <3> QED BY <1>1, <1>2, <1>3, <1>8, <2>3, <3>2, <3>4, Zenon
  <2> QED BY <1>4, <2>2, <2>3, Zenon
<1> QED BY <1>6, <1>7, <1>8, Zenon DEF NextWrite

(* A write leaves the loops within their bounds.                           *)
LEMMA WriteLoops ==
  ASSUME TypeInv, LoopInv, NEW t \in Txn, NEW f, NextWrite(t, f), WriteDone(t),
         UNCHANGED <<ops, pc, size, reading>>
  PROVE  at' \in [Txn -> AtType] /\ LoopInv'
<1>1. /\ at[t].op \in 1..Len(ops[t]) /\ at[t].row \in 1..Len(CurrentOp(t).rows)
      /\ Len(Fields(t)) \in 1..3 /\ pc[t] \in {"Executing", "Committing", "Aborted"}
  BY WriteFacts
<1>2. at[t] \in AtType /\ at[t].field \in 1..Len(Fields(t)) /\ Len(CurrentOp(t).rows) \in Nat
  <2>1. at[t] \in AtType /\ CurrentOp(t) \in OpType
    BY WriteFacts, Zenon DEF TypeInv
  <2>2. at[t].field \in 1..Len(Fields(t))
    BY <1>1, <2>1 DEF LoopInv, Loop, AtType, NextWrite
  <2> QED BY <2>1, <2>2 DEF OpType
<1>3. /\ at'[t] \in AtType /\ at'[t].op = at[t].op
      /\ \/ at[t].field < Len(Fields(t)) /\ at'[t].row = at[t].row /\ at'[t].field = at[t].field + 1
         \/ at[t].field = Len(Fields(t)) /\ at'[t].row = at[t].row + 1 /\ at'[t].field = 1
  <2>1. at'[t] = IF at[t].field < Len(Fields(t)) THEN WriteAt(at[t].op, at[t].row, at[t].field + 1)
                ELSE WriteAt(at[t].op, at[t].row + 1, 1)
    BY Zenon DEF TypeInv, WriteDone
  <2>2. at[t].field \in Nat /\ Len(Fields(t)) \in Nat /\ at[t].field <= Len(Fields(t))
    BY <1>1, <1>2
  <2>3. CASE at[t].field < Len(Fields(t))
    <3>1. at'[t] = WriteAt(at[t].op, at[t].row, at[t].field + 1)
      BY <2>1, <2>3, Zenon
    <3>2. \A n \in 1..3 : \A k \in 1..n : k < n => k + 1 \in 1..3
      OBVIOUS
    <3>3. at[t].field + 1 \in 1..3
      BY <1>1, <1>2, <2>3, <3>2, Zenon
    <3> QED BY <1>2, <2>3, <3>1, <3>3 DEF AtType, WriteAt
  <2>4. CASE at[t].field = Len(Fields(t))
    <3>1. at'[t] = WriteAt(at[t].op, at[t].row + 1, 1)
      BY <2>1, <2>2, <2>4
    <3> QED BY <1>1, <1>2, <2>2, <2>4, <3>1 DEF AtType, WriteAt
  <2> QED BY <2>2, <2>3, <2>4
<1>4. at' \in [Txn -> AtType] /\ \A u \in Txn \ {t} : at'[u] = at[u]
  BY <1>3, Zenon DEF TypeInv, WriteDone
<1>5. CurrentOp(t)' = CurrentOp(t) /\ Fields(t)' = Fields(t)
  BY <1>3, Zenon DEF CurrentOp, Fields
<1>6. Loop(t)'
  <2>1. at'[t].row <= Len(CurrentOp(t).rows) + 1 /\ at'[t].field <= Len(Fields(t))
    BY <1>1, <1>2, <1>3
  <2> QED BY <1>1, <1>3, <1>5, <2>1, Zenon DEF LoopInv, Loop, NoOperatorLeft
<1>7. \A u \in Txn \ {t} : Loop(u)'
  BY <1>4, Zenon DEF LoopInv, Loop, NoOperatorLeft, OperatorDone, CurrentOp, Fields
<1> QED BY <1>4, <1>6, <1>7, Zenon DEF LoopInv

(* The steps that only read or take a transaction to its next phase.       *)
LEMMA BaseOfPhases ==
  ASSUME Base, NEW t \in Txn, UNCHANGED <<rowVars, loads_in_order>>,
         Begin(t) \/ (\E r \in Row : StartReading(t, r)) \/ ReadBegin(t) \/ ReadEnd(t)
           \/ RowRead(t) \/ Executed(t) \/ LockFails(t)
  PROVE  Base'
<1>1. /\ at' = at /\ ops' = ops /\ size' = size /\ UNCHANGED orderVars
      /\ inserts_next' = inserts_next
  BY Zenon DEF Begin, StartReading, ReadBegin, ReadEnd, RowRead, Executed, LockFails, workVars, rowVars
<1>2. pc' \in [Txn -> Pc] /\ \A u \in Txn \ {t} : pc'[u] = pc[u]
  BY Zenon DEF Base, TypeInv, Pc, Running, Begin, StartReading, ReadBegin, ReadEnd, RowRead, Executed,
     LockFails, Goto
<1>3. \/ pc'[t] = pc[t]
      \/ pc[t] = "NotStarted" /\ pc'[t] = "Active"
      \/ pc[t] = "Active" /\ pc'[t] = "Reading"
      \/ pc[t] = "Reading" /\ pc'[t] = "Active"
      \/ pc[t] = "Executing" /\ pc'[t] = "Active" /\ OperatorDone(t)
      \/ pc[t] = "Executing" /\ pc'[t] = "Failed"
  BY Zenon DEF Base, TypeInv, Begin, StartReading, ReadBegin, ReadEnd, RowRead, Executed, LockFails, Goto
<1>4. snapshot' \in [Txn -> Nat] /\ \A u \in Txn : snapshot'[u] <= last_commit_id
  <2>1. last_commit_id \in Nat /\ snapshot \in [Txn -> Nat] /\ \A u \in Txn : snapshot[u] <= last_commit_id
    BY Zenon DEF Base, TypeInv, OrderInv
  <2>2. snapshot' = snapshot \/ snapshot' = [snapshot EXCEPT ![t] = last_commit_id]
    BY Zenon DEF Begin, StartReading, ReadBegin, ReadEnd, RowRead, Executed, LockFails
  <2> QED BY <2>1, <2>2
<1>5. reading' \in [Txn -> ReadType]
  <2> USE DEF Loaded
  <2>1. reading \in [Txn -> ReadType] /\ NothingRead \in ReadType
    BY MvccAssumption DEF Base, TypeInv, NothingRead, ReadType
  <2>2. /\ reading[t].row \in 0..MaxRows /\ reading[t].tid \in Txn \cup {INVALID_TRANSACTION_ID}
        /\ reading[t].begin \in Int /\ reading[t].end \in Int
    BY <2>1, Zenon DEF ReadType
  <2>3. CASE \E r \in Row : StartReading(t, r)
    <3>1. PICK r \in Row : StartReading(t, r)
      BY <2>3, Zenon
    <3>2. tids[r] \in Txn \cup {INVALID_TRANSACTION_ID} /\ r \in 0..MaxRows
      BY MvccAssumption DEF Base, TypeInv, Row
    <3>3. Loaded(r, tids[r], -1, -1) \in ReadType
      BY <3>2 DEF ReadType
    <3> QED BY <2>1, <3>1, <3>3, Zenon DEF StartReading
  <2>4. CASE ReadBegin(t)
    <3>1. reading[t].row \in Row
      BY <2>2, <2>4, MvccAssumption, SMTT(30) DEF Base, TypeInv, LoopInv, Loop, ReadBegin, Row
    <3>2. begin_cids[reading[t].row] \in Int
      BY <3>1, MvccAssumption DEF Base, TypeInv
    <3>3. Loaded(reading[t].row, reading[t].tid, begin_cids[reading[t].row], reading[t].end) \in ReadType
      BY <2>2, <3>2, Zenon DEF ReadType
    <3> QED BY <2>1, <2>4, <3>3, Zenon DEF ReadBegin
  <2>5. CASE ReadEnd(t)
    <3>1. reading[t].row \in Row
      BY <2>2, <2>5, MvccAssumption, SMTT(30) DEF Base, TypeInv, LoopInv, Loop, ReadEnd, Row
    <3>2. end_cids[reading[t].row] \in Int
      BY <3>1, MvccAssumption DEF Base, TypeInv
    <3>3. Loaded(reading[t].row, reading[t].tid, reading[t].begin, end_cids[reading[t].row]) \in ReadType
      BY <2>2, <3>2, Zenon DEF ReadType
    <3> QED BY <2>1, <2>5, <3>3, Zenon DEF ReadEnd
  <2>6. CASE RowRead(t)
    BY <2>1, <2>6, Zenon DEF RowRead
  <2>7. CASE Begin(t) \/ Executed(t) \/ LockFails(t)
    BY <2>1, <2>7, Zenon DEF Begin, Executed, LockFails, readVars
  <2> QED BY <2>3, <2>4, <2>5, <2>6, <2>7, Zenon
<1>6. seen' \in [Txn -> SUBSET (1..size)]
  <2>1. seen \in [Txn -> SUBSET (1..size)]
    BY Zenon DEF Base, TypeInv
  <2>2. CASE RowRead(t)
    <3>1. reading[t].row \in 1..size
      BY <2>2, Zenon DEF Base, LoopInv, Loop, RowRead, Goto
    <3>2. \/ seen' = [seen EXCEPT ![t] = seen[t] \cup {reading[t].row}]
          \/ seen' = [seen EXCEPT ![t] = seen[t] \ {reading[t].row}]
      BY <2>2, Zenon DEF RowRead
    <3> QED BY <2>1, <3>1, <3>2, Zenon
  <2> QED BY <2>1, <2>2, Zenon DEF Begin, StartReading, ReadBegin, ReadEnd, Executed, LockFails, readVars
<1>7. TypeInv'
  BY <1>1, <1>2, <1>4, <1>5, <1>6, Zenon DEF Base, TypeInv, rowVars, orderVars
<1>8. LoopInv'
  <2>1. \A u \in Txn \ {t} : reading'[u] = reading[u]
    BY Zenon DEF Begin, StartReading, ReadBegin, ReadEnd, RowRead, Executed, LockFails, Base, TypeInv, readVars
  <2>2. \A u \in Txn \ {t} : Loop(u)'
    BY <1>1, <1>2, <2>1, ZenonT(40) DEF Base, LoopInv, Loop, NoOperatorLeft, OperatorDone, CurrentOp, Fields
  <2>3. CurrentOp(t)' = CurrentOp(t) /\ (OperatorDone(t)' <=> OperatorDone(t))
        /\ (NoOperatorLeft(t)' <=> NoOperatorLeft(t))
    BY <1>1, Zenon DEF CurrentOp, OperatorDone, NoOperatorLeft
  <2>4. pc'[t] = "Reading" => reading'[t].row \in 1..size
    <3>1. CASE \E r \in Row : StartReading(t, r)
      <4>1. PICK r \in Row : StartReading(t, r)
        BY <3>1, Zenon
      <4>2. reading'[t] = Loaded(r, tids[r], -1, -1) /\ r \in 1..size
        BY <4>1, MvccAssumption DEF StartReading, Base, TypeInv, Row
      <4> QED BY <4>2 DEF Loaded
    <3>2. CASE ReadBegin(t) \/ ReadEnd(t)
      <4>1. pc[t] = "Reading" /\ reading[t].row \in 1..size
        BY <3>2, Zenon DEF ReadBegin, ReadEnd, Base, LoopInv, Loop
      <4>2. reading'[t].row = reading[t].row
        BY <3>2 DEF ReadBegin, ReadEnd, Base, TypeInv, Loaded
      <4> QED BY <4>1, <4>2, Zenon
    <3>3. CASE Begin(t) \/ RowRead(t) \/ Executed(t) \/ LockFails(t)
      BY <3>3, Zenon DEF Begin, RowRead, Executed, LockFails, Goto, Base, TypeInv
    <3> QED BY <3>1, <3>2, <3>3, Zenon
  <2>5. pc'[t] = pc[t] => Fields(t)' = Fields(t)
    BY <2>3, Zenon DEF Fields
  <2>6. Loop(t)'
    <3>1. Loop(t)
      BY Zenon DEF Base, LoopInv
    <3>2. CASE pc'[t] = pc[t]
      BY <1>1, <2>3, <2>4, <2>5, <3>1, <3>2, Zenon DEF Loop
    <3>3. CASE pc[t] = "NotStarted" /\ pc'[t] = "Active"
      <4>1. ops[t] = <<>> /\ Len(ops[t]) = 0 /\ at[t].op \in Nat \ {0}
        BY <3>1, <3>3, Zenon DEF Loop, Base, TypeInv, AtType
      <4> QED BY <1>1, <2>3, <2>4, <3>1, <3>3, <4>1 DEF Loop
    <3>4. CASE pc[t] = "Active" /\ pc'[t] = "Reading"
      BY <1>1, <2>3, <2>4, <3>1, <3>4, Zenon DEF Loop
    <3>5. CASE pc[t] = "Reading" /\ pc'[t] = "Active"
      BY <1>1, <2>3, <2>4, <3>1, <3>5, Zenon DEF Loop
    <3>6. CASE pc[t] = "Executing" /\ pc'[t] = "Active" /\ OperatorDone(t)
      <4>1. Len(ops[t]) \in Nat
        BY DEF Base, TypeInv
      <4> QED BY <1>1, <2>3, <2>4, <3>1, <3>6, <4>1 DEF Loop
    <3>7. CASE pc[t] = "Executing" /\ pc'[t] = "Failed"
      BY <1>1, <2>3, <2>4, <3>1, <3>7, Zenon DEF Loop
    <3> QED BY <1>3, <3>2, <3>3, <3>4, <3>5, <3>6, <3>7, Zenon
  <2> QED BY <2>2, <2>6, Zenon DEF LoopInv
<1>9. OrderInv'
  BY <1>1, <1>2, <1>3, <1>4, Zenon DEF Base, OrderInv, TypeInv, orderVars, HasCommitId
<1> QED BY <1>7, <1>8, <1>9, Zenon DEF Base

(* The writes of the loops.                                                *)
LEMMA BaseOfWrites ==
  ASSUME Base, NEW t \in Txn, UNCHANGED loads_in_order,
         SetOwnTid(t) \/ LockRow(t) \/ WriteBegin(t) \/ WriteEnd(t) \/ FreeRow(t) \/ UnlockRow(t)
  PROVE  Base'
<1>1. PICK f : NextWrite(t, f)
  BY Zenon DEF SetOwnTid, LockRow, WriteBegin, WriteEnd, FreeRow, UnlockRow
<1>2. /\ UNCHANGED <<ops, pc, size, reading, seen, orderVars, snapshot, inserts_next>>
      /\ WriteDone(t)
  BY Zenon DEF SetOwnTid, LockRow, WriteBegin, WriteEnd, FreeRow, UnlockRow, readVars
<1>3. at' \in [Txn -> AtType] /\ LoopInv'
  BY <1>1, <1>2, WriteLoops, Zenon DEF Base
<1>4. CurrentRow(t) \in Row
  BY <1>1, WriteFacts, Zenon DEF Base
<1>5. cid[t] \in 0..MAX_COMMIT_ID /\ 0 \in 0..MAX_COMMIT_ID
  BY MvccAssumption DEF Base, OrderInv, TypeInv
<1>6. CidToWrite(t) \in 0..MAX_COMMIT_ID
  BY <1>5, Zenon DEF CidToWrite
<1>7. /\ tids' \in [Row -> Txn \cup {INVALID_TRANSACTION_ID}]
      /\ begin_cids' \in [Row -> 0..MAX_COMMIT_ID] /\ end_cids' \in [Row -> 0..MAX_COMMIT_ID]
  <2>1. /\ tids \in [Row -> Txn \cup {INVALID_TRANSACTION_ID}]
        /\ begin_cids \in [Row -> 0..MAX_COMMIT_ID] /\ end_cids \in [Row -> 0..MAX_COMMIT_ID]
    BY Zenon DEF Base, TypeInv
  <2> QED BY <1>4, <1>6, <2>1, Zenon DEF SetOwnTid, LockRow, WriteBegin, WriteEnd, FreeRow, UnlockRow
<1>8. TypeInv'
  BY <1>2, <1>3, <1>7, Zenon DEF Base, TypeInv, orderVars
<1>9. OrderInv'
  BY <1>2, Zenon DEF Base, OrderInv, orderVars
<1> QED BY <1>3, <1>8, <1>9, Zenon DEF Base

(* The ends of the loops.                                                  *)
LEMMA BaseOfLoopEnds ==
  ASSUME Base, NEW t \in Txn, UNCHANGED loads_in_order, NextOperator(t) \/ UnlockStops(t)
  PROVE  Base'
<1>1. UNCHANGED <<ops, pc, rowVars, reading, seen, orderVars, snapshot, inserts_next>>
  BY Zenon DEF NextOperator, UnlockStops, readVars
<1>2. /\ at[t] \in AtType /\ ops[t] \in Seq(OpType) /\ at[t].op \in 1..Len(ops[t])
      /\ CurrentOp(t) \in OpType /\ Len(ops[t]) \in Nat
      /\ pc[t] \in {"Executing", "Committing", "Aborted"}
  <2>1. /\ at[t] \in AtType /\ ops[t] \in Seq(OpType) /\ at[t].op \in Nat \ {0} /\ Len(ops[t]) \in Nat
        /\ ~NoOperatorLeft(t)
    BY DEF Base, TypeInv, AtType, NextOperator, UnlockStops, NextWrite
  <2>2. at[t].op \in 1..Len(ops[t])
    BY <2>1 DEF NoOperatorLeft
  <2> QED BY <2>1, <2>2 DEF CurrentOp, NextOperator, UnlockStops, NextWrite
<1>3. CurrentOp(t).rows \in Seq(Row) /\ Len(CurrentOp(t).rows) \in Nat
  BY <1>2 DEF OpType
<1>4. /\ at'[t] \in AtType
      /\ \/ at'[t].op = at[t].op /\ at'[t].row = Len(CurrentOp(t).rows) + 1 /\ at'[t].field = 1
         \/ at'[t].op = at[t].op + 1 /\ at'[t].row = 1 /\ at'[t].field = 1
  <2>1. \/ at'[t] = WriteAt(at[t].op, Len(CurrentOp(t).rows) + 1, 1)
        \/ at'[t] = WriteAt(at[t].op + 1, 1, 1)
    BY Zenon DEF Base, TypeInv, NextOperator, UnlockStops, FirstWrite
  <2> QED BY <1>2, <1>3, <2>1 DEF WriteAt, AtType
<1>5. at' \in [Txn -> AtType] /\ \A u \in Txn \ {t} : at'[u] = at[u]
  BY <1>4, Zenon DEF Base, TypeInv, NextOperator, UnlockStops
<1>6. TypeInv'
  BY <1>1, <1>5, Zenon DEF Base, TypeInv, orderVars, rowVars
<1>7. \A u \in Txn \ {t} : Loop(u)'
  BY <1>1, <1>5, Zenon DEF Base, LoopInv, Loop, NoOperatorLeft, OperatorDone, CurrentOp, Fields, rowVars
<1>8. Loop(t)'
  <2>1. Loop(t)
    BY Zenon DEF Base, LoopInv
  <2>2. CASE NextOperator(t)
    <3>1. pc[t] \in {"Committing", "Aborted"}
      BY <2>2, Zenon DEF NextOperator
    <3>2. at'[t].op = at[t].op + 1 /\ at'[t].row = 1 /\ at'[t].field = 1
      BY <1>2, <2>2, Zenon DEF Base, TypeInv, NextOperator, FirstWrite, WriteAt
    <3>3. at'[t].op <= Len(ops[t]) + 1
      BY <1>2, <3>2
    <3>4. ~NoOperatorLeft(t)' => CurrentOp(t)' \in OpType
      BY <1>1, <1>2, <3>2 DEF NoOperatorLeft, CurrentOp
    <3>5. ~NoOperatorLeft(t)' => 1 <= Len(CurrentOp(t)'.rows) + 1 /\ 1 <= Len(Fields(t)')
      <4> DEFINE n == Len(CurrentOp(t)'.rows)
      <4>1. ~NoOperatorLeft(t)' => n \in Nat /\ CurrentOp(t)'.kind \in {"Insert", "Delete"}
        BY <3>4 DEF OpType
      <4>2. \A k \in {"Insert", "Delete"} : 1 <= Len(CommitFields(k)) /\ 1 <= Len(RollbackFields(k))
        BY DEF CommitFields, RollbackFields
      <4>3. pc'[t] = "Committing" => Fields(t)' = CommitFields(CurrentOp(t)'.kind)
        BY Zenon DEF Fields
      <4>4. pc'[t] = "Aborted" => Fields(t)' = RollbackFields(CurrentOp(t)'.kind)
        BY Zenon DEF Fields
      <4>5. ~NoOperatorLeft(t)' => 1 <= Len(Fields(t)')
        BY <1>1, <3>1, <4>1, <4>2, <4>3, <4>4, Zenon
      <4> HIDE DEF n
      <4>6. ~NoOperatorLeft(t)' => 1 <= n + 1
        BY <4>1
      <4> QED BY <4>5, <4>6, Zenon DEF n
    <3> QED BY <1>1, <2>1, <3>1, <3>2, <3>3, <3>5, Zenon DEF Loop, rowVars
  <2>3. CASE UnlockStops(t)
    <3>1. at'[t].op = at[t].op /\ at'[t].row = Len(CurrentOp(t).rows) + 1 /\ at'[t].field = 1
      BY <1>2, <2>3, Zenon DEF Base, TypeInv, UnlockStops, WriteAt
    <3>2. CurrentOp(t)' = CurrentOp(t) /\ Fields(t)' = Fields(t)
      BY <1>1, <3>1, Zenon DEF CurrentOp, Fields
    <3>3. Len(Fields(t)) \in 1..3 /\ pc[t] \in {"Executing", "Committing", "Aborted"}
      BY <2>3, WriteFacts DEF UnlockStops, Base
    <3>4. pc[t] = "Aborted"
      BY <2>3, WriteFacts DEF UnlockStops, Base
    <3>5. at'[t].row <= Len(CurrentOp(t)'.rows) + 1 /\ at'[t].field <= Len(Fields(t)')
      <4> DEFINE n == Len(CurrentOp(t).rows)
                 k == Len(Fields(t))
      <4>1. n \in Nat /\ at'[t].row = n + 1 /\ Len(CurrentOp(t)'.rows) = n
        BY <1>3, <3>1, <3>2, Zenon
      <4>2. k \in 1..3 /\ at'[t].field = 1 /\ Len(Fields(t)') = k
        BY <3>1, <3>2, <3>3, Zenon
      <4> HIDE DEF n, k
      <4> QED BY <4>1, <4>2
    <3> QED BY <1>1, <2>1, <3>1, <3>4, <3>5, Zenon DEF Loop, rowVars
  <2> QED BY <2>2, <2>3, Zenon
<1>9. OrderInv'
  BY <1>1, Zenon DEF Base, OrderInv, orderVars
<1> QED BY <1>6, <1>7, <1>8, <1>9, Zenon DEF Base, LoopInv

(* Registering an operator.                                                *)
LEMMA RegisteredOps ==
  ASSUME Base, NEW t \in Txn, NEW op \in OpType, Registers(t, op)
  PROVE  /\ ops' \in [Txn -> Seq(OpType)] /\ at' \in [Txn -> AtType]
         /\ Len(ops[t]) \in Nat /\ Len(ops'[t]) = Len(ops[t]) + 1
         /\ ops'[t][Len(ops[t]) + 1] = op
         /\ \A i \in 1..Len(ops[t]) : ops'[t][i] = ops[t][i]
         /\ at'[t].op = Len(ops[t]) + 1 /\ at'[t].row = 1 /\ at'[t].field = 1
         /\ \A u \in Txn \ {t} : ops'[u] = ops[u] /\ at'[u] = at[u] /\ seen'[u] = seen[u]
         /\ seen'[t] = {}
<1>1. /\ ops \in [Txn -> Seq(OpType)] /\ ops[t] \in Seq(OpType) /\ Len(ops[t]) \in Nat
      /\ at \in [Txn -> AtType]
  BY DEF Base, TypeInv
<1>2. ops'[t] = Append(ops[t], op) /\ Append(ops[t], op) \in Seq(OpType)
  BY <1>1 DEF Registers
<1>3. ops' \in [Txn -> Seq(OpType)]
  BY <1>1, <1>2, Zenon DEF Registers
<1>4. /\ Len(ops'[t]) = Len(ops[t]) + 1 /\ ops'[t][Len(ops[t]) + 1] = op
      /\ \A i \in 1..Len(ops[t]) : ops'[t][i] = ops[t][i]
  BY <1>1, <1>2
<1>5. FirstWrite(Len(ops[t]) + 1) \in AtType
  BY <1>1 DEF FirstWrite, WriteAt, AtType
<1>6. at' \in [Txn -> AtType] /\ at'[t] = FirstWrite(Len(ops[t]) + 1)
  BY <1>1, <1>5, Zenon DEF Registers
<1>7. \A u \in Txn \ {t} : ops'[u] = ops[u] /\ at'[u] = at[u] /\ seen'[u] = seen[u]
  BY <1>1, Zenon DEF Registers, Base, TypeInv
<1>8. seen'[t] = {}
  BY Zenon DEF Registers, Base, TypeInv
<1>9. at'[t].op = Len(ops[t]) + 1 /\ at'[t].row = 1 /\ at'[t].field = 1
  BY <1>6 DEF FirstWrite, WriteAt
<1> QED BY <1>1, <1>3, <1>4, <1>6, <1>7, <1>8, <1>9, Zenon

LEMMA BaseOfRegisters ==
  ASSUME Base, NEW t \in Txn, NEW op \in OpType, Registers(t, op),
         pc[t] \in {"Active", "Executing"}, pc' = [pc EXCEPT ![t] = "Executing"],
         UNCHANGED <<orderVars, tids, begin_cids, end_cids, snapshot, reading, loads_in_order>>,
         size' \in size..MaxRows, inserts_next' \in [Txn -> Nat],
         \A j \in 1..Len(op.rows) : op.rows[j] <= size'
  PROVE  Base'
<1>1. /\ ops' \in [Txn -> Seq(OpType)] /\ at' \in [Txn -> AtType]
      /\ Len(ops[t]) \in Nat /\ Len(ops'[t]) = Len(ops[t]) + 1
      /\ ops'[t][Len(ops[t]) + 1] = op
      /\ \A i \in 1..Len(ops[t]) : ops'[t][i] = ops[t][i]
      /\ at'[t].op = Len(ops[t]) + 1 /\ at'[t].row = 1 /\ at'[t].field = 1
      /\ \A u \in Txn \ {t} : ops'[u] = ops[u] /\ at'[u] = at[u] /\ seen'[u] = seen[u]
      /\ seen'[t] = {}
  BY RegisteredOps, Zenon
<1>2. pc' \in [Txn -> Pc] /\ pc'[t] = "Executing" /\ \A u \in Txn \ {t} : pc'[u] = pc[u]
  BY Zenon DEF Base, TypeInv, Pc, Running
<1>3. size \in InitialRows..MaxRows /\ InitialRows \in Nat /\ MaxRows \in Nat
  BY MvccAssumption, Zenon DEF Base, TypeInv
<1>4. seen' \in [Txn -> SUBSET (1..size')]
  <2>1. seen \in [Txn -> SUBSET (1..size)] /\ seen' = [seen EXCEPT ![t] = {}]
    BY Zenon DEF Base, TypeInv, Registers
  <2>2. SUBSET (1..size) \subseteq SUBSET (1..size')
    BY <1>3
  <2> QED BY <2>1, <2>2, Zenon
<1>5. size' \in InitialRows..MaxRows
  BY <1>3
<1>6. TypeInv'
  BY <1>1, <1>2, <1>4, <1>5, Zenon DEF Base, TypeInv, orderVars
<1>7. ASSUME NEW u \in Txn \ {t} PROVE Loop(u)'
  <2>1. Loop(u) /\ ops'[u] = ops[u] /\ at'[u] = at[u] /\ pc'[u] = pc[u] /\ reading'[u] = reading[u]
    BY <1>1, <1>2, Zenon DEF Base, LoopInv
  <2>2. /\ CurrentOp(u)' = CurrentOp(u) /\ Fields(u)' = Fields(u)
        /\ (NoOperatorLeft(u)' <=> NoOperatorLeft(u)) /\ (OperatorDone(u)' <=> OperatorDone(u))
    BY <2>1, Zenon DEF CurrentOp, Fields, NoOperatorLeft, OperatorDone
  <2>3. \A i \in 1..Len(ops[u]) : \A j \in 1..Len(ops[u][i].rows) : ops[u][i].rows[j] <= size'
    <3>1. TAKE i \in 1..Len(ops[u])
    <3>2. TAKE j \in 1..Len(ops[u][i].rows)
    <3>3. ops[u] \in Seq(OpType) /\ ops[u][i] \in OpType
      BY DEF Base, TypeInv
    <3>4. ops[u][i].rows \in Seq(Row) /\ ops[u][i].rows[j] \in Row
      BY <3>3 DEF OpType
    <3>5. ops[u][i].rows[j] <= size
      BY <2>1, Zenon DEF Loop
    <3> QED BY <1>3, <3>4, <3>5, SMTT(30) DEF Row
  <2>4. pc[u] = "Reading" => reading[u].row \in 1..size'
    BY <1>3, <2>1 DEF Loop
  <2> QED BY <2>1, <2>2, <2>3, <2>4, Zenon DEF Loop
<1>8. Loop(t)'
  <2>1. Loop(t)
    BY Zenon DEF Base, LoopInv
  <2>2. \A i \in 1..Len(ops'[t]) : \A j \in 1..Len(ops'[t][i].rows) : ops'[t][i].rows[j] <= size'
    <3>1. TAKE i \in 1..Len(ops'[t])
    <3>2. TAKE j \in 1..Len(ops'[t][i].rows)
    <3>3. CASE i = Len(ops[t]) + 1
      BY <1>1, <3>3, Zenon
    <3>4. CASE i \in 1..Len(ops[t])
      <4>1. ops'[t][i] = ops[t][i]
        BY <1>1, <3>4, Zenon
      <4>2. ops[t][i] \in OpType
        BY <3>4 DEF Base, TypeInv
      <4>3. ops[t][i].rows \in Seq(Row) /\ ops[t][i].rows[j] \in Row
        BY <4>1, <4>2 DEF OpType
      <4>4. ops[t][i].rows[j] <= size
        BY <2>1, <3>4, <4>1, Zenon DEF Loop
      <4>5. ops[t][i].rows[j] <= size'
        BY <1>3, <4>3, <4>4, SMTT(30) DEF Row
      <4> QED BY <4>1, <4>5, Zenon
    <3>5. i \in 1..Len(ops[t]) \/ i = Len(ops[t]) + 1
      <4> DEFINE n == Len(ops[t])
      <4>1. n \in Nat /\ i \in 1..(n + 1)
        BY <1>1, <3>1, Zenon
      <4> HIDE DEF n
      <4>2. i \in 1..n \/ i = n + 1
        BY <4>1
      <4> QED BY <4>2, Zenon DEF n
    <3> QED BY <3>3, <3>4, <3>5, Zenon
  <2>3. CurrentOp(t)' = op
    BY <1>1, Zenon DEF CurrentOp
  <2>4. Len(op.rows) \in Nat /\ op.kind \in {"Insert", "Delete"}
    BY DEF OpType
  <2>5. Fields(t)' = ExecuteFields(op.kind)
    BY <1>2, <2>3, Zenon DEF Fields
  <2>6. 1 <= Len(ExecuteFields(op.kind))
    BY <2>4 DEF ExecuteFields
  <2>7. 1 <= Len(op.rows) + 1
    <3> DEFINE n == Len(op.rows)
    <3>1. n \in Nat
      BY <2>4, Zenon
    <3> HIDE DEF n
    <3>2. 1 <= n + 1
      BY <3>1
    <3> QED BY <3>2, Zenon DEF n
  <2>8. at'[t].row <= Len(CurrentOp(t)'.rows) + 1 /\ at'[t].field <= Len(Fields(t)')
    BY <1>1, <2>3, <2>5, <2>6, <2>7, Zenon
  <2>9. at'[t].op <= Len(ops'[t]) + 1 /\ at'[t].op = Len(ops'[t])
    BY <1>1
  <2> QED BY <1>2, <2>2, <2>8, <2>9, Zenon DEF Loop
<1>9. OrderInv'
  BY <1>2, Zenon DEF Base, OrderInv, orderVars, HasCommitId
<1> QED BY <1>6, <1>7, <1>8, <1>9, Zenon DEF Base, LoopInv

(* Starting an Insert, a Delete or an Update.                              *)
LEMMA BaseOfStatements ==
  ASSUME Base, NEW t \in Txn, UNCHANGED loads_in_order, Statement(t) \/ UpdateInserts(t)
  PROVE  Base'
<1>1. size \in InitialRows..MaxRows /\ InitialRows \in Nat /\ MaxRows \in Nat
  BY MvccAssumption, Zenon DEF Base, TypeInv
<1>2. pc \in [Txn -> Pc] /\ inserts_next \in [Txn -> Nat]
  BY Zenon DEF Base, TypeInv
<1>3. ASSUME NEW n \in Nat, Reserve(t, n), pc[t] \in {"Active", "Executing"},
             pc' = [pc EXCEPT ![t] = "Executing"], inserts_next' \in [Txn -> Nat]
      PROVE  Base'
  <2> DEFINE rows == [i \in 1..n |-> size + i]
  <2>1. size' = size + n /\ size' \in size..MaxRows
    BY <1>1, <1>3 DEF Reserve
  <2>2. rows \in Seq(Row) /\ Len(rows) = n /\ \A j \in 1..n : rows[j] <= size'
    BY <1>1, <2>1 DEF Row
  <2> HIDE DEF rows
  <2>3. Operator("Insert", rows) \in OpType /\ Operator("Insert", rows).rows = rows
    BY <2>2, Zenon DEF Operator, OpType
  <2>4. Registers(t, Operator("Insert", rows))
    BY <1>3, Zenon DEF Reserve, rows
  <2>5. \A j \in 1..Len(Operator("Insert", rows).rows) : Operator("Insert", rows).rows[j] <= size'
    BY <2>2, <2>3, Zenon
  <2>6. UNCHANGED <<orderVars, tids, begin_cids, end_cids, snapshot, reading, loads_in_order>>
    BY <1>3, Zenon DEF Reserve
  <2> QED BY <1>3, <2>1, <2>3, <2>4, <2>5, <2>6, BaseOfRegisters, Zenon
<1>4. CASE \E n \in 1..(MaxRows - InitialRows) : Insert(t, n)
  <2>1. PICK n \in 1..(MaxRows - InitialRows) : Insert(t, n)
    BY <1>4, Zenon
  <2>2. n \in Nat /\ Reserve(t, n) /\ inserts_next' \in [Txn -> Nat]
    BY <1>1, <1>2, <2>1 DEF Insert
  <2>3. pc[t] = "Active" /\ pc' = [pc EXCEPT ![t] = "Executing"]
    BY <2>1, Zenon DEF Insert, Goto
  <2> QED BY <1>3, <2>2, <2>3, Zenon
<1>5. CASE UpdateInserts(t)
  <2>1. inserts_next[t] \in Nat /\ Reserve(t, inserts_next[t]) /\ inserts_next' \in [Txn -> Nat]
    BY <1>2, <1>5, Zenon DEF UpdateInserts
  <2>2. pc[t] = "Executing" /\ pc' = [pc EXCEPT ![t] = "Executing"]
    BY <1>2, <1>5, Zenon DEF UpdateInserts
  <2> QED BY <1>3, <2>1, <2>2, Zenon
<1>6. CASE \E n \in 1..MaxRows : \E p \in PosLists(n, seen[t]) : Delete(t, p, 0) \/ Delete(t, p, n)
  <2>0. PICK n \in 1..MaxRows : \E p \in PosLists(n, seen[t]) : Delete(t, p, 0) \/ Delete(t, p, n)
    BY <1>6, Zenon
  <2>1. PICK p \in PosLists(n, seen[t]) : Delete(t, p, 0) \/ Delete(t, p, n)
    BY <2>0, Zenon
  <2>2. p \in [1..n -> seen[t]] /\ seen[t] \subseteq 1..size /\ n \in Nat
    BY <1>1, <2>1 DEF PosLists, Base, TypeInv
  <2>3. p \in Seq(Row) /\ Len(p) = n /\ \A j \in 1..n : p[j] <= size
    BY <1>1, <2>2 DEF Row
  <2>4. Operator("Delete", p) \in OpType /\ Operator("Delete", p).rows = p
    BY <2>3, Zenon DEF Operator, OpType
  <2>5. /\ Registers(t, Operator("Delete", p))
        /\ pc[t] = "Active" /\ pc' = [pc EXCEPT ![t] = "Executing"]
        /\ UNCHANGED <<orderVars, tids, begin_cids, end_cids, snapshot, reading, loads_in_order>>
        /\ size' = size
    BY <2>1, Zenon DEF Delete, Goto, rowVars
  <2>6. inserts_next' \in [Txn -> Nat]
    BY <1>2, <2>1, <2>2 DEF Delete
  <2>7. size' \in size..MaxRows
    BY <1>1, <2>5
  <2>8. \A j \in 1..Len(Operator("Delete", p).rows) : Operator("Delete", p).rows[j] <= size'
    BY <2>3, <2>4, <2>5, Zenon
  <2> QED BY <2>4, <2>5, <2>6, <2>7, <2>8, BaseOfRegisters, Zenon
<1> QED BY <1>4, <1>5, <1>6, Zenon DEF Statement

(* Commits and rollbacks.                                                  *)
LEMMA BaseOfEnds ==
  ASSUME Base, NEW t \in Txn, UNCHANGED loads_in_order,
         PrepareCommit(t) \/ MakePending(t) \/ Advance(t) \/ Committed(t) \/ Abort(t) \/ RolledBack(t)
  PROVE  Base'
<1>1. UNCHANGED <<rowVars, snapshot, ops, inserts_next, readVars>>
  BY Zenon DEF PrepareCommit, MakePending, Advance, Committed, Abort, RolledBack, workVars
<1>2. /\ at \in [Txn -> AtType] /\ pc \in [Txn -> Pc] /\ ops[t] \in Seq(OpType) /\ Len(ops[t]) \in Nat
      /\ FirstWrite(1) \in AtType /\ cid \in [Txn -> Nat] /\ newest_id \in Nat /\ last_commit_id \in Nat
      /\ ready \subseteq Txn /\ committed \subseteq Txn /\ snapshot \in [Txn -> Nat]
  BY DEF Base, TypeInv, FirstWrite, WriteAt, AtType
<1>3. /\ pc' \in [Txn -> Pc] /\ \A u \in Txn \ {t} : pc'[u] = pc[u]
      /\ at' \in [Txn -> AtType] /\ \A u \in Txn \ {t} : at'[u] = at[u]
  BY <1>2, Zenon DEF PrepareCommit, MakePending, Advance, Committed, Abort, RolledBack, workVars, Goto, Pc,
     HasCommitId, IsAborted
<1>4. /\ cid' \in [Txn -> Nat] /\ newest_id' \in Nat /\ last_commit_id' \in Nat
      /\ ready' \subseteq Txn /\ committed' \subseteq Txn
  BY <1>2 DEF PrepareCommit, MakePending, Advance, Committed, Abort, RolledBack, Order!AssignId,
     Order!MakeReady, Order!Advance, Order!Notify, orderVars
<1>5. TypeInv'
  BY <1>1, <1>3, <1>4, Zenon DEF Base, TypeInv, rowVars, readVars
<1>6. \A u \in Txn \ {t} : Loop(u)'
  BY <1>1, <1>3, ZenonT(40) DEF Base, LoopInv, Loop, NoOperatorLeft, OperatorDone, CurrentOp, Fields, rowVars, readVars
<1>7. Loop(t)'
  <2>1. Loop(t)
    BY Zenon DEF Base, LoopInv
  <2>2. CASE PrepareCommit(t) \/ Abort(t)
    <3>1. pc'[t] \in {"Committing", "Aborted"} /\ at'[t].op = 1 /\ at'[t].row = 1 /\ at'[t].field = 1
      BY <1>2, <2>2 DEF PrepareCommit, Abort, Goto, FirstWrite, WriteAt
    <3>2. 1 <= Len(ops[t]) + 1
      <4> DEFINE n == Len(ops[t])
      <4>1. n \in Nat
        BY <1>2, Zenon
      <4> HIDE DEF n
      <4>2. 1 <= n + 1
        BY <4>1
      <4> QED BY <4>2, Zenon DEF n
    <3>3. ~NoOperatorLeft(t)' => CurrentOp(t)' \in OpType
      BY <1>1, <1>2, <3>1 DEF NoOperatorLeft, CurrentOp
    <3>4. ~NoOperatorLeft(t)' => 1 <= Len(CurrentOp(t)'.rows) + 1 /\ 1 <= Len(Fields(t)')
      <4> DEFINE n == Len(CurrentOp(t)'.rows)
      <4>1. ~NoOperatorLeft(t)' => n \in Nat /\ CurrentOp(t)'.kind \in {"Insert", "Delete"}
        BY <3>3 DEF OpType
      <4>2. \A k \in {"Insert", "Delete"} : 1 <= Len(CommitFields(k)) /\ 1 <= Len(RollbackFields(k))
        BY DEF CommitFields, RollbackFields
      <4>3. pc'[t] = "Committing" => Fields(t)' = CommitFields(CurrentOp(t)'.kind)
        BY Zenon DEF Fields
      <4>4. pc'[t] = "Aborted" => Fields(t)' = RollbackFields(CurrentOp(t)'.kind)
        BY Zenon DEF Fields
      <4>5. ~NoOperatorLeft(t)' => 1 <= Len(Fields(t)')
        BY <3>1, <4>1, <4>2, <4>3, <4>4, Zenon
      <4> HIDE DEF n
      <4>6. ~NoOperatorLeft(t)' => 1 <= n + 1
        BY <4>1
      <4> QED BY <4>5, <4>6, Zenon DEF n
    <3> QED BY <1>1, <2>1, <3>1, <3>2, <3>4, Zenon DEF Loop, rowVars
  <2>3. CASE MakePending(t) \/ Committed(t) \/ RolledBack(t)
    <3>1. pc'[t] \in {"Pending", "Committed", "RolledBack"} /\ at' = at
      BY <1>2, <2>3, Zenon DEF MakePending, Committed, RolledBack, Goto, workVars
    <3> QED BY <1>1, <2>1, <3>1, Zenon DEF Loop, rowVars
  <2>4. CASE Advance(t)
    BY <1>1, <2>1, <2>4, Zenon DEF Loop, Advance, workVars, NoOperatorLeft, OperatorDone, CurrentOp, Fields, rowVars, readVars
  <2> QED BY <2>2, <2>3, <2>4, Zenon
<1>8. OrderInv'
  <2> USE DEF OrderInv, HasCommitId, Order!HasId, Order!NoId
  <2>1. CASE PrepareCommit(t)
    BY <1>1, <1>2, <1>3, <2>1 DEF Base, PrepareCommit, Goto, Order!AssignId
  <2>2. CASE MakePending(t)
    BY <1>1, <1>2, <1>3, <2>2, Zenon DEF Base, MakePending, Goto, Order!MakeReady
  <2>3. CASE Advance(t)
    <3>1. /\ UNCHANGED <<newest_id, cid, ready, pc, snapshot>> /\ last_commit_id' = last_commit_id + 1
          /\ cid[t] = last_commit_id + 1 /\ t \in ready
      BY <2>3, Zenon DEF Advance, Order!Advance
    <3>2. OrderInv /\ cid[t] # 0
      BY <1>2, <3>1, Zenon DEF Base
    <3>3. last_commit_id' <= newest_id /\ INITIAL_COMMIT_ID <= last_commit_id'
      BY <1>2, <3>1, <3>2, MvccAssumption
    <3>4. ASSUME NEW u \in Txn, cid[u] # 0, cid[u] <= last_commit_id + 1 PROVE u \in ready
      <4>1. cid[u] <= last_commit_id \/ cid[u] = last_commit_id + 1
        BY <1>2, <3>4
      <4> QED BY <3>1, <3>2, <3>4, <4>1, Zenon
    <3>5. \A u \in Txn : snapshot[u] <= last_commit_id'
      BY <1>2, <3>1, <3>2
    <3> QED BY <3>1, <3>2, <3>3, <3>4, <3>5, Zenon
  <2>4. CASE Committed(t)
    BY <1>1, <1>2, <1>3, <2>4, Zenon DEF Base, Committed, Goto, Order!Notify
  <2>5. CASE Abort(t)
    BY <1>1, <1>2, <1>3, <2>5, SMTT(30) DEF Base, Abort, orderVars
  <2>6. CASE RolledBack(t)
    BY <1>1, <1>2, <1>3, <2>6 DEF Base, RolledBack, Goto, orderVars
  <2> QED BY <2>1, <2>2, <2>3, <2>4, <2>5, <2>6, ZenonT(40)
<1> QED BY <1>3, <1>5, <1>6, <1>7, <1>8, Zenon DEF Base, LoopInv

=============================================================================
