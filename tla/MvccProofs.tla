----------------------------- MODULE MvccProofs -----------------------------
(***************************************************************************)
(* Proofs about MVCC, for any number of transactions, rows and operators:  *)
(* Validate reads the snapshot, and no update is lost.  First, the steps   *)
(* that reserve rows and write their fields keep the versions right.       *)
(***************************************************************************)
EXTENDS MvccVersions

(* Statements.                                                             *)

(* The rows that an operator adds to those of its kind.                    *)
NewRows(op, kind) == IF op.kind = kind THEN {op.rows[j] : j \in 1..Len(op.rows)} ELSE {}

(* A registered operator adds new rows to what its transaction inserts, or *)
(* rows that Validate has seen to what it deletes.                         *)
LEMMA VersionsOfRegister ==
  ASSUME Base, Base', Versions, NEW t \in Txn, NEW op \in OpType, Registers(t, op),
         pc[t] = "Active" \/ (pc[t] = "Executing" /\ OperatorDone(t)),
         pc' = [pc EXCEPT ![t] = "Executing"],
         UNCHANGED <<orderVars, tids, begin_cids, end_cids, snapshot, reading>>,
         NEW I, NEW D,
         I = NewRows(op, "Insert"), D = NewRows(op, "Delete"),
         size <= size', \A r \in I : size < r, \A r \in 1..size' : size < r => r \in I,
         D \subseteq seen[t],
         op.kind = "Delete" => \A j, k \in 1..Len(op.rows) : j # k => op.rows[j] # op.rows[k]
  PROVE  Versions'
<1>1. /\ Ins(t)' = Ins(t) \cup I /\ Del(t)' = Del(t) \cup D
      /\ Done(t, "Insert")' = Ins(t) /\ Done(t, "Delete")' = Del(t)
      /\ CurrentOp(t)' = op
  BY SetsOfRegisters DEF Ins, Del, NewRows
<1>2. Done(t, "Insert") = Ins(t) /\ Done(t, "Delete") = Del(t)
  BY SetFacts, Zenon DEF Ins, Del
<1>3. \A u \in Txn \ {t} : ops'[u] = ops[u] /\ at'[u] = at[u] /\ seen'[u] = seen[u] /\ pc'[u] = pc[u]
  <2>1. pc \in [Txn -> Pc]
    BY Zenon DEF Base, TypeInv
  <2> QED BY <2>1, RegisteredOps
<1>4. seen'[t] = {} /\ pc'[t] = "Executing"
  <2>1. pc \in [Txn -> Pc]
    BY Zenon DEF Base, TypeInv
  <2> QED BY <2>1, RegisteredOps, Zenon
<1>5. \A u \in Txn \ {t} : Ins(u)' = Ins(u) /\ Del(u)' = Del(u)
  BY <1>3, SameSets, Zenon
<1>6. \A u \in Txn : Ins(u) \subseteq 1..size /\ Del(u) \subseteq 1..size
  BY SetFacts, Zenon DEF Ins, Del
<1>7. /\ size \in Nat /\ size' \in Nat /\ InitialRows \in Nat /\ InitialRows <= size /\ seen[t] \subseteq 1..size
      /\ size' <= MaxRows /\ MaxRows \in Nat /\ I \subseteq Row
  <2>1. I \subseteq Row
    BY DEF OpType, NewRows
  <2> QED BY <2>1, MvccAssumption DEF Base, TypeInv
<1>18. \A u \in Txn : Del(u) \cap I = {}
  <2>1. ASSUME NEW r \in 1..size, NEW s \in I PROVE r # s
    BY <1>7 DEF Row
  <2> QED BY <1>6, <2>1, Zenon
<1>8. cid' = cid /\ cid[t] = 0
  BY Zenon DEF Base, OrderInv, HasCommitId, orderVars
<1>9. \A v, w \in Txn : Observes(v, w)' <=> Observes(v, w)
  BY <1>8, SameObservers, Zenon
<1>10. \A u \in Txn \ {t} : ~Observes(u, t)
  BY <1>8, Zenon DEF Observes, Order!HasId, Order!NoId
<1>11. \A u \in Txn : pc[u] \in IsAborted => pc'[u] \in IsAborted
  BY <1>3, Zenon DEF IsAborted
<1>12. RowInv'
  <2>1. RowInv
    BY Zenon DEF Versions
  <2>2. \A u \in Txn : \A r \in Ins(u)' : InitialRows < r
    <3>1. \A r \in I : InitialRows < r
      BY <1>7 DEF Row
    <3>2. \A u \in Txn : \A r \in Ins(u) : InitialRows < r
      BY <2>1, Zenon DEF RowInv
    <3> QED BY <1>1, <1>5, <3>1, <3>2
  <2>3. \A u \in Txn \ {t} : Ins(t)' \cap Ins(u)' = {}
    <3>1. TAKE u \in Txn \ {t}
    <3>2. I \cap Ins(u) = {}
      BY <1>6, <1>7 DEF Row
    <3>3. Ins(t) \cap Ins(u) = {}
      BY <2>1, Zenon DEF RowInv
    <3> QED BY <1>1, <1>5, <3>2, <3>3
  <2>4. \A u, w \in Txn : u # w => Ins(u)' \cap Ins(w)' = {}
    BY <1>5, <2>1, <2>3, Zenon DEF RowInv
  <2>5. \A r \in 1..size' : InitialRows < r => \E u \in Txn : r \in Ins(u)'
    <3>1. SUFFICES ASSUME NEW r \in 1..size', InitialRows < r PROVE \E u \in Txn : r \in Ins(u)'
      BY Zenon
    <3>2. CASE size < r
      BY <1>1, <3>2, Zenon
    <3>3. CASE r \in 1..size
      <4>1. PICK u \in Txn : r \in Ins(u)
        BY <2>1, <3>1, <3>3, Zenon DEF RowInv
      <4> QED BY <1>1, <1>5, <4>1, Zenon
    <3> QED BY <1>7, <3>2, <3>3
  <2>6. \A r \in Row : size' < r => size < r
    BY <1>7 DEF Row
  <2> QED BY <2>1, <2>2, <2>4, <2>5, <2>6, Zenon DEF RowInv
<1>13. FieldInv'
  <2>1. FieldInv
    BY Zenon DEF Versions
  <2>2. InitialInv'
    BY <2>1, Zenon DEF FieldInv, InitialInv
  <2>3. \A u \in Txn \ {t} : /\ \A r \in Ins(u)' : BeginOf(u, r)'
                             /\ \A r \in Del(u)' : EndOf(u, r)'
                             /\ HalfwayOf(u)'
    BY <1>3, <1>5, <1>8, <2>1, SameOwner DEF FieldInv
  <2>4. ASSUME NEW r \in Ins(t)' PROVE BeginOf(t, r)'
    <3>1. begin_cids[r] = MAX_COMMIT_ID
      <4>1. CASE r \in Ins(t)
        BY <2>1, <4>1, Zenon DEF FieldInv, BeginOf, Running
      <4>2. CASE r \in I
        BY <1>7, <4>2, Zenon DEF Versions, RowInv
      <4> QED BY <1>1, <4>1, <4>2, Zenon
    <3> QED BY <1>4, <3>1, Zenon DEF BeginOf, IsAborted
  <2>5. (\A r \in Del(t)' : EndOf(t, r)') /\ HalfwayOf(t)'
    BY <1>4, Zenon DEF EndOf, HalfwayOf
  <2>6. \A r \in Row : CauseOf(r)'
    <3>1. \A u \in Txn : Ins(u) \subseteq Ins(u)' /\ Del(u) \subseteq Del(u)'
      BY <1>1, <1>5, Zenon
    <3> QED BY <1>8, <1>11, <2>1, <3>1, Zenon DEF FieldInv, CauseOf
  <2> QED BY <2>2, <2>3, <2>4, <2>5, <2>6, Zenon DEF FieldInv
<1>14. LockInv'
  <2>1. \A u \in Txn \ {t} : LockOf(u)'
    BY <1>3, <1>8, SameOwner, Zenon DEF Versions, LockInv
  <2>2. LockOf(t) /\ pc[t] \in Running
    BY Zenon DEF Versions, LockInv, Running
  <2>3. \A r \in Del(t) : r \in Ins(t)' <=> r \in Ins(t)
    BY <1>1, <1>18, Zenon
  <2>4. LockOf(t)'
    BY <1>1, <1>2, <1>4, <2>2, <2>3 DEF LockOf, Running, HasCommitId
  <2> QED BY <2>1, <2>4, Zenon DEF LockInv
<1>15. FreshInv'
  <2>1. \A u \in Txn \ {t} : FreshOf(u)'
    BY <1>3, <1>8, SameOwner, Zenon DEF Versions, FreshInv
  <2>2. \A r \in seen[t] : r \notin Del(t)
    BY Zenon DEF Versions, SeenInv, SeenOf
  <2>3. \A r \in I : r \notin Del(t)
    BY <1>18, Zenon
  <2>4. op.kind \in {"Insert", "Delete"}
    BY Zenon DEF OpType
  <2>5. \A j \in 1..Len(op.rows) : op.rows[j] \notin Del(t)
    <3>1. TAKE j \in 1..Len(op.rows)
    <3>2. op.rows[j] \in I \/ op.rows[j] \in D
      BY <2>4, Zenon DEF NewRows
    <3> QED BY <2>2, <2>3, <3>2, Zenon
  <2>6. op.kind = "Insert" => Del(t)' = Del(t)
    BY <1>1, Zenon DEF NewRows
  <2>7. FreshOf(t)'
    BY <1>1, <2>5, <2>6, Zenon DEF FreshOf
  <2> QED BY <2>1, <2>7, Zenon DEF FreshInv
<1>16. SeenInv'
  <2>1. ASSUME NEW u \in Txn \ {t} PROVE SeenOf(u)'
    <3>1. SeenOf(u) /\ \A w \in Txn : Observes(u, w) => w # t
      BY <1>10, Zenon DEF Versions, SeenInv
    <3> QED BY <1>3, <1>5, <1>9, <3>1, SameSeen, Zenon
  <2>2. SeenOf(t)'
    <3>1. SeenOf(t)
      BY Zenon DEF Versions, SeenInv
    <3>2. \A r : DeletedByOther(t, r)' <=> DeletedByOther(t, r)
      BY <1>5, <1>9, Zenon DEF DeletedByOther
    <3>3. \A r : Inserted(t, r) => Inserted(t, r)'
      <4>1. \A u \in Txn : Ins(u) \subseteq Ins(u)'
        BY <1>1, <1>5, Zenon
      <4> QED BY <1>9, <4>1, Zenon DEF Inserted
    <3> QED BY <1>1, <1>4, <3>1, <3>2, <3>3, Zenon DEF SeenOf
  <2> QED BY <2>1, <2>2, Zenon DEF SeenInv
<1>17. ReadInv'
  <2>1. ASSUME NEW u \in Txn \ {t}, pc[u] = "Reading" PROVE ReadOf(u)'
    <3>1. PICK r : r = reading[u].row
      BY Zenon
    <3>2. r \in 1..size /\ ReadOf(u) /\ Observes(u, u)
      BY <2>1, <3>1, Zenon DEF Base, LoopInv, Loop, Versions, ReadInv, Observes
    <3>3. \A w \in Txn : r \in Ins(w)' <=> r \in Ins(w)
      <4>1. r \notin I
        BY <1>7, <3>2
      <4> QED BY <1>1, <1>5, <4>1, Zenon
    <3>4. \A w \in Txn : Observes(u, w) => (r \in Del(w)' <=> r \in Del(w))
      BY <1>5, <1>10, Zenon
    <3> QED BY <1>3, <1>9, <1>11, <3>1, <3>2, <3>3, <3>4, SameRead, Zenon
  <2>2. ASSUME NEW u \in Txn, pc'[u] # "Reading" PROVE ReadOf(u)'
    BY <2>2, Zenon DEF ReadOf
  <2> QED BY <1>3, <1>4, <2>1, <2>2, Zenon DEF ReadInv
<1> QED BY <1>12, <1>13, <1>14, <1>15, <1>16, <1>17, Zenon DEF Versions

LEMMA VersionsOfStatements ==
  ASSUME Base, Base', Versions, NEW t \in Txn, Statement(t) \/ UpdateInserts(t)
  PROVE  Versions'
<1>1. size \in InitialRows..MaxRows /\ InitialRows \in Nat /\ MaxRows \in Nat /\ size \in Nat
  BY MvccAssumption DEF Base, TypeInv
<1>2. pc \in [Txn -> Pc] /\ inserts_next \in [Txn -> Nat]
  BY Zenon DEF Base, TypeInv
<1>3. ASSUME NEW n \in Nat, Reserve(t, n), pc[t] = "Active" \/ (pc[t] = "Executing" /\ OperatorDone(t)),
             pc' = [pc EXCEPT ![t] = "Executing"]
      PROVE  Versions'
  <2> DEFINE rows == [i \in 1..n |-> size + i]
  <2>1. size' = size + n /\ size' <= MaxRows /\ size <= size'
    BY <1>1, <1>3 DEF Reserve
  <2>2. rows \in Seq(Row) /\ Len(rows) = n /\ \A j \in 1..n : rows[j] = size + j
    BY <1>1, <2>1 DEF Row
  <2> HIDE DEF rows
  <2>3. PICK op : op = Operator("Insert", rows)
    BY Zenon
  <2>4. op \in OpType /\ op.rows = rows /\ op.kind = "Insert"
    BY <2>2, <2>3, Zenon DEF Operator, OpType
  <2>5. Registers(t, op) /\ UNCHANGED <<orderVars, tids, begin_cids, end_cids, snapshot, reading>>
    BY <1>3, <2>3, Zenon DEF Reserve, rows
  <2>6. PICK I, D : I = NewRows(op, "Insert") /\ D = NewRows(op, "Delete")
    BY Zenon
  <2>7. I = {rows[j] : j \in 1..n} /\ D = {}
    BY <2>2, <2>4, <2>6, Zenon DEF NewRows
  <2>8. \A r \in I : size < r
    BY <1>1, <2>2, <2>7
  <2>9. \A r \in 1..size' : size < r => r \in I
    <3>1. SUFFICES ASSUME NEW r \in 1..size', size < r PROVE r \in I
      BY Zenon
    <3>2. r - size \in 1..n /\ r = size + (r - size)
      BY <1>1, <2>1, <3>1
    <3> QED BY <2>2, <2>7, <3>2, Zenon
  <2>10. D \subseteq seen[t] /\ op.kind # "Delete"
    BY <2>4, <2>7, Zenon
  <2> QED BY <1>3, <2>1, <2>4, <2>5, <2>6, <2>8, <2>9, <2>10, VersionsOfRegister, Zenon
<1>4. CASE \E n \in 1..(MaxRows - InitialRows) : Insert(t, n)
  <2>1. PICK n \in 1..(MaxRows - InitialRows) : Insert(t, n)
    BY <1>4, Zenon
  <2>2. n \in Nat /\ Reserve(t, n) /\ pc[t] = "Active" /\ pc' = [pc EXCEPT ![t] = "Executing"]
    BY <1>1, <2>1 DEF Insert, Goto
  <2> QED BY <1>3, <2>2, Zenon
<1>5. CASE UpdateInserts(t)
  <2>1. inserts_next[t] \in Nat /\ Reserve(t, inserts_next[t])
    BY <1>2, <1>5, Zenon DEF UpdateInserts
  <2>2. pc[t] = "Executing" /\ OperatorDone(t) /\ pc' = [pc EXCEPT ![t] = "Executing"]
    BY <1>2, <1>5, Zenon DEF UpdateInserts
  <2> QED BY <1>3, <2>1, <2>2, Zenon
<1>6. CASE \E n \in 1..MaxRows : \E p \in PosLists(n, seen[t]) : Delete(t, p, 0) \/ Delete(t, p, n)
  <2>0. PICK n \in 1..MaxRows : \E p \in PosLists(n, seen[t]) : Delete(t, p, 0) \/ Delete(t, p, n)
    BY <1>6, Zenon
  <2>1. PICK p \in PosLists(n, seen[t]) : Delete(t, p, 0) \/ Delete(t, p, n)
    BY <2>0, Zenon
  <2>2. p \in [1..n -> seen[t]] /\ seen[t] \subseteq 1..size /\ n \in Nat
    BY <1>1, <2>1, SMTT(30) DEF PosLists, Base, TypeInv
  <2>3. p \in Seq(Row) /\ Len(p) = n
    BY <1>1, <2>2 DEF Row
  <2>4. \A i, j \in 1..n : i < j => p[i] # p[j]
    <3>1. SUFFICES ASSUME NEW i \in 1..n, NEW j \in 1..n, i < j, p[i] = p[j] PROVE FALSE
      BY Zenon
    <3>2. p[i] < p[j] /\ p[i] \in Int
      BY <2>1, <2>2, <3>1 DEF PosLists
    <3> QED BY <3>1, <3>2
  <2>5. \A i, j \in 1..n : i # j => p[i] # p[j]
    <3>1. \A i, j \in 1..n : i # j => i < j \/ j < i
      BY <2>2
    <3> QED BY <2>4, <3>1, Zenon
  <2>6. PICK op : op = Operator("Delete", p)
    BY Zenon
  <2>7. op \in OpType /\ op.rows = p /\ op.kind = "Delete"
    BY <2>3, <2>6, Zenon DEF Operator, OpType
  <2>8. /\ Registers(t, op)
        /\ pc[t] = "Active" /\ pc' = [pc EXCEPT ![t] = "Executing"]
        /\ UNCHANGED <<orderVars, tids, begin_cids, end_cids, snapshot, reading>>
        /\ size' = size
    BY <2>1, <2>6, Zenon DEF Delete, Goto, rowVars
  <2>9. PICK I, D : I = NewRows(op, "Insert") /\ D = NewRows(op, "Delete")
    BY Zenon
  <2>10. I = {} /\ D \subseteq seen[t]
    BY <2>2, <2>3, <2>7, <2>9, Zenon DEF NewRows
  <2>11. size <= size' /\ \A r \in 1..size' : ~(size < r)
    BY <1>1, <2>8
  <2>12. \A r \in I : size < r
    BY <2>10, Zenon
  <2>13. \A j, k \in 1..Len(op.rows) : j # k => op.rows[j] # op.rows[k]
    BY <2>3, <2>5, <2>7, Zenon
  <2> QED BY <2>7, <2>8, <2>9, <2>10, <2>11, <2>12, <2>13, VersionsOfRegister, Zenon
<1> QED BY <1>4, <1>5, <1>6, Zenon DEF Statement

-----------------------------------------------------------------------------
(* Writes.                                                                 *)

(* The row of a halfway Insert is one of its transaction's.                *)
LEMMA HalfwayRow ==
  ASSUME Base, NEW t \in Txn, Halfway(t)
  PROVE  CurrentRow(t) \in Ins(t)
<1>1. /\ ops[t] \in Seq(OpType) /\ Len(ops[t]) \in Nat /\ at[t].op \in Nat \ {0} /\ at[t].row \in Nat \ {0}
  BY DEF Base, TypeInv, AtType
<1>2. at[t].op \in 1..Len(ops[t]) /\ CurrentOp(t) \in OpType
  BY <1>1 DEF Halfway, NoOperatorLeft, CurrentOp
<1>3. CurrentOp(t).rows \in Seq(Row) /\ Len(CurrentOp(t).rows) \in Nat
  BY <1>2 DEF OpType
<1>4. at[t].row \in 1..Len(CurrentOp(t).rows) /\ CurrentRow(t) \in Row
  BY <1>1, <1>3 DEF Halfway, OperatorDone, CurrentRow
<1> QED BY <1>2, <1>4, Zenon DEF Ins, RowsOf, Halfway, CurrentRow, CurrentOp

(* A write to a field of a row disturbs no other transaction that inserted *)
(* or deletes it.                                                          *)
LEMMA OthersFields ==
  ASSUME Base, FieldInv, NEW u \in Txn, NEW r \in Row,
         ops'[u] = ops[u], at'[u] = at[u], pc'[u] = pc[u], cid'[u] = cid[u],
         \A q \in Row \ {r} : begin_cids'[q] = begin_cids[q] /\ end_cids'[q] = end_cids[q],
         r \in Ins(u) => /\ begin_cids'[r] = begin_cids[r]
                         /\ end_cids'[r] = end_cids[r] \/ pc[u] \in {"Pending", "Committed"},
         r \in Del(u) => end_cids'[r] = end_cids[r] \/ pc[u] \notin HasCommitId
  PROVE  /\ \A q \in Ins(u)' : BeginOf(u, q)'
         /\ \A q \in Del(u)' : EndOf(u, q)'
         /\ HalfwayOf(u)'
<1>1. /\ Ins(u)' = Ins(u) /\ Del(u)' = Del(u)
      /\ Done(u, "Insert")' = Done(u, "Insert") /\ Done(u, "Delete")' = Done(u, "Delete")
  BY SameSets, Zenon
<1>2. Ins(u) \subseteq Row /\ Del(u) \subseteq Row
  BY SetFacts, Zenon DEF Ins, Del
<1>3. /\ CurrentRow(u)' = CurrentRow(u) /\ (Halfway(u)' <=> Halfway(u))
  BY Zenon DEF CurrentOp, CurrentRow, Halfway, NoOperatorLeft, OperatorDone
<1>4. ASSUME NEW q \in Ins(u) PROVE BeginOf(u, q)'
  <2>1. BeginOf(u, q) /\ begin_cids'[q] = begin_cids[q]
    BY <1>2, Zenon DEF FieldInv
  <2>2. end_cids'[q] = end_cids[q] \/ pc[u] \in {"Pending", "Committed"}
    BY <1>2, Zenon
  <2> QED BY <1>1, <2>1, <2>2, Zenon DEF BeginOf, IsAborted
<1>5. ASSUME NEW q \in Del(u) PROVE EndOf(u, q)'
  <2>1. EndOf(u, q) /\ (end_cids'[q] = end_cids[q] \/ pc[u] \notin HasCommitId)
    BY <1>2, Zenon DEF FieldInv
  <2> QED BY <1>1, <2>1, Zenon DEF EndOf, HasCommitId
<1>6. HalfwayOf(u)'
  <2>1. SUFFICES ASSUME Halfway(u) PROVE HalfwayOf(u)'
    BY <1>3, Zenon DEF HalfwayOf
  <2>2. PICK q : q = CurrentRow(u)
    BY Zenon
  <2>3. q \in Ins(u) /\ q \in Row
    BY <1>2, <2>1, <2>2, HalfwayRow, Zenon
  <2>4. begin_cids'[q] = begin_cids[q] /\ (end_cids'[q] = end_cids[q] \/ pc[u] \in {"Pending", "Committed"})
    BY <2>3, Zenon
  <2>5. HalfwayOf(u)
    BY Zenon DEF FieldInv
  <2> QED BY <1>3, <2>1, <2>2, <2>4, <2>5, Zenon DEF HalfwayOf
<1> QED BY <1>1, <1>4, <1>5, <1>6, Zenon

(* No other transaction holds or deletes a row that has not been committed *)
(* yet.                                                                    *)
LEMMA OwnRow ==
  ASSUME Base, RowInv, SeenInv, LockInv, NEW t \in Txn, NEW r \in Ins(t),
         pc[t] \notin {"Pending", "Committed"}
  PROVE  \A u \in Txn \ {t} : tids[r] # u /\ r \notin Del(u) /\ r \notin Ins(u)
<1>1. SUFFICES ASSUME NEW u \in Txn \ {t} PROVE tids[r] # u /\ r \notin Del(u) /\ r \notin Ins(u)
  BY Zenon
<1>2. r \notin Ins(u)
  BY Zenon DEF RowInv
<1>3. r \notin Del(u)
  BY DeleterObserves, Zenon
<1>4. r \in Row /\ Done(u, "Delete") \subseteq Del(u)
  BY SetFacts, Zenon DEF Ins, Del
<1>5. tids[r] # u
  BY <1>2, <1>3, <1>4, Zenon DEF LockInv, LockOf
<1> QED BY <1>2, <1>3, <1>5, Zenon

(* What a write changes must respect the invariants of the fields and the  *)
(* locks; the rest follows.                                                *)
LEMMA VersionsOfWrite ==
  ASSUME Base, Base', Versions, NEW t \in Txn, NEW r \in Row, NEW f,
         NextWrite(t, f), WriteDone(t), r = CurrentRow(t),
         UNCHANGED <<orderVars, size, snapshot, pc, ops, readVars>>,
         \A q \in Row \ {r} : /\ tids'[q] = tids[q] /\ begin_cids'[q] = begin_cids[q]
                              /\ end_cids'[q] = end_cids[q],
         FieldInv', LockInv', FreshOf(t)',
         \A w \in Txn : r \in Ins(w) /\ pc[w] \in IsAborted /\ end_cids[r] = 0 => end_cids'[r] = 0
  PROVE  Versions'
<1>1. \A u \in Txn : Ins(u)' = Ins(u) /\ Del(u)' = Del(u)
  BY SameSets, Zenon
<1>2. \A u \in Txn \ {t} : at'[u] = at[u]
  BY Zenon DEF WriteDone, Base, TypeInv
<1>3. UNCHANGED <<cid, seen, reading>>
  BY Zenon DEF orderVars, readVars
<1>4. \A v, w \in Txn : Observes(v, w)' <=> Observes(v, w)
  BY <1>3, SameObservers, Zenon
<1>5. RowInv'
  <2>1. r \in 1..size
    BY WriteFacts, Zenon DEF Base
  <2>2. size \in Nat
    BY MvccAssumption DEF Base, TypeInv
  <2>3. \A q \in Row : size < q => q # r
    BY <2>1, <2>2 DEF Row
  <2> QED BY <1>1, <2>3 DEF Versions, RowInv
<1>6. FreshInv'
  <2>1. ASSUME NEW u \in Txn \ {t} PROVE FreshOf(u)'
    <3>1. Del(u)' = Del(u) /\ Done(u, "Delete")' = Done(u, "Delete") /\ at'[u] = at[u] /\ ops'[u] = ops[u]
      BY <1>2, SameSets, Zenon
    <3>2. CurrentOp(u)' = CurrentOp(u)
      BY <3>1, Zenon DEF CurrentOp
    <3> QED BY <3>1, <3>2 DEF Versions, FreshInv, FreshOf
  <2> QED BY <2>1, Zenon DEF FreshInv
<1>7. SeenInv'
  <2>1. ASSUME NEW u \in Txn PROVE SeenOf(u)'
    <3>1. SeenOf(u)
      BY Zenon DEF Versions, SeenInv
    <3> QED BY <1>1, <1>3, <1>4, <3>1, SameSeen, Zenon
  <2> QED BY <2>1, Zenon DEF SeenInv
<1>8. ReadInv'
  <2>1. ASSUME NEW u \in Txn, pc[u] = "Reading" PROVE ReadOf(u)'
    <3>1. PICK q : q = reading[u].row
      BY Zenon
    <3>2. q \in Row
      <4>1. q \in 1..size
        BY <2>1, <3>1, Zenon DEF Base, LoopInv, Loop
      <4>2. size \in 0..MaxRows /\ MaxRows \in Nat
        BY MvccAssumption DEF Base, TypeInv
      <4> QED BY <4>1, <4>2 DEF Row
    <3>3. ReadOf(u) /\ Observes(u, u)
      BY Zenon DEF Versions, ReadInv, Observes
    <3>4. \A w \in Txn : q \in Ins(w) /\ pc[w] \in IsAborted /\ end_cids[q] = 0 => end_cids'[q] = 0
      BY <3>2, Zenon
    <3> QED BY <1>1, <1>3, <1>4, <3>1, <3>3, <3>4, SameRead, Zenon
  <2>2. ASSUME NEW u \in Txn, pc[u] # "Reading" PROVE ReadOf(u)'
    BY <2>2, Zenon DEF ReadOf
  <2> QED BY <2>1, <2>2, Zenon DEF ReadInv
<1> QED BY <1>5, <1>6, <1>7, <1>8, Zenon DEF Versions

(* Who makes which write.                                                  *)
LEMMA WriteCases ==
  ASSUME Base, NEW t \in Txn, NEW f, NextWrite(t, f)
  PROVE  /\ CurrentRow(t) \in Row /\ at[t].row \in 1..Len(CurrentOp(t).rows)
         /\ CurrentRow(t) = CurrentOp(t).rows[at[t].row]
         /\ f = "own" => pc[t] = "Executing" /\ CurrentOp(t).kind = "Insert" /\ at[t].field = Len(Fields(t))
         /\ f = "lock" => pc[t] = "Executing" /\ CurrentOp(t).kind = "Delete" /\ at[t].field = Len(Fields(t))
         /\ f = "unlock" => pc[t] = "Aborted" /\ CurrentOp(t).kind = "Delete" /\ at[t].field = Len(Fields(t))
         /\ f = "free" =>
              /\ CurrentOp(t).kind = "Insert" /\ at[t].field = Len(Fields(t))
              /\ pc[t] \in {"Committing", "Aborted"}
         /\ f = "begin" =>
              /\ CurrentOp(t).kind = "Insert" /\ at[t].field < Len(Fields(t))
              /\ (pc[t] = "Committing" /\ at[t].field = 1) \/ (pc[t] = "Aborted" /\ at[t].field = 2)
         /\ f = "end" =>
              \/ pc[t] = "Committing" /\ CurrentOp(t).kind = "Delete" /\ at[t].field = Len(Fields(t))
              \/ pc[t] = "Aborted" /\ CurrentOp(t).kind = "Insert" /\ at[t].field = 1 /\ at[t].field < Len(Fields(t))
<1>1. TypeInv /\ LoopInv
  BY Zenon DEF Base
<1>2. PICK p, kind, k, n : p = pc[t] /\ kind = CurrentOp(t).kind /\ k = at[t].field /\ n = Len(Fields(t))
  BY Zenon
<1>3. /\ CurrentRow(t) \in Row /\ at[t].row \in 1..Len(CurrentOp(t).rows)
      /\ \/ p = "Executing" /\ kind = "Insert" /\ n = 1 /\ k = 1 /\ f = "own"
         \/ p = "Executing" /\ kind = "Delete" /\ n = 1 /\ k = 1 /\ f = "lock"
         \/ p = "Committing" /\ kind = "Insert" /\ n = 2 /\ ((k = 1 /\ f = "begin") \/ (k = 2 /\ f = "free"))
         \/ p = "Committing" /\ kind = "Delete" /\ n = 1 /\ k = 1 /\ f = "end"
         \/ /\ p = "Aborted" /\ kind = "Insert" /\ n = 3
            /\ (k = 1 /\ f = "end") \/ (k = 2 /\ f = "begin") \/ (k = 3 /\ f = "free")
         \/ p = "Aborted" /\ kind = "Delete" /\ n = 1 /\ k = 1 /\ f = "unlock"
  BY <1>1, <1>2, WriteFacts, ZenonT(40)
<1>4. /\ f = "own" => p = "Executing" /\ kind = "Insert" /\ k = n
      /\ f = "lock" => p = "Executing" /\ kind = "Delete" /\ k = n
      /\ f = "unlock" => p = "Aborted" /\ kind = "Delete" /\ k = n
      /\ f = "free" => kind = "Insert" /\ k = n /\ p \in {"Committing", "Aborted"}
      /\ f = "begin" => /\ kind = "Insert" /\ k < n
                        /\ (p = "Committing" /\ k = 1) \/ (p = "Aborted" /\ k = 2)
      /\ f = "end" => \/ p = "Committing" /\ kind = "Delete" /\ k = n
                      \/ p = "Aborted" /\ kind = "Insert" /\ k = 1 /\ k < n
  BY <1>3
<1>5. CurrentRow(t) = CurrentOp(t).rows[at[t].row]
  BY Zenon DEF CurrentRow
<1> QED BY <1>2, <1>3, <1>4, <1>5, Zenon

(* What Insert and Delete write when they execute, and the tids that       *)
(* commit and rollback free.                                               *)
LEMMA VersionsOfTidWrite ==
  ASSUME Base, Base', Versions, NEW t \in Txn, NEW r \in Row, NEW f, r = CurrentRow(t),
         NextWrite(t, f), f \in {"own", "lock", "free", "unlock"}, WriteDone(t),
         UNCHANGED <<orderVars, size, begin_cids, end_cids, snapshot, pc, ops, readVars>>,
         tids[r] \in {t, INVALID_TRANSACTION_ID}, NEW tid \in {t, INVALID_TRANSACTION_ID},
         tids' = [tids EXCEPT ![r] = tid], LockOf(t)', FreshOf(t)'
  PROVE  Versions'
<1>1. \A u \in Txn \ {t} : at'[u] = at[u]
  BY Zenon DEF WriteDone, Base, TypeInv
<1>2. \A q \in Row \ {r} : tids'[q] = tids[q]
  BY Zenon DEF Base, TypeInv
<1>3. tids'[r] = tid /\ cid' = cid
  BY Zenon DEF Base, TypeInv, orderVars
<1>4. \A u \in Txn : Ins(u)' = Ins(u) /\ Del(u)' = Del(u)
  BY SameSets, Zenon
<1>5. LockInv'
  <2>1. ASSUME NEW u \in Txn \ {t} PROVE LockOf(u)'
    <3>1. LockOf(u) /\ tids[r] # u /\ tids'[r] # u
      BY <1>3, MvccAssumption DEF Versions, LockInv
    <3>2. Done(u, "Insert")' = Done(u, "Insert") /\ Done(u, "Delete")' = Done(u, "Delete")
      BY <1>1, SameSets, Zenon
    <3>3. /\ Done(u, "Insert") \subseteq Ins(u) /\ Done(u, "Delete") \subseteq Del(u)
          /\ Ins(u) \subseteq Row /\ Del(u) \subseteq Row
      BY SetFacts, Zenon DEF Ins, Del
    <3> QED BY <1>2, <1>4, <3>1, <3>2, <3>3 DEF LockOf
  <2> QED BY <2>1, Zenon DEF LockInv
<1>6. FieldInv'
  <2>1. FieldInv
    BY Zenon DEF Versions
  <2>2. \A u \in Txn \ {t} : /\ \A q \in Ins(u)' : BeginOf(u, q)'
                             /\ \A q \in Del(u)' : EndOf(u, q)'
                             /\ HalfwayOf(u)'
    BY <1>1, <1>3, <2>1, OthersFields, Zenon
  <2>3. /\ at[t].field = Len(Fields(t))
        /\ f = "free" => CurrentOp(t).kind = "Insert" /\ (pc[t] = "Committing" => at[t].field = 2)
        /\ f # "free" => pc[t] \in {"Executing", "Aborted"}
    BY WriteFacts, Zenon DEF Base
  <2>4. /\ Done(t, "Insert")' = Done(t, "Insert") \cup (IF CurrentOp(t).kind = "Insert" THEN {r} ELSE {})
        /\ Done(t, "Delete")' = Done(t, "Delete") \cup (IF CurrentOp(t).kind = "Delete" THEN {r} ELSE {})
        /\ at'[t].field = 1
    BY <2>3, SetsOfWrite, Zenon
  <2>5. ASSUME NEW q \in Ins(t) PROVE BeginOf(t, q)'
    <3>1. BeginOf(t, q) /\ HalfwayOf(t)
      BY <2>1, Zenon DEF FieldInv
    <3>2. CASE pc[t] # "Committing"
      BY <1>3, <3>1, <3>2, Zenon DEF BeginOf
    <3>3. CASE pc[t] = "Committing"
      <4>1. CurrentOp(t).kind = "Insert" /\ Halfway(t)
        BY <2>3, <3>3, Zenon DEF Halfway, NextWrite
      <4>2. begin_cids[r] = cid[t]
        BY <3>1, <3>3, <4>1, Zenon DEF HalfwayOf
      <4> QED BY <1>3, <2>4, <3>1, <3>3, <4>2, Zenon DEF BeginOf, Running, IsAborted
    <3> QED BY <3>2, <3>3, Zenon
  <2>6. ASSUME NEW q \in Del(t) PROVE EndOf(t, q)'
    <3>1. EndOf(t, q)
      BY <2>1, Zenon DEF FieldInv
    <3>2. pc[t] = "Committing" => Done(t, "Delete")' = Done(t, "Delete")
      BY <2>3, <2>4, Zenon
    <3> QED BY <1>3, <3>1, <3>2, Zenon DEF EndOf
  <2>7. HalfwayOf(t)'
    BY <2>4 DEF HalfwayOf, Halfway
  <2>8. InitialInv' /\ \A q \in Row : CauseOf(q)'
    BY <1>3, <1>4, <2>1 DEF FieldInv, InitialInv, CauseOf
  <2> QED BY <1>4, <2>2, <2>5, <2>6, <2>7, <2>8, Zenon DEF FieldInv
<1> QED BY <1>2, <1>5, <1>6, VersionsOfWrite, Zenon

LEMMA VersionsOfSetOwnTid ==
  ASSUME Base, Base', Versions, NEW t \in Txn, SetOwnTid(t)
  PROVE  Versions'
<1>1. /\ NextWrite(t, "own") /\ WriteDone(t)
      /\ UNCHANGED <<orderVars, size, begin_cids, end_cids, snapshot, pc, ops, readVars>>
  BY Zenon DEF SetOwnTid
<1>2. PICK r : r = CurrentRow(t)
  BY Zenon
<1>3. /\ r \in Row /\ pc[t] = "Executing" /\ CurrentOp(t).kind = "Insert" /\ at[t].field = Len(Fields(t))
      /\ at[t].row \in 1..Len(CurrentOp(t).rows) /\ r = CurrentOp(t).rows[at[t].row]
  BY <1>1, <1>2, WriteCases, Zenon
<1>4. tids' = [tids EXCEPT ![r] = t] /\ tids'[r] = t /\ \A q \in Row \ {r} : tids'[q] = tids[q]
  BY <1>2, <1>3, Zenon DEF SetOwnTid, Base, TypeInv
<1>5. /\ r \in Ins(t) /\ Done(t, "Insert")' = Done(t, "Insert") \cup {r}
      /\ Done(t, "Delete")' = Done(t, "Delete")
      /\ CurrentOp(t)' = CurrentOp(t) /\ at'[t].row = at[t].row + 1
  BY <1>1, <1>2, <1>3, SetsOfWrite, Zenon DEF Ins
<1>6. Ins(t)' = Ins(t) /\ Del(t)' = Del(t)
  BY <1>1, SameSets, Zenon
<1>7. RowInv /\ SeenInv /\ LockInv /\ LockOf(t) /\ FreshOf(t)
  BY Zenon DEF Versions, LockInv, FreshInv
<1>8. tids[r] \in {t, INVALID_TRANSACTION_ID}
  <2>1. tids[r] \in Txn \cup {INVALID_TRANSACTION_ID}
    BY <1>3, Zenon DEF Base, TypeInv
  <2> QED BY <1>3, <1>5, <1>7, <2>1, OwnRow
<1>9. r \notin Done(t, "Delete")
  <2>1. Done(t, "Delete") \subseteq Del(t)
    BY SetFacts, Zenon DEF Del
  <2> QED BY <1>3, <1>7, <2>1, Zenon DEF FreshOf
<1>10. LockOf(t)'
  <2>1. Done(t, "Delete") \subseteq Row /\ Done(t, "Insert") \subseteq Row
    BY Zenon DEF Done
  <2>2. pc[t] \in Running /\ pc[t] \notin HasCommitId
    BY <1>3, Zenon DEF Running, HasCommitId
  <2> QED BY <1>1, <1>4, <1>5, <1>6, <1>7, <1>9, <2>1, <2>2, Zenon DEF LockOf
<1>11. FreshOf(t)'
  <2>1. at[t].row \in Nat
    BY Zenon DEF Base, TypeInv, AtType
  <2>2. \A j \in 1..Len(CurrentOp(t).rows) : at[t].row + 1 <= j => at[t].row <= j
    BY <2>1
  <2> QED BY <1>1, <1>5, <1>6, <1>7, <2>2, Zenon DEF FreshOf
<1> QED BY <1>1, <1>2, <1>3, <1>4, <1>8, <1>10, <1>11, VersionsOfTidWrite, Zenon

(* All Inserts of a transaction are through when it executes a Delete.     *)
LEMMA InsertsAreDone ==
  ASSUME Base, NEW t \in Txn, pc[t] = "Executing", CurrentOp(t).kind = "Delete"
  PROVE  Done(t, "Insert") = Ins(t)
<1>1. /\ Len(ops[t]) \in Nat /\ at[t].op = Len(ops[t])
  <2>1. Loop(t) /\ ops[t] \in Seq(OpType)
    BY Zenon DEF Base, LoopInv, TypeInv
  <2> QED BY <2>1 DEF Loop
<1>2. PICK n : n = Len(ops[t])
  BY Zenon
<1>3. \A i \in 1..n : ops[t][i].kind = "Insert" => i # n
  BY <1>1, <1>2, Zenon DEF CurrentOp
<1>4. \A i \in 1..n : i # n => i < n
  BY <1>1, <1>2
<1> QED BY <1>1, <1>2, <1>3, <1>4, Zenon DEF Done, Ins, RowsOf

LEMMA VersionsOfLockRow ==
  ASSUME Base, Base', Versions, NEW t \in Txn, LockRow(t)
  PROVE  Versions'
<1>1. /\ NextWrite(t, "lock") /\ WriteDone(t)
      /\ UNCHANGED <<orderVars, size, begin_cids, end_cids, snapshot, pc, ops, readVars>>
  BY Zenon DEF LockRow
<1>2. PICK r : r = CurrentRow(t)
  BY Zenon
<1>3. /\ r \in Row /\ pc[t] = "Executing" /\ CurrentOp(t).kind = "Delete" /\ at[t].field = Len(Fields(t))
      /\ at[t].row \in 1..Len(CurrentOp(t).rows) /\ r = CurrentOp(t).rows[at[t].row]
  BY <1>1, <1>2, WriteCases, Zenon
<1>4. PICK tid : tid = IF tids[r] = t THEN INVALID_TRANSACTION_ID ELSE t
  BY Zenon
<1>5. /\ tids' = [tids EXCEPT ![r] = tid] /\ tids'[r] = tid /\ \A q \in Row \ {r} : tids'[q] = tids[q]
      /\ tids[r] \in {t, INVALID_TRANSACTION_ID} /\ tid \in {t, INVALID_TRANSACTION_ID}
  BY <1>2, <1>3, <1>4, Zenon DEF LockRow, Base, TypeInv
<1>6. /\ Done(t, "Delete")' = Done(t, "Delete") \cup {r}
      /\ Done(t, "Insert")' = Done(t, "Insert")
      /\ CurrentOp(t)' = CurrentOp(t) /\ at'[t].row = at[t].row + 1
  BY <1>1, <1>2, <1>3, SetsOfWrite, Zenon
<1>7. Ins(t)' = Ins(t) /\ Del(t)' = Del(t)
  BY <1>1, SameSets, Zenon
<1>8. LockOf(t) /\ FreshOf(t)
  BY Zenon DEF Versions, LockInv, FreshInv
<1>9. r \notin Done(t, "Delete")
  <2>1. at[t].row <= at[t].row
    BY SMTT(30) DEF Base, TypeInv, AtType
  <2> QED BY <1>3, <1>8, <2>1, Zenon DEF FreshOf
<1>10. LockOf(t)'
  <2>1. Done(t, "Delete") \subseteq Row /\ Done(t, "Insert") \subseteq Row /\ Done(t, "Insert") = Ins(t)
    BY <1>3, InsertsAreDone, Zenon DEF Done
  <2>2. pc[t] \in Running /\ pc[t] \notin HasCommitId
    BY <1>3, Zenon DEF Running, HasCommitId
  <2>3. IF r \in Ins(t) THEN tids'[r] # t ELSE tids'[r] = t
    <3>1. CASE r \in Ins(t)
      <4>1. tids[r] = t
        BY <1>8, <1>9, <2>1, <2>2, <3>1, Zenon DEF LockOf
      <4> QED BY <1>4, <1>5, <3>1, <4>1, MvccAssumption, Zenon
    <3>2. CASE r \notin Ins(t)
      <4>1. tids[r] # t
        BY <1>3, <1>8, <1>9, <2>2, <3>2, Zenon DEF LockOf
      <4> QED BY <1>4, <1>5, <3>2, <4>1, Zenon
    <3> QED BY <3>1, <3>2, Zenon
  <2> QED BY <1>1, <1>5, <1>6, <1>7, <1>8, <2>1, <2>2, <2>3, Zenon DEF LockOf
<1>11. FreshOf(t)'
  <2>1. at[t].row \in Nat
    BY Zenon DEF Base, TypeInv, AtType
  <2>2. \A j \in 1..Len(CurrentOp(t).rows) : at[t].row + 1 <= j => at[t].row <= j /\ j # at[t].row
    BY <2>1
  <2>3. \A j \in 1..Len(CurrentOp(t).rows) : j # at[t].row => CurrentOp(t).rows[j] # r
    BY <1>3, <1>8, Zenon DEF FreshOf
  <2> QED BY <1>1, <1>6, <1>7, <1>8, <2>2, <2>3, Zenon DEF FreshOf
<1> QED BY <1>1, <1>2, <1>3, <1>5, <1>10, <1>11, VersionsOfTidWrite, Zenon

LEMMA VersionsOfFreeRow ==
  ASSUME Base, Base', Versions, NEW t \in Txn, FreeRow(t)
  PROVE  Versions'
<1>1. /\ NextWrite(t, "free") /\ WriteDone(t)
      /\ UNCHANGED <<orderVars, size, begin_cids, end_cids, snapshot, pc, ops, readVars>>
  BY Zenon DEF FreeRow
<1>2. PICK r : r = CurrentRow(t)
  BY Zenon
<1>3. /\ r \in Row /\ pc[t] \in {"Committing", "Aborted"} /\ CurrentOp(t).kind = "Insert"
  BY <1>1, <1>2, WriteCases, Zenon
<1>4. /\ tids' = [tids EXCEPT ![r] = INVALID_TRANSACTION_ID] /\ tids'[r] = INVALID_TRANSACTION_ID
      /\ \A q \in Row \ {r} : tids'[q] = tids[q]
  BY <1>2, <1>3, Zenon DEF FreeRow, Base, TypeInv
<1>5. r \in Ins(t)
  BY <1>1, <1>2, <1>3, SetsOfWrite, Zenon DEF Ins
<1>6. Ins(t)' = Ins(t) /\ Del(t)' = Del(t) /\ Del(t) \subseteq Row
  BY <1>1, SameSets, SetFacts, Zenon DEF Del
<1>7. RowInv /\ SeenInv /\ LockInv /\ LockOf(t)
  BY Zenon DEF Versions, LockInv
<1>8. tids[r] \in {t, INVALID_TRANSACTION_ID}
  <2>1. tids[r] \in Txn \cup {INVALID_TRANSACTION_ID}
    BY <1>3, Zenon DEF Base, TypeInv
  <2> QED BY <1>3, <1>5, <1>7, <2>1, OwnRow, Zenon
<1>9. pc[t] \notin Running /\ INVALID_TRANSACTION_ID # t
  BY <1>3, MvccAssumption, Zenon DEF Running
<1>10. LockOf(t)'
  BY <1>1, <1>4, <1>5, <1>6, <1>7, <1>9, Zenon DEF LockOf
<1>11. FreshOf(t)'
  BY <1>1, <1>3, Zenon DEF FreshOf
<1> QED BY <1>1, <1>2, <1>3, <1>4, <1>8, <1>10, <1>11, VersionsOfTidWrite, Zenon

LEMMA VersionsOfUnlockRow ==
  ASSUME Base, Base', Versions, NEW t \in Txn, UnlockRow(t)
  PROVE  Versions'
<1>1. /\ NextWrite(t, "unlock") /\ WriteDone(t)
      /\ UNCHANGED <<orderVars, size, begin_cids, end_cids, snapshot, pc, ops, readVars>>
  BY Zenon DEF UnlockRow
<1>2. PICK r : r = CurrentRow(t)
  BY Zenon
<1>3. r \in Row /\ pc[t] = "Aborted"
  BY <1>1, <1>2, WriteCases, Zenon
<1>4. /\ tids' = [tids EXCEPT ![r] = INVALID_TRANSACTION_ID] /\ tids'[r] = INVALID_TRANSACTION_ID
      /\ \A q \in Row \ {r} : tids'[q] = tids[q]
      /\ tids[r] \in {t, INVALID_TRANSACTION_ID}
  BY <1>2, <1>3, Zenon DEF UnlockRow, Base, TypeInv
<1>5. Ins(t)' = Ins(t) /\ Del(t)' = Del(t) /\ LockOf(t)
  BY <1>1, SameSets, Zenon DEF Versions, LockInv
<1>6. pc[t] \notin Running /\ pc[t] \notin HasCommitId /\ INVALID_TRANSACTION_ID # t
  BY <1>3, MvccAssumption, Zenon DEF Running, HasCommitId
<1>7. LockOf(t)'
  BY <1>1, <1>4, <1>5, <1>6, Zenon DEF LockOf
<1>8. FreshOf(t)'
  BY <1>1, <1>3, Zenon DEF FreshOf
<1> QED BY <1>1, <1>2, <1>3, <1>4, <1>7, <1>8, VersionsOfTidWrite, Zenon

(* Commit and rollback write a commit id or zero.                          *)
LEMMA VersionsOfCidWrite ==
  ASSUME Base, Base', Versions, NEW t \in Txn, NEW r \in Row, NEW f, r = CurrentRow(t),
         NextWrite(t, f), f \in {"begin", "end"}, WriteDone(t),
         UNCHANGED <<orderVars, size, tids, snapshot, pc, ops, readVars>>,
         \A q \in Row \ {r} : begin_cids'[q] = begin_cids[q] /\ end_cids'[q] = end_cids[q],
         FieldInv',
         \A w \in Txn : r \in Ins(w) /\ pc[w] \in IsAborted /\ end_cids[r] = 0 => end_cids'[r] = 0
  PROVE  Versions'
<1>1. \A u \in Txn \ {t} : at'[u] = at[u]
  BY Zenon DEF WriteDone, Base, TypeInv
<1>2. \A u \in Txn : Ins(u)' = Ins(u) /\ Del(u)' = Del(u)
  BY SameSets, Zenon
<1>3. pc[t] \in {"Committing", "Aborted"}
  BY WriteCases, Zenon
<1>4. LockInv'
  <2>1. ASSUME NEW u \in Txn \ {t} PROVE LockOf(u)'
    <3>1. LockOf(u) /\ Done(u, "Insert")' = Done(u, "Insert") /\ Done(u, "Delete")' = Done(u, "Delete")
      BY <1>1, SameSets, Zenon DEF Versions, LockInv
    <3> QED BY <1>2, <3>1, Zenon DEF LockOf
  <2>2. LockOf(t)'
    <3>1. LockOf(t) /\ pc[t] \notin Running
      BY <1>3, Zenon DEF Versions, LockInv, Running
    <3> QED BY <1>2, <3>1, Zenon DEF LockOf
  <2> QED BY <2>1, <2>2, Zenon DEF LockInv
<1>5. FreshOf(t)'
  BY <1>3, Zenon DEF FreshOf
<1> QED BY <1>4, <1>5, VersionsOfWrite, Zenon

LEMMA VersionsOfWriteBegin ==
  ASSUME Base, Base', Versions, NEW t \in Txn, WriteBegin(t)
  PROVE  Versions'
<1>1. /\ NextWrite(t, "begin") /\ WriteDone(t)
      /\ UNCHANGED <<orderVars, size, tids, end_cids, snapshot, pc, ops, readVars>>
  BY Zenon DEF WriteBegin
<1>2. PICK r : r = CurrentRow(t)
  BY Zenon
<1>3. /\ r \in Row /\ CurrentOp(t).kind = "Insert" /\ at[t].field < Len(Fields(t))
      /\ (pc[t] = "Committing" /\ at[t].field = 1) \/ (pc[t] = "Aborted" /\ at[t].field = 2)
  BY <1>1, <1>2, WriteCases, Zenon
<1>4. /\ begin_cids'[r] = CidToWrite(t) /\ \A q \in Row \ {r} : begin_cids'[q] = begin_cids[q]
  BY <1>2, <1>3, Zenon DEF WriteBegin, Base, TypeInv
<1>5. /\ r \in Ins(t) /\ Done(t, "Insert")' = Done(t, "Insert") /\ Done(t, "Delete")' = Done(t, "Delete")
      /\ CurrentRow(t)' = r /\ at'[t].field = at[t].field + 1
  BY <1>1, <1>2, <1>3, SetsOfWrite, Zenon DEF Ins
<1>6. \A u \in Txn : Ins(u)' = Ins(u) /\ Del(u)' = Del(u)
  BY <1>1, SameSets, Zenon
<1>7. cid' = cid /\ \A u \in Txn \ {t} : at'[u] = at[u]
  BY <1>1, Zenon DEF orderVars, WriteDone, Base, TypeInv
<1>8. RowInv /\ FieldInv
  BY Zenon DEF Versions
<1>9. Ins(t) \subseteq Row /\ Del(t) \subseteq Row
  BY SetFacts, Zenon DEF Ins, Del
<1>10. FieldInv'
  <2>1. InitialInv'
    <3>1. InitialRows < r /\ InitialRows \in Nat
      BY <1>5, <1>8, MvccAssumption, Zenon DEF RowInv
    <3>2. \A q \in 1..InitialRows : q \in Row \ {r}
      BY <1>3, <3>1, MvccAssumption DEF Row
    <3> QED BY <1>4, <1>8, <3>2, Zenon DEF FieldInv, InitialInv
  <2>2. \A u \in Txn \ {t} : /\ \A q \in Ins(u)' : BeginOf(u, q)'
                             /\ \A q \in Del(u)' : EndOf(u, q)'
                             /\ HalfwayOf(u)'
    <3>1. ASSUME NEW u \in Txn \ {t} PROVE r \notin Ins(u)
      BY <1>5, <1>8, Zenon DEF RowInv
    <3> QED BY <1>1, <1>3, <1>4, <1>7, <1>8, <3>1, OthersFields, Zenon
  <2>3. pc[t] = "Aborted" => end_cids[r] = 0
    <3>1. SUFFICES ASSUME pc[t] = "Aborted" PROVE end_cids[r] = 0
      BY Zenon
    <3>2. Halfway(t)
      BY <1>1, <1>3, <3>1, Zenon DEF Halfway, NextWrite
    <3> QED BY <1>2, <1>8, <3>1, <3>2, Zenon DEF FieldInv, HalfwayOf
  <2>4. ASSUME NEW q \in Ins(t) PROVE BeginOf(t, q)'
    <3>1. CASE q = r
      BY <1>1, <1>3, <1>4, <1>7, <2>3, <3>1, Zenon DEF BeginOf, CidToWrite, Running, IsAborted
    <3>2. CASE q # r
      BY <1>1, <1>4, <1>5, <1>7, <1>8, <1>9, <3>2 DEF FieldInv, BeginOf
    <3> QED BY <3>1, <3>2, Zenon
  <2>5. ASSUME NEW q \in Del(t) PROVE EndOf(t, q)'
    BY <1>1, <1>5, <1>7, <1>8, Zenon DEF FieldInv, EndOf
  <2>6. HalfwayOf(t)'
    <3>1. CASE pc[t] = "Committing"
      BY <1>1, <1>4, <1>5, <1>7, <3>1, ZenonT(40) DEF HalfwayOf, CidToWrite
    <3>2. CASE pc[t] = "Aborted"
      BY <1>1, <1>3, <1>5, <3>2, SMTT(30) DEF HalfwayOf, Halfway
    <3> QED BY <1>3, <3>1, <3>2, Zenon
  <2>7. \A q \in Row : CauseOf(q)'
    BY <1>1, <1>6, <1>7, <1>8 DEF FieldInv, CauseOf
  <2> QED BY <1>6, <2>1, <2>2, <2>4, <2>5, <2>6, <2>7, Zenon DEF FieldInv
<1> QED BY <1>1, <1>2, <1>3, <1>4, <1>10, VersionsOfCidWrite, Zenon

LEMMA VersionsOfWriteEnd ==
  ASSUME Base, Base', Versions, NEW t \in Txn, WriteEnd(t)
  PROVE  Versions'
<1>1. /\ NextWrite(t, "end") /\ WriteDone(t)
      /\ UNCHANGED <<orderVars, size, tids, begin_cids, snapshot, pc, ops, readVars>>
  BY Zenon DEF WriteEnd
<1>2. PICK r : r = CurrentRow(t)
  BY Zenon
<1>3. r \in Row
  BY <1>1, <1>2, WriteCases, Zenon
<1>4. /\ end_cids'[r] = CidToWrite(t) /\ \A q \in Row \ {r} : end_cids'[q] = end_cids[q]
  BY <1>2, <1>3, Zenon DEF WriteEnd, Base, TypeInv
<1>5. \A u \in Txn : Ins(u)' = Ins(u) /\ Del(u)' = Del(u)
  BY <1>1, SameSets, Zenon
<1>6. cid' = cid /\ \A u \in Txn \ {t} : at'[u] = at[u]
  BY <1>1, Zenon DEF orderVars, WriteDone, Base, TypeInv
<1>7. RowInv /\ FieldInv /\ SeenInv /\ LockInv
  BY Zenon DEF Versions
<1>8. Ins(t) \subseteq Row /\ Del(t) \subseteq Row
  BY SetFacts, Zenon DEF Ins, Del
<1>9. InitialInv'
  BY <1>1, <1>7, Zenon DEF FieldInv, InitialInv
<1>10. CASE pc[t] = "Committing" /\ CurrentOp(t).kind = "Delete" /\ at[t].field = Len(Fields(t))
  <2>1. /\ r \in Del(t) /\ Done(t, "Insert")' = Done(t, "Insert")
        /\ Done(t, "Delete")' = Done(t, "Delete") \cup {r} /\ at'[t].field = 1
    <3>1. /\ CurrentRow(t) \in RowsOf(t, CurrentOp(t).kind)
          /\ \A kind : Done(t, kind)' = Done(t, kind) \cup (IF CurrentOp(t).kind = kind THEN {r} ELSE {})
          /\ at'[t].field = 1
      BY <1>1, <1>2, <1>10, SetsOfWrite, Zenon
    <3> QED BY <1>2, <1>10, <3>1, ZenonT(40) DEF Del
  <2>2. end_cids'[r] = cid[t] /\ cid[t] # 0
    <3>1. pc[t] \in HasCommitId
      BY <1>10, Zenon DEF HasCommitId
    <3>2. cid[t] # 0
      BY <3>1, Zenon DEF Base, OrderInv
    <3> QED BY <1>4, <1>10, <3>2, Zenon DEF CidToWrite
  <2>3. ASSUME NEW u \in Txn \ {t} PROVE /\ r \in Ins(u) => pc[u] \in {"Pending", "Committed"}
                                         /\ r \in Del(u) => pc[u] \notin HasCommitId
    <3>1. r \in Ins(u) => pc[u] \in {"Pending", "Committed"}
      BY <1>7, <2>1, DeleterObserves, Zenon
    <3>2. r \in Del(u) => pc[u] \notin HasCommitId
      <4>1. pc[t] \in HasCommitId
        BY <1>10, Zenon DEF HasCommitId
      <4> QED BY <1>7, <2>1, <4>1, OneDeleter, Zenon
    <3> QED BY <3>1, <3>2, Zenon
  <2>4. \A u \in Txn \ {t} : /\ \A q \in Ins(u)' : BeginOf(u, q)'
                             /\ \A q \in Del(u)' : EndOf(u, q)'
                             /\ HalfwayOf(u)'
    BY <1>1, <1>3, <1>4, <1>6, <1>7, <2>3, OthersFields, Zenon
  <2>5. ASSUME NEW q \in Ins(t) PROVE BeginOf(t, q)'
    BY <1>1, <1>6, <1>7, <1>10, <2>1, Zenon DEF FieldInv, BeginOf, IsAborted
  <2>6. ASSUME NEW q \in Del(t) PROVE EndOf(t, q)'
    BY <1>1, <1>4, <1>6, <1>7, <1>8, <1>10, <2>1, <2>2, Zenon DEF FieldInv, EndOf
  <2>7. HalfwayOf(t)'
    BY <2>1 DEF HalfwayOf, Halfway
  <2>8. ASSUME NEW q \in Row PROVE CauseOf(q)'
    <3>1. CASE q = r
      BY <1>5, <1>6, <2>1, <2>2, <3>1, Zenon DEF CauseOf
    <3>2. CASE q # r
      BY <1>1, <1>4, <1>5, <1>6, <1>7, <3>2 DEF FieldInv, CauseOf
    <3> QED BY <3>1, <3>2, Zenon
  <2>9. FieldInv'
    BY <1>5, <1>9, <2>4, <2>5, <2>6, <2>7, <2>8, Zenon DEF FieldInv
  <2>10. \A w \in Txn : ~(r \in Ins(w) /\ pc[w] \in IsAborted)
    BY <1>10, <2>3, Zenon DEF IsAborted
  <2> QED BY <1>1, <1>2, <1>3, <1>4, <2>9, <2>10, VersionsOfCidWrite, Zenon
<1>11. CASE pc[t] = "Aborted" /\ CurrentOp(t).kind = "Insert" /\ at[t].field = 1 /\ at[t].field < Len(Fields(t))
  <2>1. /\ r \in Ins(t) /\ CurrentRow(t)' = r
    BY <1>1, <1>2, <1>11, SetsOfWrite, Zenon DEF Ins
  <2>2. end_cids'[r] = 0
    BY <1>4, <1>11, Zenon DEF CidToWrite
  <2>3. \A u \in Txn \ {t} : r \notin Ins(u) /\ r \notin Del(u)
    BY <1>7, <1>11, <2>1, OwnRow, Zenon
  <2>4. \A u \in Txn \ {t} : /\ \A q \in Ins(u)' : BeginOf(u, q)'
                             /\ \A q \in Del(u)' : EndOf(u, q)'
                             /\ HalfwayOf(u)'
    BY <1>1, <1>3, <1>4, <1>6, <1>7, <2>3, OthersFields, Zenon
  <2>5. ASSUME NEW q \in Ins(t) PROVE BeginOf(t, q)'
    <3>1. BeginOf(t, q) /\ pc[t] \in IsAborted
      BY <1>7, <1>11, Zenon DEF FieldInv, IsAborted
    <3>2. end_cids[q] = 0 => end_cids'[q] = 0
      BY <1>4, <1>8, <2>2, Zenon
    <3> QED BY <1>1, <1>11, <3>1, <3>2, Zenon DEF BeginOf, Running
  <2>6. ASSUME NEW q \in Del(t) PROVE EndOf(t, q)'
    BY <1>1, <1>11, Zenon DEF EndOf
  <2>7. HalfwayOf(t)'
    BY <1>1, <1>11, <2>1, <2>2, ZenonT(40) DEF HalfwayOf
  <2>8. ASSUME NEW q \in Row PROVE CauseOf(q)'
    <3>1. CASE q = r
      BY <1>1, <1>5, <1>11, <2>1, <2>2, <3>1, SMTT(30) DEF CauseOf, IsAborted
    <3>2. CASE q # r
      BY <1>1, <1>4, <1>5, <1>6, <1>7, <3>2 DEF FieldInv, CauseOf
    <3> QED BY <3>1, <3>2, Zenon
  <2>9. FieldInv'
    BY <1>5, <1>9, <2>4, <2>5, <2>6, <2>7, <2>8, Zenon DEF FieldInv
  <2> QED BY <1>1, <1>2, <1>3, <1>4, <2>2, <2>9, VersionsOfCidWrite, Zenon
<1> QED BY <1>1, <1>10, <1>11, WriteCases, Zenon

-----------------------------------------------------------------------------

(* The invariant.                                                          *)

LEMMA InvInit == Init => Inv
<1>1. SUFFICES ASSUME Init PROVE Inv
  BY Zenon
<1>2. \A t \in Txn : /\ pc[t] = "NotStarted" /\ ops[t] = <<>> /\ at[t].op = 1 /\ at[t].row = 1 /\ at[t].field = 1
                     /\ seen[t] = {} /\ cid[t] = 0 /\ snapshot[t] = 0
  BY <1>1, Zenon DEF Init, FirstWrite, WriteAt, Order!Init, Order!NoId
<1>3. TypeInv
  <2>1. 0 \in 0..MAX_COMMIT_ID /\ MAX_COMMIT_ID \in 0..MAX_COMMIT_ID /\ InitialRows \in InitialRows..MaxRows
    BY MvccAssumption
  <2>2. /\ size \in InitialRows..MaxRows
        /\ tids \in [Row -> Txn \cup {INVALID_TRANSACTION_ID}]
        /\ begin_cids \in [Row -> 0..MAX_COMMIT_ID] /\ end_cids \in [Row -> 0..MAX_COMMIT_ID]
    BY <1>1, <2>1, Zenon DEF Init
  <2>3. /\ snapshot \in [Txn -> Nat] /\ inserts_next \in [Txn -> Nat]
        /\ pc \in [Txn -> Pc] /\ seen \in [Txn -> SUBSET (1..size)] /\ loads_in_order \in BOOLEAN
    BY <1>1, Zenon DEF Init, Pc
  <2>4. at \in [Txn -> AtType]
    BY <1>1 DEF Init, FirstWrite, WriteAt, AtType
  <2>5. ops \in [Txn -> Seq(OpType)]
    BY <1>1 DEF Init
  <2>6. reading \in [Txn -> ReadType]
    BY <1>1, MvccAssumption DEF Init, NothingRead, Loaded, ReadType
  <2>7. /\ last_commit_id \in Nat /\ newest_id \in Nat /\ cid \in [Txn -> Nat]
        /\ ready \subseteq Txn /\ committed \subseteq Txn
    BY <1>1, MvccAssumption, Zenon DEF Init, Order!Init, Order!NoId
  <2> QED BY <2>2, <2>3, <2>4, <2>5, <2>6, <2>7, Zenon DEF TypeInv
<1>4. LoopInv
  <2>1. ASSUME NEW t \in Txn PROVE Loop(t)
    <3>1. Len(ops[t]) = 0 /\ ops[t] = <<>> /\ at[t].op = 1 /\ pc[t] = "NotStarted"
      BY <1>2
    <3> QED BY <3>1 DEF Loop
  <2> QED BY <2>1, Zenon DEF LoopInv
<1>5. OrderInv
  <2>1. last_commit_id = INITIAL_COMMIT_ID /\ newest_id = INITIAL_COMMIT_ID /\ ready = {}
    BY <1>1, Zenon DEF Init, Order!Init
  <2> QED BY <1>2, <2>1, MvccAssumption DEF OrderInv, HasCommitId
<1>6. \A t \in Txn : Ins(t) = {} /\ Del(t) = {} /\ Done(t, "Insert") = {} /\ Done(t, "Delete") = {}
  <2>0. Len(<<>>) = 0
    BY Zenon
  <2>1. \A t \in Txn : Len(ops[t]) = 0
    BY <1>2, <2>0, Zenon
  <2>2. 1..0 = {}
    OBVIOUS
  <2> QED BY <2>1, <2>2, Zenon DEF Ins, Del, RowsOf, Done
<1>7. size = InitialRows /\ InitialRows \in Nat /\ MaxRows \in Nat /\ InitialRows <= MaxRows
  BY <1>1, MvccAssumption, Zenon DEF Init
<1>8. \A r \in Row : tids[r] = INVALID_TRANSACTION_ID /\ end_cids[r] = MAX_COMMIT_ID
  BY <1>1, Zenon DEF Init
<1>9. RowInv
  <2>1. \A r \in Row : size < r => begin_cids[r] = MAX_COMMIT_ID
    BY <1>1, <1>7 DEF Init, Row
  <2>2. \A r \in 1..size : ~(InitialRows < r)
    BY <1>7
  <2> QED BY <1>6, <1>8, <2>1, <2>2, Zenon DEF RowInv
<1>10. FieldInv
  <2>1. InitialInv
    BY <1>1, <1>7 DEF Init, InitialInv, Row
  <2>2. \A t \in Txn : HalfwayOf(t)
    BY <1>2, Zenon DEF HalfwayOf
  <2>3. \A r \in Row : CauseOf(r)
    BY <1>8, Zenon DEF CauseOf
  <2> QED BY <1>6, <2>1, <2>2, <2>3, Zenon DEF FieldInv
<1>11. LockInv
  <2>1. \A t \in Txn : \A r \in Row : tids[r] # t
    BY <1>8, MvccAssumption, Zenon
  <2> QED BY <1>6, <2>1, Zenon DEF LockInv, LockOf
<1>12. FreshInv /\ SeenInv /\ ReadInv
  BY <1>2, <1>6, Zenon DEF FreshInv, FreshOf, SeenInv, SeenOf, ReadInv, ReadOf
<1> QED BY <1>3, <1>4, <1>5, <1>9, <1>10, <1>11, <1>12, Zenon DEF Inv, Base, Versions

LEMMA InvStutter == ASSUME Inv, UNCHANGED vars PROVE Inv'
<1>1. /\ UNCHANGED <<last_commit_id, newest_id, cid, ready, committed, size, tids, begin_cids, end_cids>>
      /\ UNCHANGED <<snapshot, pc, ops, at, inserts_next, reading, seen, loads_in_order>>
  BY Zenon DEF vars, orderVars, rowVars, workVars, readVars
<1>2. Base'
  BY <1>1, Zenon DEF Inv, Base, TypeInv, LoopInv, Loop, OrderInv, OperatorDone, NoOperatorLeft, CurrentOp, Fields
<1>3. \A t \in Txn : /\ Ins(t)' = Ins(t) /\ Del(t)' = Del(t)
                     /\ \A kind : Done(t, kind)' = Done(t, kind)
  BY <1>1, SameSets, Zenon
<1>4. \A t, u \in Txn : Observes(t, u)' <=> Observes(t, u)
  BY <1>1, Zenon DEF Observes, Order!HasId, Order!NoId
<1>5. RowInv => RowInv'
  BY <1>1, <1>3 DEF RowInv
<1>6. FieldInv => FieldInv'
  <2>1. SUFFICES ASSUME FieldInv PROVE FieldInv'
    BY Zenon
  <2>2. \A t \in Txn : HalfwayOf(t)'
    BY <1>1, <2>1, SameOwner, Zenon DEF FieldInv
  <2>3. \A t \in Txn : (\A r \in Ins(t)' : BeginOf(t, r)') /\ (\A r \in Del(t)' : EndOf(t, r)')
    BY <1>1, <1>3, <2>1, SameOwner, Zenon DEF FieldInv
  <2>4. InitialInv' /\ \A r \in Row : CauseOf(r)'
    BY <1>1, <1>3, <2>1 DEF FieldInv, InitialInv, CauseOf
  <2> QED BY <2>2, <2>3, <2>4, Zenon DEF FieldInv
<1>7. (LockInv => LockInv') /\ (FreshInv => FreshInv')
  BY <1>1, SameOwner, Zenon DEF LockInv, FreshInv
<1>8. SeenInv => SeenInv'
  BY <1>1, <1>3, <1>4, SameSeen, Zenon DEF SeenInv
<1>9. ReadInv => ReadInv'
  <2>1. SUFFICES ASSUME ReadInv, NEW t \in Txn PROVE ReadOf(t)'
    BY Zenon DEF ReadInv
  <2>2. PICK r : r = reading[t].row
    BY Zenon
  <2>3. ReadOf(t) /\ Observes(t, t)
    BY <2>1, Zenon DEF ReadInv, Observes
  <2> QED BY <1>1, <1>3, <1>4, <2>2, <2>3, SameRead, Zenon
<1> QED BY <1>1, <1>2, <1>5, <1>6, <1>7, <1>8, <1>9, Zenon DEF Inv, Versions

LEMMA InvNext == ASSUME Inv, Next PROVE Inv'
<1>1. PICK t \in Txn : Step(t)
  BY Zenon DEF Next
<1>2. Base /\ UNCHANGED loads_in_order /\ (loads_in_order => Versions)
  BY Zenon DEF Inv, Next
<1>3. CASE \/ Begin(t) \/ (\E r \in Row : StartReading(t, r)) \/ ReadBegin(t) \/ ReadEnd(t)
           \/ RowRead(t) \/ Executed(t) \/ LockFails(t)
  <2>1. UNCHANGED rowVars
    BY <1>3, Zenon DEF Begin, StartReading, ReadBegin, ReadEnd, RowRead, Executed, LockFails
  <2>2. Base'
    BY <1>2, <1>3, <2>1, BaseOfPhases, Zenon
  <2>3. loads_in_order => Versions'
    BY <1>2, <1>3, <2>1, <2>2, VersionsOfPhases, Zenon
  <2> QED BY <1>2, <2>2, <2>3, Zenon DEF Inv
<1>4. CASE Statement(t) \/ UpdateInserts(t)
  <2>1. Base'
    BY <1>2, <1>4, BaseOfStatements, Zenon
  <2>2. loads_in_order => Versions'
    BY <1>2, <1>4, <2>1, VersionsOfStatements, Zenon
  <2> QED BY <1>2, <2>1, <2>2, Zenon DEF Inv
<1>5. CASE SetOwnTid(t) \/ LockRow(t) \/ WriteBegin(t) \/ WriteEnd(t) \/ FreeRow(t) \/ UnlockRow(t)
  <2>1. Base'
    BY <1>2, <1>5, BaseOfWrites, Zenon
  <2>2. loads_in_order => Versions'
    BY <1>2, <1>5, <2>1, VersionsOfSetOwnTid, VersionsOfLockRow, VersionsOfWriteBegin, VersionsOfWriteEnd,
       VersionsOfFreeRow, VersionsOfUnlockRow, Zenon
  <2> QED BY <1>2, <2>1, <2>2, Zenon DEF Inv
<1>6. CASE PrepareCommit(t) \/ MakePending(t) \/ Advance(t) \/ Committed(t) \/ Abort(t) \/ RolledBack(t)
           \/ NextOperator(t) \/ UnlockStops(t)
  <2>1. Base'
    BY <1>2, <1>6, BaseOfEnds, BaseOfLoopEnds, Zenon
  <2>2. loads_in_order => Versions'
    BY <1>2, <1>6, <2>1, VersionsOfEnds, Zenon
  <2> QED BY <1>2, <2>1, <2>2, Zenon DEF Inv
<1> QED BY <1>1, <1>3, <1>4, <1>5, <1>6, Zenon DEF Step

(* The inductive invariant holds in every behaviour.                       *)
LEMMA InvHolds == Spec => []Inv
<1>1. Inv /\ [Next]_vars => Inv'
  BY InvNext, InvStutter, Zenon
<1> QED BY <1>1, InvInit, PTL DEF Spec

-----------------------------------------------------------------------------

(* In every behaviour, with any number of transactions and rows, the MVCC  *)
(* fields have their types and the loops of Insert, Delete and Update over *)
(* the rows and fields they write stay within bounds.                      *)
THEOREM TypeCorrect == Spec => []TypeOK
<1>1. Inv => TypeOK
  <2>1. SUFFICES ASSUME Inv PROVE TypeOK
    BY Zenon
  <2>2. TypeInv /\ LoopInv
    BY <2>1, Zenon DEF Inv, Base
  <2>3. size \in 0..MaxRows /\ InitialRows \in Nat /\ MaxRows \in Nat
    BY <2>2, MvccAssumption DEF TypeInv
  <2>4. begin_cids \in [Row -> Nat] /\ end_cids \in [Row -> Nat]
    BY <2>2, MvccAssumption DEF TypeInv
  <2>5. ASSUME NEW t \in Txn, NEW i \in 1..Len(ops[t]), NEW j \in 1..Len(ops[t][i].rows)
        PROVE  ops[t][i].rows[j] \in 1..size
    <3>1. ops[t] \in Seq(OpType)
      BY <2>2, Zenon DEF TypeInv
    <3>2. ops[t][i] \in OpType
      BY <3>1
    <3>3. ops[t][i].rows \in Seq(Row)
      BY <3>2, Zenon DEF OpType
    <3>4. ops[t][i].rows[j] \in Row
      BY <3>3
    <3>5. ops[t][i].rows[j] <= size
      BY <2>2, Zenon DEF LoopInv, Loop
    <3> QED BY <2>3, <3>4, <3>5 DEF Row
  <2>6. ASSUME NEW t \in Txn
        PROVE  /\ at[t].op <= Len(ops[t]) + 1
               /\ seen[t] \subseteq 1..size
               /\ pc[t] \in {"Executing", "Committing", "Aborted"} /\ ~NoOperatorLeft(t) =>
                    at[t].row <= Len(CurrentOp(t).rows) + 1 /\ at[t].field <= Len(Fields(t))
    BY <2>2, Zenon DEF TypeInv, LoopInv, Loop
  <2>7. /\ tids \in [Row -> Txn \cup {INVALID_TRANSACTION_ID}]
        /\ snapshot \in [Txn -> Nat] /\ inserts_next \in [Txn -> Nat] /\ at \in [Txn -> AtType]
    BY <2>2, Zenon DEF TypeInv
  <2> QED BY <2>3, <2>4, <2>5, <2>6, <2>7, Zenon DEF TypeOK, AtType
<1> QED BY <1>1, InvHolds, PTL

(* However Validate, Insert, Delete, Update, commit and rollback of any    *)
(* number of transactions interleave, no two transactions that commit have *)
(* deleted or updated the same row (delete.cpp: a row that a committed     *)
(* transaction deleted is never unlocked).                                 *)
THEOREM NoUpdateIsLost == Spec => []NoLostUpdate
<1>1. Inv => NoLostUpdate
  <2>1. SUFFICES ASSUME Inv, loads_in_order, NEW t \in Txn, NEW u \in Txn, t # u,
                        Order!HasId(t), Order!HasId(u), NEW r \in Del(t), r \in Del(u)
                 PROVE  FALSE
    BY Zenon DEF NoLostUpdate, Del
  <2>2. Base /\ Versions
    BY <2>1, Zenon DEF Inv
  <2>3. pc[t] \in HasCommitId /\ pc[u] \in HasCommitId
    BY <2>1, <2>2, Zenon DEF Base, OrderInv, Order!HasId, Order!NoId
  <2> QED BY <2>1, <2>2, <2>3, OneDeleter, Zenon DEF Versions
<1> QED BY <1>1, InvHolds, PTL

(* A row that a committing or committed transaction has deleted stays      *)
(* locked by it, so that every later Delete of the row fails (delete.cpp,  *)
(* _on_commit_records leaves tids alone).                                  *)
THEOREM LocksStay == Spec => []DeletedStaysLocked
<1>1. Inv => DeletedStaysLocked
  <2>1. SUFFICES ASSUME Inv, loads_in_order, NEW t \in Txn, NEW r \in Del(t) \ Ins(t), pc[t] \in HasCommitId
                 PROVE  tids[r] = t
    BY Zenon DEF DeletedStaysLocked, Del, Ins, HasCommitId
  <2> QED BY <2>1, Zenon DEF Inv, Versions, LockInv, LockOf
<1> QED BY <1>1, InvHolds, PTL

(* Validate decides by three loads, one after the other, while other       *)
(* transactions write the fields: what it passes is exactly the snapshot   *)
(* of its transaction (validate.cpp, is_row_visible).                      *)
THEOREM SnapshotIsRead == Spec => ReadsSnapshot
<1>1. Inv /\ [Next]_vars =>
        [\A t \in Txn : loads_in_order /\ pc[t] = "Reading" /\ pc'[t] = "Active" =>
           (reading[t].row \in seen'[t] <=> InSnapshot(t, reading[t].row))]_vars
  <2>1. SUFFICES ASSUME Inv, Next, NEW t \in Txn, loads_in_order, pc[t] = "Reading", pc'[t] = "Active"
                 PROVE  reading[t].row \in seen'[t] <=> InSnapshot(t, reading[t].row)
    BY Zenon
  <2>2. Base /\ Versions /\ pc \in [Txn -> Pc] /\ seen \in [Txn -> SUBSET (1..size)]
    BY <2>1, Zenon DEF Inv, Base, TypeInv
  <2>3. PICK u \in Txn : Step(u)
    BY <2>1, Zenon DEF Next
  <2>4. RowRead(t)
    BY <2>1, <2>2, <2>3, Zenon DEF Step, Begin, StartReading, ReadBegin, ReadEnd, RowRead, Statement, Insert, Delete,
       UpdateInserts, Executed, SetOwnTid, LockRow, LockFails, PrepareCommit, MakePending, Advance, Committed,
       Abort, RolledBack, NextOperator, WriteBegin, WriteEnd, FreeRow, UnlockRow, UnlockStops, Goto
  <2>5. is_row_visible(t, snapshot[t], reading[t]) <=> InSnapshot(t, reading[t].row)
    BY <2>1, <2>2, <2>4, VisibleIsInSnapshot, Zenon DEF RowRead
  <2> QED BY <2>2, <2>4, <2>5, Zenon DEF RowRead
<1> QED BY <1>1, InvHolds, PTL DEF Spec, ReadsSnapshot

=============================================================================
