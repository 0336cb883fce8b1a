---------------------------- MODULE MvccVersions ----------------------------
(***************************************************************************)
(* What the rows of the operators are, who observes whom, what a step of   *)
(* one transaction leaves alone of the others; and that the steps which    *)
(* write no field of a row, Validate and the phases of a transaction, keep *)
(* the versions right.                                                     *)
(***************************************************************************)
EXTENDS MvccInvariant

(* The rows of a transaction's operators.                                  *)

LEMMA SetFacts ==
  ASSUME Base, NEW t \in Txn, NEW kind
  PROVE  /\ RowsOf(t, kind) \subseteq 1..size /\ RowsOf(t, kind) \subseteq Row
         /\ Done(t, kind) \subseteq RowsOf(t, kind)
         /\ pc[t] = "NotStarted" => RowsOf(t, kind) = {}
         /\ pc[t] \in {"Active", "Reading"} \/ NoOperatorLeft(t)
              \/ (pc[t] = "Executing" /\ OperatorDone(t)) => Done(t, kind) = RowsOf(t, kind)
<1>1. /\ Loop(t) /\ ops[t] \in Seq(OpType) /\ Len(ops[t]) \in Nat /\ at[t].op \in Nat /\ at[t].row \in Nat
      /\ InitialRows \in Nat /\ MaxRows \in Nat /\ size \in InitialRows..MaxRows
  BY MvccAssumption DEF Base, LoopInv, TypeInv, AtType
<1>2. RowsOf(t, kind) \subseteq 1..size /\ RowsOf(t, kind) \subseteq Row
  BY <1>1, SMTT(30) DEF RowsOf, Loop, Row
<1>3. Done(t, kind) \subseteq RowsOf(t, kind)
  BY Zenon DEF Done, RowsOf
<1>4. ASSUME pc[t] = "NotStarted" PROVE RowsOf(t, kind) = {}
  <2>1. ops[t] = <<>> /\ Len(ops[t]) = 0
    BY <1>1, <1>4, Zenon DEF Loop
  <2> QED BY <2>1 DEF RowsOf
<1>5. ASSUME \A i \in 1..Len(ops[t]) : \A j \in 1..Len(ops[t][i].rows) :
               i < at[t].op \/ (i = at[t].op /\ j < at[t].row)
      PROVE  Done(t, kind) = RowsOf(t, kind)
  BY <1>5, Zenon DEF Done, RowsOf
<1>6. ASSUME NoOperatorLeft(t) PROVE Done(t, kind) = RowsOf(t, kind)
  <2>1. \A i \in 1..Len(ops[t]) : i < at[t].op
    BY <1>1, <1>6 DEF NoOperatorLeft
  <2> QED BY <1>5, <2>1, Zenon
<1>7. ASSUME at[t].op = Len(ops[t]), OperatorDone(t) PROVE Done(t, kind) = RowsOf(t, kind)
  <2>1. \A j \in 1..Len(ops[t][at[t].op].rows) : at[t].op \in 1..Len(ops[t]) => j < at[t].row
    <3>1. SUFFICES ASSUME NEW j \in 1..Len(ops[t][at[t].op].rows), at[t].op \in 1..Len(ops[t]) PROVE j < at[t].row
      BY Zenon
    <3>2. ops[t][at[t].op] \in OpType
      BY <1>1, <3>1
    <3>3. Len(ops[t][at[t].op].rows) \in Nat
      BY <3>2 DEF OpType
    <3> QED BY <1>1, <1>7, <3>3 DEF OperatorDone, CurrentOp
  <2>2. \A i \in 1..Len(ops[t]) : i < at[t].op \/ i = at[t].op
    BY <1>1, <1>7
  <2> QED BY <1>5, <2>1, <2>2, Zenon
<1>8. pc[t] \in {"Active", "Reading"} => NoOperatorLeft(t) \/ (at[t].op = Len(ops[t]) /\ OperatorDone(t))
  BY <1>1 DEF Loop, NoOperatorLeft
<1>9. pc[t] = "Executing" => at[t].op = Len(ops[t])
  BY <1>1, Zenon DEF Loop
<1> QED BY <1>2, <1>3, <1>4, <1>6, <1>7, <1>8, <1>9, Zenon

(* They depend on nothing else.                                            *)
LEMMA SameSets ==
  ASSUME NEW t \in Txn, ops'[t] = ops[t]
  PROVE  /\ Ins(t)' = Ins(t) /\ Del(t)' = Del(t)
         /\ \A kind : RowsOf(t, kind)' = RowsOf(t, kind)
         /\ at'[t] = at[t] => \A kind : Done(t, kind)' = Done(t, kind)
<1>1. \A kind : RowsOf(t, kind)' = RowsOf(t, kind)
  BY Zenon DEF RowsOf
<1>2. at'[t] = at[t] => \A kind : Done(t, kind)' = Done(t, kind)
  BY Zenon DEF Done
<1> QED BY <1>1, <1>2, Zenon DEF Ins, Del

(* A commit or rollback begins with no row.                                *)
LEMMA NoneDone ==
  ASSUME Base, NEW t \in Txn, NEW kind, at' = [at EXCEPT ![t] = FirstWrite(1)], ops' = ops
  PROVE  Done(t, kind)' = {} /\ ~Halfway(t)'
<1>1. at'[t].op = 1 /\ at'[t].row = 1 /\ at'[t].field = 1
  BY Zenon DEF Base, TypeInv, FirstWrite, WriteAt
<1> QED BY <1>1 DEF Done, Halfway

LEMMA SetsOfNextOperator ==
  ASSUME Base, NEW t \in Txn, NEW kind, NextOperator(t)
  PROVE  Done(t, kind)' = Done(t, kind) /\ ~Halfway(t)'
<1>1. /\ Loop(t) /\ ops[t] \in Seq(OpType) /\ Len(ops[t]) \in Nat /\ at[t].op \in Nat \ {0} /\ at[t].row \in Nat
      /\ at'[t].op = at[t].op + 1 /\ at'[t].row = 1 /\ at'[t].field = 1 /\ ops' = ops
  BY DEF Base, LoopInv, TypeInv, AtType, NextOperator, FirstWrite, WriteAt
<1>2. at[t].op \in 1..Len(ops[t])
  BY <1>1 DEF NextOperator, NoOperatorLeft
<1>3. Len(ops[t][at[t].op].rows) \in Nat
  <2>1. ops[t][at[t].op] \in OpType
    BY <1>1, <1>2
  <2> QED BY <2>1 DEF OpType
<1>4. \A j \in 1..Len(ops[t][at[t].op].rows) : j < at[t].row
  BY <1>1, <1>3 DEF NextOperator, OperatorDone, CurrentOp
<1>5. \A i \in 1..Len(ops[t]) : \A j \in 1..Len(ops[t][i].rows) :
        (i < at[t].op \/ (i = at[t].op /\ j < at[t].row)) <=> (i < at[t].op + 1 \/ (i = at[t].op + 1 /\ j < 1))
  <2>1. SUFFICES ASSUME NEW i \in 1..Len(ops[t]), NEW j \in 1..Len(ops[t][i].rows)
                 PROVE  (i < at[t].op \/ (i = at[t].op /\ j < at[t].row))
                          <=> (i < at[t].op + 1 \/ (i = at[t].op + 1 /\ j < 1))
    BY Zenon
  <2>2. Len(ops[t][i].rows) \in Nat
    <3>1. ops[t][i] \in OpType
      BY <1>1
    <3> QED BY <3>1 DEF OpType
  <2>3. ~(j < 1) /\ (i = at[t].op => j < at[t].row)
    BY <1>4, <2>2
  <2>4. i < at[t].op \/ i = at[t].op <=> i < at[t].op + 1
    BY <1>1
  <2> QED BY <2>3, <2>4, Zenon
<1>6. Done(t, kind)' = Done(t, kind)
  <2>1. ASSUME NEW r \in Row PROVE r \in Done(t, kind)' <=> r \in Done(t, kind)
    <3>1. /\ r \in Done(t, kind)' <=> \E i \in 1..Len(ops[t]) : ops[t][i].kind = kind /\
               \E j \in 1..Len(ops[t][i].rows) : ops[t][i].rows[j] = r
                 /\ (i < at[t].op + 1 \/ (i = at[t].op + 1 /\ j < 1))
          /\ r \in Done(t, kind) <=> \E i \in 1..Len(ops[t]) : ops[t][i].kind = kind /\
               \E j \in 1..Len(ops[t][i].rows) : ops[t][i].rows[j] = r
                 /\ (i < at[t].op \/ (i = at[t].op /\ j < at[t].row))
      BY <1>1, Zenon DEF Done
    <3> QED BY <1>5, <3>1, Zenon
  <2>2. Done(t, kind) \subseteq Row /\ Done(t, kind)' \subseteq Row
    BY Zenon DEF Done
  <2> QED BY <2>1, <2>2, Zenon
<1>7. at'[t].field # 2
  BY <1>1
<1> QED BY <1>6, <1>7, Zenon DEF Halfway

(* A write, and with the last field of a row the row is done.              *)
LEMMA SetsOfWrite ==
  ASSUME Base, NEW t \in Txn, NEW f, NextWrite(t, f), WriteDone(t), ops' = ops
  PROVE  /\ CurrentRow(t) \in RowsOf(t, CurrentOp(t).kind)
         /\ at[t].field < Len(Fields(t)) =>
              /\ \A kind : Done(t, kind)' = Done(t, kind)
              /\ CurrentRow(t)' = CurrentRow(t) /\ CurrentOp(t)' = CurrentOp(t)
              /\ at'[t].field = at[t].field + 1
         /\ at[t].field = Len(Fields(t)) =>
              /\ \A kind : Done(t, kind)' =
                   Done(t, kind) \cup (IF CurrentOp(t).kind = kind THEN {CurrentRow(t)} ELSE {})
              /\ CurrentOp(t)' = CurrentOp(t) /\ at'[t].field = 1 /\ at'[t].row = at[t].row + 1
         /\ at'[t].op = at[t].op
<1>1. /\ at[t] \in AtType /\ at[t].op \in 1..Len(ops[t]) /\ CurrentOp(t) \in OpType
      /\ at[t].row \in 1..Len(CurrentOp(t).rows) /\ CurrentRow(t) \in Row /\ at[t].row \in Nat
  BY WriteFacts, Zenon DEF Base, TypeInv, AtType
<1>2. /\ at[t].field < Len(Fields(t)) => at'[t] = WriteAt(at[t].op, at[t].row, at[t].field + 1)
      /\ ~(at[t].field < Len(Fields(t))) => at'[t] = WriteAt(at[t].op, at[t].row + 1, 1)
  BY Zenon DEF WriteDone, Base, TypeInv
<1>3. CurrentRow(t) \in RowsOf(t, CurrentOp(t).kind)
  BY <1>1, Zenon DEF RowsOf, CurrentRow, CurrentOp
<1>4. ASSUME at[t].field < Len(Fields(t))
      PROVE  /\ \A kind : Done(t, kind)' = Done(t, kind)
             /\ CurrentRow(t)' = CurrentRow(t) /\ CurrentOp(t)' = CurrentOp(t)
             /\ at'[t].field = at[t].field + 1 /\ at'[t].op = at[t].op
  <2>1. at'[t].op = at[t].op /\ at'[t].row = at[t].row /\ at'[t].field = at[t].field + 1
    BY <1>2, <1>4 DEF WriteAt
  <2> QED BY <2>1, Zenon DEF Done, CurrentRow, CurrentOp
<1>5. ASSUME at[t].field = Len(Fields(t))
      PROVE  /\ \A kind : Done(t, kind)' =
                   Done(t, kind) \cup (IF CurrentOp(t).kind = kind THEN {CurrentRow(t)} ELSE {})
             /\ CurrentOp(t)' = CurrentOp(t) /\ at'[t].field = 1 /\ at'[t].op = at[t].op
             /\ at'[t].row = at[t].row + 1
  <2>1. ~(at[t].field < Len(Fields(t)))
    BY <1>1, <1>5 DEF AtType
  <2>2. at'[t].op = at[t].op /\ at'[t].row = at[t].row + 1 /\ at'[t].field = 1
    BY <1>2, <2>1 DEF WriteAt
  <2>3. ASSUME NEW kind, NEW r \in Row
        PROVE  r \in Done(t, kind)' <=> r \in Done(t, kind) \/ (CurrentOp(t).kind = kind /\ r = CurrentRow(t))
    <3>1. /\ r \in Done(t, kind)' <=> \E i \in 1..Len(ops[t]) : ops[t][i].kind = kind /\
               \E j \in 1..Len(ops[t][i].rows) : ops[t][i].rows[j] = r
                 /\ (i < at[t].op \/ (i = at[t].op /\ j < at[t].row + 1))
          /\ r \in Done(t, kind) <=> \E i \in 1..Len(ops[t]) : ops[t][i].kind = kind /\
               \E j \in 1..Len(ops[t][i].rows) : ops[t][i].rows[j] = r
                 /\ (i < at[t].op \/ (i = at[t].op /\ j < at[t].row))
      BY <2>2, Zenon DEF Done
    <3>2. \A i \in 1..Len(ops[t]) : \A j \in 1..Len(ops[t][i].rows) : 
            i = at[t].op => (j < at[t].row + 1 <=> j < at[t].row \/ j = at[t].row)
      <4>1. Len(CurrentOp(t).rows) \in Nat
        BY <1>1 DEF OpType
      <4>2. \A j \in 1..Len(CurrentOp(t).rows) : j < at[t].row + 1 <=> j < at[t].row \/ j = at[t].row
        BY <1>1, <4>1
      <4> QED BY <4>2, Zenon DEF CurrentOp
    <3>3. (CurrentOp(t).kind = kind /\ r = CurrentRow(t)) <=>
             \E i \in 1..Len(ops[t]) : ops[t][i].kind = kind /\
               \E j \in 1..Len(ops[t][i].rows) : ops[t][i].rows[j] = r /\ i = at[t].op /\ j = at[t].row
      BY <1>1, Zenon DEF CurrentOp, CurrentRow
    <3> QED BY <3>1, <3>2, <3>3, Zenon
  <2>4. \A kind : Done(t, kind)' =
                   Done(t, kind) \cup (IF CurrentOp(t).kind = kind THEN {CurrentRow(t)} ELSE {})
    <3>1. \A kind : Done(t, kind) \subseteq Row /\ Done(t, kind)' \subseteq Row
      BY Zenon DEF Done
    <3> QED BY <1>1, <2>3, <3>1, Zenon
  <2> QED BY <2>2, <2>4, Zenon DEF CurrentOp
<1> QED BY <1>2, <1>3, <1>4, <1>5 DEF WriteAt

LEMMA SetsOfRegisters ==
  ASSUME Base, NEW t \in Txn, NEW op \in OpType, Registers(t, op)
  PROVE  /\ \A kind : RowsOf(t, kind)' =
              RowsOf(t, kind) \cup (IF op.kind = kind THEN {op.rows[j] : j \in 1..Len(op.rows)} ELSE {})
         /\ \A kind : Done(t, kind)' = RowsOf(t, kind)
         /\ CurrentOp(t)' = op /\ at'[t].row = 1 /\ ~Halfway(t)'
<1>1. /\ Len(ops[t]) \in Nat /\ Len(ops'[t]) = Len(ops[t]) + 1
      /\ ops'[t][Len(ops[t]) + 1] = op
      /\ \A i \in 1..Len(ops[t]) : ops'[t][i] = ops[t][i]
      /\ at'[t].op = Len(ops[t]) + 1 /\ at'[t].row = 1 /\ at'[t].field = 1
  BY RegisteredOps, Zenon
<1> DEFINE n == Len(ops[t])
<1>2. op.rows \in Seq(Row) /\ \A j \in 1..Len(op.rows) : op.rows[j] \in Row
  BY DEF OpType
<1>3. /\ n \in Nat /\ Len(ops'[t]) = n + 1 /\ ops'[t][n + 1] = op /\ \A i \in 1..n : ops'[t][i] = ops[t][i]
      /\ at'[t].op = n + 1 /\ at'[t].row = 1
  BY <1>1, Zenon
<1>4. \A kind : RowsOf(t, kind) = {r \in Row : \E i \in 1..n : ops[t][i].kind = kind /\
                                    \E j \in 1..Len(ops[t][i].rows) : ops[t][i].rows[j] = r}
  BY Zenon DEF RowsOf
<1> HIDE DEF n
<1>5. 1..(n + 1) = (1..n) \cup {n + 1}
  BY <1>3
<1>6. ASSUME NEW kind, NEW r \in Row
      PROVE  /\ r \in RowsOf(t, kind)' <=>
                  r \in RowsOf(t, kind) \/ (op.kind = kind /\ \E j \in 1..Len(op.rows) : op.rows[j] = r)
             /\ r \in Done(t, kind)' <=> r \in RowsOf(t, kind)
  <2>1. r \in RowsOf(t, kind)' <=> \E i \in 1..(n + 1) : ops'[t][i].kind = kind /\
             \E j \in 1..Len(ops'[t][i].rows) : ops'[t][i].rows[j] = r
    BY <1>3, Zenon DEF RowsOf
  <2>2. r \in RowsOf(t, kind)' <=>
          \/ \E i \in 1..n : ops'[t][i].kind = kind /\ \E j \in 1..Len(ops'[t][i].rows) : ops'[t][i].rows[j] = r
          \/ op.kind = kind /\ \E j \in 1..Len(op.rows) : op.rows[j] = r
    BY <1>3, <1>5, <2>1, Zenon
  <2>3. (\E i \in 1..n : ops'[t][i].kind = kind /\ \E j \in 1..Len(ops'[t][i].rows) : ops'[t][i].rows[j] = r)
          <=> r \in RowsOf(t, kind)
    BY <1>3, <1>4, SMTT(30)
  <2>4. r \in Done(t, kind)' <=> \E i \in 1..(n + 1) : ops'[t][i].kind = kind /\
             \E j \in 1..Len(ops'[t][i].rows) : ops'[t][i].rows[j] = r /\ (i < n + 1 \/ (i = n + 1 /\ j < 1))
    BY <1>3, Zenon DEF Done
  <2>5. \A j \in 1..Len(op.rows) : ~(j < 1)
    BY <1>2
  <2>6. \A i \in 1..n : i < n + 1
    BY <1>3
  <2>7. r \in Done(t, kind)' <=> \E i \in 1..n : ops'[t][i].kind = kind /\
             \E j \in 1..Len(ops'[t][i].rows) : ops'[t][i].rows[j] = r
    <3> DEFINE Has(i) == ops'[t][i].kind = kind /\ \E j \in 1..Len(ops'[t][i].rows) :
                           ops'[t][i].rows[j] = r /\ (i < n + 1 \/ (i = n + 1 /\ j < 1))
    <3>1. ~Has(n + 1)
      BY <1>3, <2>5
    <3>2. \A i \in 1..n : Has(i) <=> ops'[t][i].kind = kind /\ \E j \in 1..Len(ops'[t][i].rows) : ops'[t][i].rows[j] = r
      BY <2>6, Zenon
    <3>3. r \in Done(t, kind)' <=> \E i \in 1..(n + 1) : Has(i)
      BY <2>4, Zenon
    <3> HIDE DEF Has
    <3> QED BY <1>5, <3>1, <3>2, <3>3, Zenon
  <2> QED BY <2>2, <2>3, <2>7, Zenon
<1>7. \A kind : RowsOf(t, kind) \subseteq Row /\ RowsOf(t, kind)' \subseteq Row /\ Done(t, kind)' \subseteq Row
  BY Zenon DEF RowsOf, Done
<1>8. \A kind : RowsOf(t, kind)' =
              RowsOf(t, kind) \cup (IF op.kind = kind THEN {op.rows[j] : j \in 1..Len(op.rows)} ELSE {})
  <2>1. TAKE kind
  <2>2. CASE op.kind = kind
    <3>1. {op.rows[j] : j \in 1..Len(op.rows)} \subseteq Row
      BY <1>2, Zenon
    <3>2. RowsOf(t, kind)' = RowsOf(t, kind) \cup {op.rows[j] : j \in 1..Len(op.rows)}
      BY <1>6, <1>7, <2>2, <3>1, Zenon
    <3> QED BY <2>2, <3>2, Zenon
  <2>3. CASE op.kind # kind
    <3>1. RowsOf(t, kind)' = RowsOf(t, kind)
      BY <1>6, <1>7, <2>3, Zenon
    <3> QED BY <2>3, <3>1, Zenon
  <2> QED BY <2>2, <2>3, Zenon
<1>9. \A kind : Done(t, kind)' = RowsOf(t, kind)
  <2>1. TAKE kind
  <2>2. \A r \in Row : r \in Done(t, kind)' <=> r \in RowsOf(t, kind)
    BY <1>6, Zenon
  <2> QED BY <1>7, <2>2, Zenon
<1>10. CurrentOp(t)' = op
  BY <1>3, Zenon DEF CurrentOp
<1> QED BY <1>1, <1>8, <1>9, <1>10 DEF Halfway

-----------------------------------------------------------------------------
(* Who observes whom.                                                      *)

LEMMA ObservedEnded ==
  ASSUME Base, NEW t \in Txn, NEW u \in Txn, Observes(t, u), t # u
  PROVE  /\ pc[u] \in {"Pending", "Committed"} /\ cid[u] <= snapshot[t] /\ cid[u] \in Nat \ {0}
<1>1. cid[u] # 0 /\ cid[u] <= snapshot[t]
  BY Zenon DEF Observes, Order!HasId, Order!NoId
<1>2. cid[u] \in Nat /\ snapshot[t] \in Nat /\ last_commit_id \in Nat /\ snapshot[t] <= last_commit_id
  BY Zenon DEF Base, TypeInv, OrderInv
<1>3. cid[u] <= last_commit_id
  BY <1>1, <1>2
<1>4. u \in ready
  BY <1>1, <1>3, Zenon DEF Base, OrderInv
<1> QED BY <1>1, <1>2, <1>4, Zenon DEF Base, OrderInv

(* A transaction deletes a row that another inserted only if it observes   *)
(* that one, and then that one has not deleted the row itself.             *)
LEMMA DeleterObserves ==
  ASSUME Base, RowInv, SeenInv, NEW t \in Txn, NEW u \in Txn, NEW r, r \in Del(t), r \in Ins(u)
  PROVE  Observes(t, u) /\ (t # u => r \notin Del(u) /\ pc[u] \in {"Pending", "Committed"})
<1>1. Inserted(t, r) /\ ~DeletedByOther(t, r)
  BY Zenon DEF SeenInv, SeenOf
<1>2. r \in Int /\ InitialRows < r
  <2>1. r \in 1..size
    BY SetFacts, Zenon DEF Ins
  <2> QED BY <2>1 DEF RowInv
<1>3. PICK w \in Txn : Observes(t, w) /\ r \in Ins(w)
  <2>1. ~(r <= InitialRows)
    BY <1>2, MvccAssumption
  <2> QED BY <1>1, <2>1, Zenon DEF Inserted
<1>4. w = u
  BY <1>3, Zenon DEF RowInv
<1>5. t # u => r \notin Del(u)
  BY <1>1, <1>3, <1>4, Zenon DEF DeletedByOther
<1> QED BY <1>3, <1>4, <1>5, ObservedEnded, Zenon

(* Two transactions with commit ids have not deleted the same row.         *)
LEMMA OneDeleter ==
  ASSUME Base, RowInv, SeenInv, LockInv, NEW t \in Txn, NEW u \in Txn, NEW r,
         r \in Del(t), r \in Del(u), pc[t] \in HasCommitId, pc[u] \in HasCommitId
  PROVE  t = u
<1>1. SUFFICES ASSUME t # u PROVE FALSE
  BY Zenon
<1>2. r \notin Ins(t) /\ r \notin Ins(u)
  BY <1>1, DeleterObserves, Zenon
<1>3. tids[r] = t /\ tids[r] = u
  BY <1>2, Zenon DEF LockInv, LockOf
<1> QED BY <1>1, <1>3, Zenon

(* Nobody begins or stops to observe another transaction while it runs.    *)
LEMMA SameObservers ==
  ASSUME Base, Base', NEW t \in Txn, UNCHANGED snapshot,
         \/ UNCHANGED cid
         \/ cid[t] = 0 /\ cid' = [cid EXCEPT ![t] = newest_id + 1]
  PROVE  \A v, w \in Txn : Observes(v, w)' <=> Observes(v, w)
<1>1. SUFFICES ASSUME NEW v \in Txn, NEW w \in Txn PROVE Observes(v, w)' <=> Observes(v, w)
  BY Zenon
<1>2. CASE UNCHANGED cid
  BY <1>2, Zenon DEF Observes, Order!HasId, Order!NoId
<1>3. CASE cid[t] = 0 /\ cid' = [cid EXCEPT ![t] = newest_id + 1]
  <2>1. CASE w # t
    <3>1. cid'[w] = cid[w]
      BY <1>3, <2>1, Zenon DEF Base, TypeInv
    <3> QED BY <3>1, Zenon DEF Observes, Order!HasId, Order!NoId
  <2>2. CASE w = t
    <3>1. /\ cid'[t] = newest_id + 1 /\ snapshot[v] \in Nat /\ newest_id \in Nat /\ last_commit_id \in Nat
          /\ snapshot[v] <= last_commit_id /\ last_commit_id <= newest_id
      BY <1>3 DEF Base, TypeInv, OrderInv
    <3>2. ~(cid'[t] <= snapshot[v])
      BY <3>1
    <3> QED BY <1>3, <2>2, <3>2, Zenon DEF Observes, Order!HasId, Order!NoId
  <2> QED BY <2>1, <2>2, Zenon
<1> QED BY <1>2, <1>3, Zenon

-----------------------------------------------------------------------------
(* What a step does not touch.                                             *)

LEMMA SameOwner ==
  ASSUME NEW t \in Txn, ops'[t] = ops[t], at'[t] = at[t], pc'[t] = pc[t], cid'[t] = cid[t],
         UNCHANGED <<tids, begin_cids, end_cids>>
  PROVE  /\ \A r \in Ins(t) : BeginOf(t, r) => BeginOf(t, r)'
         /\ \A r \in Del(t) : EndOf(t, r) => EndOf(t, r)'
         /\ HalfwayOf(t) => HalfwayOf(t)'
         /\ LockOf(t) => LockOf(t)'
         /\ FreshOf(t) => FreshOf(t)'
<1>1. Ins(t)' = Ins(t) /\ Del(t)' = Del(t) /\ \A kind : Done(t, kind)' = Done(t, kind)
  BY SameSets, Zenon
<1>2. /\ CurrentOp(t)' = CurrentOp(t) /\ CurrentRow(t)' = CurrentRow(t)
      /\ (Halfway(t)' <=> Halfway(t))
  BY Zenon DEF CurrentOp, CurrentRow, Halfway, NoOperatorLeft, OperatorDone
<1>3. \A r \in Ins(t) : BeginOf(t, r) => BeginOf(t, r)'
  BY <1>1, Zenon DEF BeginOf
<1>4. \A r \in Del(t) : EndOf(t, r) => EndOf(t, r)'
  BY <1>1, Zenon DEF EndOf
<1>5. HalfwayOf(t) => HalfwayOf(t)'
  BY <1>2, Zenon DEF HalfwayOf
<1>6. LockOf(t) => LockOf(t)'
  BY <1>1, Zenon DEF LockOf
<1>7. FreshOf(t) => FreshOf(t)'
  BY <1>1, <1>2, Zenon DEF FreshOf
<1> QED BY <1>3, <1>4, <1>5, <1>6, <1>7, Zenon

LEMMA SameSeen ==
  ASSUME NEW t \in Txn, seen'[t] = seen[t], pc'[t] = "NotStarted" => pc[t] = "NotStarted",
         Del(t)' = Del(t), SeenOf(t),
         \A u \in Txn : Observes(t, u)' <=> Observes(t, u),
         \A u \in Txn : Observes(t, u) => Ins(u)' = Ins(u) /\ Del(u)' = Del(u)
  PROVE  SeenOf(t)'
<1>1. \A r : (Inserted(t, r)' <=> Inserted(t, r)) /\ (DeletedByOther(t, r)' <=> DeletedByOther(t, r))
  BY Zenon DEF Inserted, DeletedByOther
<1> QED BY <1>1, Zenon DEF SeenOf

LEMMA SameRead ==
  ASSUME NEW t \in Txn, NEW r, reading'[t] = reading[t], snapshot'[t] = snapshot[t],
         pc'[t] = pc[t], r = reading[t].row, ReadOf(t),
         \A u \in Txn : Observes(t, u)' <=> Observes(t, u),
         Observes(t, t),
         \A u \in Txn : Observes(t, u) => (r \in Del(u)' <=> r \in Del(u)),
         \A u \in Txn : r \in Ins(u)' <=> r \in Ins(u),
         \A u \in Txn : pc[u] \in IsAborted => pc'[u] \in IsAborted,
         \A u \in Txn : r \in Ins(u) /\ pc[u] \in IsAborted /\ end_cids[r] = 0 => end_cids'[r] = 0
  PROVE  ReadOf(t)'
<1>1. (Inserted(t, r)' <=> Inserted(t, r)) /\ (DeletedByOther(t, r)' <=> DeletedByOther(t, r))
  BY Zenon DEF Inserted, DeletedByOther
<1>2. TidRead(t, r) => TidRead(t, r)'
  BY Zenon DEF TidRead
<1>3. BeginRead(t, r) => BeginRead(t, r)'
  BY Zenon DEF BeginRead
<1>4. EndRead(t, r) => EndRead(t, r)'
  BY <1>1, Zenon DEF EndRead
<1> QED BY <1>2, <1>3, <1>4, Zenon DEF ReadOf

-----------------------------------------------------------------------------

(* Validate.                                                               *)

LEMMA ReadOfStart ==
  ASSUME Base, Versions, NEW t \in Txn, NEW r \in Row, StartReading(t, r)
  PROVE  ReadOf(t)'
<1>1. /\ pc[t] = "Active" /\ ops' = ops /\ at' = at /\ UNCHANGED tids
      /\ reading'[t] = Loaded(r, tids[r], -1, -1)
  BY Zenon DEF StartReading, Goto, workVars, rowVars, Base, TypeInv
<1>2. Ins(t)' = Ins(t) /\ Del(t)' = Del(t) /\ \A kind : Done(t, kind) = RowsOf(t, kind)
  BY <1>1, SameSets, SetFacts, Zenon
<1>3. /\ reading'[t].row = r /\ reading'[t].tid = tids[r]
      /\ reading'[t].begin = -1 /\ reading'[t].end = -1
  BY <1>1 DEF Loaded
<1>4. LockOf(t) /\ Ins(t) = Done(t, "Insert") /\ Del(t) = Done(t, "Delete") /\ pc[t] \in Running
  BY <1>1, <1>2, Zenon DEF Versions, LockInv, Ins, Del, Running
<1>5. TidRead(t, r)'
  BY <1>2, <1>3, <1>4, Zenon DEF TidRead, LockOf
<1> QED BY <1>3, <1>5, Zenon DEF ReadOf

LEMMA ReadOfBegin ==
  ASSUME Base, Base', Versions, loads_in_order, NEW t \in Txn, ReadBegin(t)
  PROVE  ReadOf(t)'
<1>0. PICK r : r = reading[t].row
  BY Zenon
<1>1. /\ pc[t] = "Reading" /\ UNCHANGED <<pc, ops, at, end_cids, snapshot, cid>> /\ reading[t].begin = -1
      /\ reading'[t] = Loaded(r, reading[t].tid, begin_cids[r], reading[t].end)
  BY <1>0, Zenon DEF ReadBegin, workVars, rowVars, orderVars, Base, TypeInv
<1>2. ReadOf(t) /\ r \in 1..size /\ r \in Row
  BY <1>0, <1>1, MvccAssumption, SMTT(30) DEF Versions, ReadInv, Base, LoopInv, Loop, TypeInv, Row
<1>3. \A u \in Txn : Ins(u)' = Ins(u) /\ Del(u)' = Del(u) /\ (Observes(t, u)' <=> Observes(t, u))
  BY <1>1, SameSets, Zenon DEF Observes, Order!HasId, Order!NoId
<1>4. /\ reading'[t].row = r /\ reading'[t].tid = reading[t].tid
      /\ reading'[t].begin = begin_cids[r] /\ reading'[t].end = reading[t].end
  BY <1>1 DEF Loaded
<1>5. reading[t].end = -1 /\ TidRead(t, r)
  BY <1>0, <1>1, <1>2, Zenon DEF ReadOf
<1>6. TidRead(t, r)'
  BY <1>3, <1>4, <1>5, Zenon DEF TidRead
<1>7. snapshot[t] \in Nat /\ snapshot[t] < MAX_COMMIT_ID /\ MAX_COMMIT_ID \in Nat
  BY MvccAssumption, SMTT(30) DEF Base, TypeInv, OrderInv
<1>8. BeginRead(t, r)'
  <2>1. r <= InitialRows => begin_cids[r] <= snapshot[t]
    BY <1>2, <1>7, MvccAssumption DEF Versions, FieldInv, InitialInv, Base, TypeInv
  <2>2. r \in Ins(t) => snapshot[t] < begin_cids[r]
    BY <1>1, <1>7, Zenon DEF Versions, FieldInv, BeginOf, Running
  <2>3. ASSUME NEW u \in Txn, u # t, r \in Ins(u), Observes(t, u) PROVE begin_cids[r] <= snapshot[t]
    BY <2>3, ObservedEnded, Zenon DEF Versions, FieldInv, BeginOf
  <2>4. ASSUME NEW u \in Txn, u # t, r \in Ins(u), ~Observes(t, u)
        PROVE  snapshot[t] < begin_cids[r] \/ (pc[u] \in IsAborted /\ end_cids[r] = 0)
    <3>1. BeginOf(u, r) /\ cid[u] \in Nat /\ pc[u] \in Pc /\ pc[u] # "NotStarted"
      BY <2>4, SetFacts, Zenon DEF Versions, FieldInv, Base, TypeInv, Ins
    <3>2. cid[u] # 0 => snapshot[t] < cid[u]
      BY <1>7, <2>4, <3>1 DEF Observes, Order!HasId, Order!NoId
    <3>3. pc[u] \in HasCommitId => snapshot[t] < cid[u]
      BY <3>2, Zenon DEF Base, OrderInv
    <3> QED BY <1>7, <3>1, <3>3, Zenon DEF BeginOf, Pc, HasCommitId
  <2> QED BY <1>1, <1>3, <1>4, <1>5, <2>1, <2>2, <2>3, <2>4, Zenon DEF BeginRead
<1>9. begin_cids[r] # -1
  BY <1>2 DEF Base, TypeInv
<1> QED BY <1>4, <1>5, <1>6, <1>8, <1>9, Zenon DEF ReadOf

LEMMA ReadOfEnd ==
  ASSUME Base, Base', Versions, loads_in_order, NEW t \in Txn, ReadEnd(t)
  PROVE  ReadOf(t)'
<1>0. PICK r : r = reading[t].row
  BY Zenon
<1>1. /\ pc[t] = "Reading" /\ UNCHANGED <<pc, ops, at, end_cids, snapshot, cid>> /\ reading[t].begin # -1
      /\ reading'[t] = Loaded(r, reading[t].tid, reading[t].begin, end_cids[r])
  BY <1>0, Zenon DEF ReadEnd, workVars, rowVars, orderVars, Base, TypeInv
<1>2. ReadOf(t) /\ r \in 1..size /\ r \in Row
  BY <1>0, <1>1, MvccAssumption DEF Versions, ReadInv, Base, LoopInv, Loop, TypeInv, Row
<1>3. \A u \in Txn : Ins(u)' = Ins(u) /\ Del(u)' = Del(u) /\ (Observes(t, u)' <=> Observes(t, u))
  BY <1>1, SameSets, Zenon DEF Observes, Order!HasId, Order!NoId
<1>4. /\ reading'[t].row = r /\ reading'[t].tid = reading[t].tid
      /\ reading'[t].begin = reading[t].begin /\ reading'[t].end = end_cids[r]
  BY <1>1 DEF Loaded
<1>5. BeginRead(t, r) /\ TidRead(t, r)
  BY <1>0, <1>1, <1>2, Zenon DEF ReadOf
<1>6. TidRead(t, r)'
  BY <1>3, <1>4, <1>5, Zenon DEF TidRead
<1>7. BeginRead(t, r)'
  BY <1>1, <1>3, <1>4, <1>5, Zenon DEF BeginRead
<1>8. snapshot[t] \in Nat /\ snapshot[t] < MAX_COMMIT_ID /\ MAX_COMMIT_ID \in Nat
  BY MvccAssumption DEF Base, TypeInv, OrderInv
<1>9. DeletedByOther(t, r) => end_cids[r] <= snapshot[t]
  <2>1. SUFFICES ASSUME NEW u \in Txn, u # t, Observes(t, u), r \in Del(u) PROVE end_cids[r] <= snapshot[t]
    BY Zenon DEF DeletedByOther
  <2> QED BY <2>1, ObservedEnded, Zenon DEF Versions, FieldInv, EndOf
<1>10. Inserted(t, r) /\ ~DeletedByOther(t, r) => snapshot[t] < end_cids[r]
  <2>1. SUFFICES ASSUME Inserted(t, r), ~DeletedByOther(t, r) PROVE snapshot[t] < end_cids[r]
    BY Zenon
  <2>2. CauseOf(r)
    BY <1>2, Zenon DEF Versions, FieldInv
  <2>3. ASSUME NEW u \in Txn, cid[u] # 0, r \in Del(u), end_cids[r] = cid[u] PROVE snapshot[t] < end_cids[r]
    <3>1. u # t
      BY <1>1, <2>3, Zenon DEF Base, OrderInv, HasCommitId
    <3>2. ~Observes(t, u)
      BY <2>1, <2>3, <3>1, Zenon DEF DeletedByOther
    <3>3. cid[u] \in Nat
      BY Zenon DEF Base, TypeInv
    <3> QED BY <1>8, <2>3, <3>2, <3>3 DEF Observes, Order!HasId, Order!NoId
  <2>4. ASSUME NEW u \in Txn, r \in Ins(u), pc[u] \in IsAborted PROVE FALSE
    <3>1. ~(r <= InitialRows)
      BY <1>2, <2>4, MvccAssumption DEF Versions, RowInv, Row
    <3>2. PICK w \in Txn : Observes(t, w) /\ r \in Ins(w)
      BY <2>1, <3>1, Zenon DEF Inserted
    <3>3. w = u
      BY <2>4, <3>2, Zenon DEF Versions, RowInv
    <3>4. CASE u = t
      BY <1>1, <2>4, <3>4, Zenon DEF IsAborted
    <3>5. CASE u # t
      BY <2>4, <3>2, <3>3, <3>5, ObservedEnded, Zenon DEF IsAborted
    <3> QED BY <3>4, <3>5, Zenon
  <2> QED BY <1>8, <2>2, <2>3, <2>4, Zenon DEF CauseOf
<1>11. EndRead(t, r)'
  <2>1. (Inserted(t, r)' <=> Inserted(t, r)) /\ (DeletedByOther(t, r)' <=> DeletedByOther(t, r))
    BY <1>3, Zenon DEF Inserted, DeletedByOther
  <2> QED BY <1>1, <1>4, <1>9, <1>10, <2>1, Zenon DEF EndRead
<1> QED BY <1>1, <1>4, <1>6, <1>7, <1>11, Zenon DEF ReadOf

(* A row passes when the fields that were loaded say that it is in the     *)
(* snapshot, and they do so when it is.                                    *)
LEMMA SnapshotParts ==
  ASSUME NEW t \in Txn, NEW r
  PROVE  InSnapshot(t, r) <=> Inserted(t, r) /\ ~DeletedByOther(t, r) /\ r \notin Del(t)
BY Zenon DEF InSnapshot, Inserted, DeletedByOther, Ins, Del, Observes

LEMMA VisibleIsInSnapshot ==
  ASSUME Base, Versions, NEW t \in Txn,
         pc[t] = "Reading", reading[t].begin # -1, reading[t].end # -1
  PROVE  is_row_visible(t, snapshot[t], reading[t]) <=> InSnapshot(t, reading[t].row)
<1>0. PICK r : r = reading[t].row
  BY Zenon
<1>1. /\ r \in 1..size /\ TidRead(t, r) /\ BeginRead(t, r) /\ EndRead(t, r)
  BY <1>0, Zenon DEF Base, LoopInv, Loop, Versions, ReadInv, ReadOf
<1>2. /\ snapshot[t] \in Nat /\ reading[t].begin \in Int /\ reading[t].end \in Int /\ r \in Int
      /\ InitialRows \in Nat
  BY <1>1, MvccAssumption DEF Base, TypeInv, ReadType
<1>3. SUFFICES (snapshot[t] < reading[t].end /\ ((snapshot[t] >= reading[t].begin) # (reading[t].tid = t)))
               <=> (Inserted(t, r) /\ ~DeletedByOther(t, r) /\ r \notin Del(t))
  BY <1>0, SnapshotParts, Zenon DEF is_row_visible
<1>4. Observes(t, t)
  BY Zenon DEF Observes
<1>5. SeenOf(t)
  BY Zenon DEF Versions, SeenInv
<1>6. CASE r \in Ins(t)
  <2>1. Inserted(t, r)
    BY <1>4, <1>6, Zenon DEF Inserted
  <2>2. ~DeletedByOther(t, r)
    <3>1. SUFFICES ASSUME NEW u \in Txn, u # t, r \in Del(u) PROVE FALSE
      BY Zenon DEF DeletedByOther
    <3> QED BY <1>6, <3>1, DeleterObserves, Zenon DEF Versions
  <2>3. snapshot[t] < reading[t].end /\ snapshot[t] < reading[t].begin
    BY <1>1, <1>6, <2>1, <2>2, Zenon DEF EndRead, BeginRead
  <2>4. ~(snapshot[t] >= reading[t].begin)
    BY <1>2, <2>3
  <2>5. reading[t].tid = t <=> r \notin Del(t)
    BY <1>1, <1>6, Zenon DEF TidRead
  <2> QED BY <2>1, <2>2, <2>3, <2>4, <2>5
<1>7. ASSUME Inserted(t, r), r \notin Ins(t) PROVE snapshot[t] >= reading[t].begin
  <2>1. CASE r <= InitialRows
    BY <1>1, <1>2, <2>1, Zenon DEF BeginRead
  <2>2. CASE ~(r <= InitialRows)
    <3>1. PICK u \in Txn : Observes(t, u) /\ r \in Ins(u)
      BY <1>7, <2>2, Zenon DEF Inserted
    <3>2. u # t
      BY <1>7, <3>1, Zenon
    <3> QED BY <1>1, <1>2, <3>1, <3>2, Zenon DEF BeginRead
  <2> QED BY <2>1, <2>2, Zenon
<1>8. CASE r \notin Ins(t) /\ r \in Del(t)
  <2>1. reading[t].tid = t
    BY <1>1, <1>8, Zenon DEF TidRead
  <2>2. Inserted(t, r)
    BY <1>5, <1>8, Zenon DEF SeenOf
  <2>3. snapshot[t] >= reading[t].begin
    BY <1>7, <1>8, <2>2, Zenon
  <2> QED BY <1>8, <2>1, <2>3, Zenon
<1>9. CASE r \notin Ins(t) /\ r \notin Del(t)
  <2>1. reading[t].tid # t
    BY <1>1, <1>9, Zenon DEF TidRead
  <2>2. CASE Inserted(t, r)
    <3>1. snapshot[t] >= reading[t].begin
      BY <1>7, <1>9, <2>2, Zenon
    <3>2. snapshot[t] < reading[t].end <=> ~DeletedByOther(t, r)
      BY <1>1, <1>2, <2>2 DEF EndRead
    <3> QED BY <1>9, <2>1, <2>2, <3>1, <3>2, Zenon
  <2>3. CASE ~Inserted(t, r)
    <3>1. InitialRows < r
      BY <1>2, <2>3 DEF Inserted
    <3>2. PICK u \in Txn : r \in Ins(u)
      BY <1>1, <3>1, Zenon DEF Versions, RowInv
    <3>3. u # t /\ ~Observes(t, u)
      BY <1>9, <2>3, <3>2, Zenon DEF Inserted
    <3>4. snapshot[t] < reading[t].begin \/ reading[t].end = 0
      BY <1>1, <3>2, <3>3, Zenon DEF BeginRead
    <3>5. ~(snapshot[t] >= reading[t].begin) \/ ~(snapshot[t] < reading[t].end)
      BY <1>2, <3>4
    <3> QED BY <2>1, <2>3, <3>5
  <2> QED BY <2>2, <2>3, Zenon
<1> QED BY <1>6, <1>8, <1>9, Zenon

LEMMA SeenOfRowRead ==
  ASSUME Base, Base', Versions, NEW t \in Txn, RowRead(t)
  PROVE  SeenOf(t)'
<1>0. PICK r : r = reading[t].row
  BY Zenon
<1>1. /\ pc[t] = "Reading" /\ pc'[t] = "Active" /\ UNCHANGED <<ops, at, snapshot, cid>>
      /\ reading[t].begin # -1 /\ reading[t].end # -1
      /\ seen'[t] = IF is_row_visible(t, snapshot[t], reading[t]) THEN seen[t] \cup {r} ELSE seen[t] \ {r}
  BY <1>0, Zenon DEF RowRead, Goto, workVars, orderVars, Base, TypeInv
<1>2. is_row_visible(t, snapshot[t], reading[t]) => Inserted(t, r) /\ ~DeletedByOther(t, r) /\ r \notin Del(t)
  BY <1>0, <1>1, VisibleIsInSnapshot, SnapshotParts, Zenon
<1>3. \A u \in Txn : Ins(u)' = Ins(u) /\ Del(u)' = Del(u) /\ (Observes(t, u)' <=> Observes(t, u))
  BY <1>1, SameSets, Zenon DEF Observes, Order!HasId, Order!NoId
<1>4. \A q : (Inserted(t, q)' <=> Inserted(t, q)) /\ (DeletedByOther(t, q)' <=> DeletedByOther(t, q))
  BY <1>3, Zenon DEF Inserted, DeletedByOther
<1>5. SeenOf(t)
  BY Zenon DEF Versions, SeenInv
<1> QED BY <1>1, <1>2, <1>3, <1>4, <1>5, Zenon DEF SeenOf

(* The steps that only read or take a transaction to its next phase.       *)
LEMMA VersionsOfPhases ==
  ASSUME Base, Base', Versions, loads_in_order, NEW t \in Txn, UNCHANGED rowVars,
         Begin(t) \/ (\E r \in Row : StartReading(t, r)) \/ ReadBegin(t) \/ ReadEnd(t)
           \/ RowRead(t) \/ Executed(t) \/ LockFails(t)
  PROVE  Versions'
<1>1. /\ at' = at /\ ops' = ops /\ size' = size /\ UNCHANGED orderVars /\ cid' = cid
      /\ UNCHANGED <<tids, begin_cids, end_cids>>
  BY Zenon DEF Begin, StartReading, ReadBegin, ReadEnd, RowRead, Executed, LockFails, workVars, rowVars, orderVars
<1>2. \A u \in Txn \ {t} : pc'[u] = pc[u] /\ snapshot'[u] = snapshot[u] /\ seen'[u] = seen[u] /\ reading'[u] = reading[u]
  BY ZenonT(40) DEF Base, TypeInv, Begin, StartReading, ReadBegin, ReadEnd, RowRead, Executed, LockFails, Goto, readVars
<1>3. \/ pc'[t] = pc[t] /\ pc[t] = "Reading"
      \/ pc[t] = "NotStarted" /\ pc'[t] = "Active"
      \/ pc[t] = "Active" /\ pc'[t] = "Reading"
      \/ pc[t] = "Reading" /\ pc'[t] = "Active"
      \/ pc[t] = "Executing" /\ pc'[t] = "Active"
      \/ pc[t] = "Executing" /\ pc'[t] = "Failed"
  BY Zenon DEF Base, TypeInv, Begin, StartReading, ReadBegin, ReadEnd, RowRead, Executed, LockFails, Goto
<1>4. \A u \in Txn : Ins(u)' = Ins(u) /\ Del(u)' = Del(u) /\ \A kind : Done(u, kind)' = Done(u, kind)
  BY <1>1, SameSets, Zenon
<1>5. \A u \in Txn \ {t} : \A w \in Txn : Observes(u, w)' <=> Observes(u, w)
  BY <1>1, <1>2, Zenon DEF Observes, Order!HasId, Order!NoId
<1>6. pc[t] = "NotStarted" => Ins(t) = {} /\ Del(t) = {}
  BY SetFacts, Zenon DEF Ins, Del
<1>7. RowInv'
  BY <1>1, <1>4 DEF Versions, RowInv, rowVars
<1>8. FieldInv'
  <2>1. FieldInv
    BY Zenon DEF Versions
  <2>2. InitialInv'
    BY <2>1, Zenon DEF FieldInv, InitialInv, rowVars
  <2>3. \A u \in Txn \ {t} : /\ \A r \in Ins(u)' : BeginOf(u, r)'
                             /\ \A r \in Del(u)' : EndOf(u, r)'
                             /\ HalfwayOf(u)'
    BY <1>1, <1>2, <1>4, <2>1, SameOwner, Zenon DEF FieldInv
  <2>4. \A r \in Ins(t)' : BeginOf(t, r)'
    BY <1>3, <1>4, <1>6, <2>1, Zenon DEF FieldInv, BeginOf, Running, IsAborted, rowVars
  <2>5. \A r \in Del(t)' : EndOf(t, r)'
    BY <1>3, Zenon DEF EndOf
  <2>6. HalfwayOf(t)'
    BY <1>3, Zenon DEF HalfwayOf
  <2>7. \A r \in Row : CauseOf(r)'
    <3>1. \A u \in Txn : pc[u] \in IsAborted => pc'[u] \in IsAborted
      BY <1>2, <1>3, Zenon DEF IsAborted
    <3> QED BY <1>1, <1>4, <2>1, <3>1 DEF FieldInv, CauseOf, rowVars
  <2> QED BY <2>2, <2>3, <2>4, <2>5, <2>6, <2>7, Zenon DEF FieldInv
<1>9. LockInv'
  <2>1. \A u \in Txn : LockOf(u)
    BY Zenon DEF Versions, LockInv
  <2>2. \A u \in Txn \ {t} : LockOf(u)'
    BY <1>1, <1>2, <2>1, SameOwner, Zenon
  <2>3. LockOf(t)'
    <3>1. Done(t, "Delete") \subseteq Del(t) /\ Done(t, "Insert") \subseteq Ins(t)
      BY SetFacts, Zenon DEF Ins, Del
    <3> QED BY <1>3, <1>4, <1>6, <2>1, <3>1 DEF LockOf, Running, HasCommitId, rowVars
  <2> QED BY <2>2, <2>3, Zenon DEF LockInv
<1>10. FreshInv'
  <2>1. \A u \in Txn \ {t} : FreshOf(u)'
    BY <1>1, <1>2, SameOwner, Zenon DEF Versions, FreshInv
  <2>2. FreshOf(t)'
    BY <1>3, Zenon DEF FreshOf
  <2> QED BY <2>1, <2>2, Zenon DEF FreshInv
<1>11. SeenInv'
  <2>1. \A u \in Txn : SeenOf(u)
    BY Zenon DEF Versions, SeenInv
  <2>2. \A u \in Txn \ {t} : SeenOf(u)'
    BY <1>2, <1>4, <1>5, <2>1, SameSeen, Zenon
  <2>3. SeenOf(t)'
    <3>1. CASE Begin(t)
      <4>1. pc[t] = "NotStarted" /\ pc'[t] = "Active" /\ seen'[t] = seen[t]
        BY <3>1, Zenon DEF Begin, Goto, Base, TypeInv, readVars
      <4>2. seen'[t] = {} /\ Del(t)' = {}
        BY <1>4, <1>6, <2>1, <4>1, Zenon DEF SeenOf
      <4> QED BY <4>1, <4>2, Zenon DEF SeenOf
    <3>2. CASE RowRead(t)
      BY <3>2, SeenOfRowRead, Zenon
    <3>3. CASE (\E r \in Row : StartReading(t, r)) \/ ReadBegin(t) \/ ReadEnd(t) \/ Executed(t) \/ LockFails(t)
      <4>1. seen'[t] = seen[t] /\ snapshot' = snapshot
        BY <3>3, Zenon DEF StartReading, ReadBegin, ReadEnd, Executed, LockFails, readVars
      <4>2. \A w \in Txn : Observes(t, w)' <=> Observes(t, w)
        BY <1>1, <4>1, Zenon DEF Observes, Order!HasId, Order!NoId
      <4>3. pc'[t] # "NotStarted"
        BY <1>3, Zenon
      <4> QED BY <1>4, <2>1, <4>1, <4>2, <4>3, SameSeen, Zenon
    <3> QED BY <3>1, <3>2, <3>3, Zenon
  <2> QED BY <2>2, <2>3, Zenon DEF SeenInv
<1>12. ReadInv'
  <2>1. \A u \in Txn : ReadOf(u)
    BY Zenon DEF Versions, ReadInv
  <2>2. ASSUME NEW u \in Txn \ {t} PROVE ReadOf(u)'
    <3>1. \A w \in Txn : pc[w] \in IsAborted => pc'[w] \in IsAborted
      BY <1>2, <1>3, Zenon DEF IsAborted
    <3>2. UNCHANGED end_cids /\ Observes(u, u)
      BY Zenon DEF rowVars, Observes
    <3> QED BY <1>2, <1>4, <1>5, <2>1, <3>1, <3>2, SameRead, Zenon
  <2>3. ReadOf(t)'
    <3>1. CASE \E r \in Row : StartReading(t, r)
      BY <3>1, ReadOfStart, Zenon
    <3>2. CASE ReadBegin(t)
      BY <3>2, ReadOfBegin, Zenon
    <3>3. CASE ReadEnd(t)
      BY <3>3, ReadOfEnd, Zenon
    <3>4. CASE Begin(t) \/ RowRead(t) \/ Executed(t) \/ LockFails(t)
      <4>1. pc'[t] # "Reading"
        BY <3>4, Zenon DEF Begin, RowRead, Executed, LockFails, Goto, Base, TypeInv
      <4> QED BY <4>1, Zenon DEF ReadOf
    <3> QED BY <3>1, <3>2, <3>3, <3>4, Zenon
  <2> QED BY <2>2, <2>3, Zenon DEF ReadInv
<1> QED BY <1>7, <1>8, <1>9, <1>10, <1>11, <1>12, Zenon DEF Versions

-----------------------------------------------------------------------------
(* Commit and rollback, up to their writes.                                *)

(* What such a step does to the transaction that takes it.                 *)
OwnStep(t) ==
  /\ \A r \in Ins(t) : BeginOf(t, r)'
  /\ \A r \in Del(t) : EndOf(t, r)'
  /\ HalfwayOf(t)' /\ LockOf(t)' /\ FreshOf(t)'
  /\ pc'[t] \notin {"NotStarted", "Reading"}
  /\ pc[t] \in IsAborted => pc'[t] \in IsAborted

LEMMA VersionsOfOwnStep ==
  ASSUME Base, Base', Versions, NEW t \in Txn, UNCHANGED <<rowVars, snapshot, ops, seen, reading>>,
         \A u \in Txn \ {t} : pc'[u] = pc[u] /\ at'[u] = at[u],
         UNCHANGED cid \/ (cid[t] = 0 /\ cid' = [cid EXCEPT ![t] = newest_id + 1]),
         OwnStep(t)
  PROVE  Versions'
<1>0. UNCHANGED <<tids, begin_cids, end_cids>>
  BY Zenon DEF rowVars
<1>1. \A u \in Txn : Ins(u)' = Ins(u) /\ Del(u)' = Del(u)
  BY SameSets, Zenon
<1>2. \A v, w \in Txn : Observes(v, w)' <=> Observes(v, w)
  BY SameObservers, Zenon
<1>3. \A u \in Txn \ {t} : cid'[u] = cid[u]
  BY Zenon DEF Base, TypeInv
<1>4. \A u \in Txn : cid[u] # 0 => cid'[u] = cid[u]
  BY <1>3, Zenon DEF Base, TypeInv
<1>5. \A u \in Txn : pc[u] \in IsAborted => pc'[u] \in IsAborted
  BY Zenon DEF OwnStep
<1>6. RowInv'
  BY <1>1 DEF Versions, RowInv, rowVars
<1>7. FieldInv'
  <2>1. FieldInv
    BY Zenon DEF Versions
  <2>2. InitialInv'
    BY <2>1, Zenon DEF FieldInv, InitialInv, rowVars
  <2>3. \A u \in Txn \ {t} : /\ \A r \in Ins(u)' : BeginOf(u, r)'
                             /\ \A r \in Del(u)' : EndOf(u, r)'
                             /\ HalfwayOf(u)'
    BY <1>0, <1>1, <1>3, <2>1, SameOwner, Zenon DEF FieldInv
  <2>4. \A r \in Row : CauseOf(r)'
    BY <1>1, <1>4, <1>5, <2>1 DEF FieldInv, CauseOf, rowVars
  <2> QED BY <1>1, <2>2, <2>3, <2>4, Zenon DEF FieldInv, OwnStep
<1>8. LockInv' /\ FreshInv'
  <2>1. \A u \in Txn \ {t} : LockOf(u)' /\ FreshOf(u)'
    BY <1>0, <1>3, SameOwner, Zenon DEF Versions, LockInv, FreshInv
  <2> QED BY <2>1, Zenon DEF LockInv, FreshInv, OwnStep
<1>9. SeenInv'
  <2>1. \A u \in Txn : pc'[u] = "NotStarted" => pc[u] = "NotStarted"
    BY Zenon DEF OwnStep
  <2>2. ASSUME NEW u \in Txn PROVE SeenOf(u)'
    BY <1>1, <1>2, <2>1, SameSeen, Zenon DEF Versions, SeenInv
  <2> QED BY <2>2, Zenon DEF SeenInv
<1>10. ReadInv'
  <2>1. ASSUME NEW u \in Txn \ {t} PROVE ReadOf(u)'
    <3>1. UNCHANGED end_cids /\ Observes(u, u) /\ ReadOf(u)
      BY Zenon DEF rowVars, Observes, Versions, ReadInv
    <3> QED BY <1>1, <1>2, <1>5, <3>1, SameRead, Zenon
  <2>2. ReadOf(t)'
    BY Zenon DEF OwnStep, ReadOf
  <2> QED BY <2>1, <2>2, Zenon DEF ReadInv
<1> QED BY <1>6, <1>7, <1>8, <1>9, <1>10, Zenon DEF Versions

LEMMA VersionsOfEnds ==
  ASSUME Base, Base', Versions, NEW t \in Txn,
         PrepareCommit(t) \/ MakePending(t) \/ Advance(t) \/ Committed(t) \/ Abort(t) \/ RolledBack(t)
           \/ NextOperator(t) \/ UnlockStops(t)
  PROVE  Versions'
<1>1. UNCHANGED <<rowVars, snapshot, ops, seen, reading>> /\ UNCHANGED <<tids, begin_cids, end_cids>>
  BY Zenon DEF PrepareCommit, MakePending, Advance, Committed, Abort, RolledBack, NextOperator, UnlockStops,
     workVars, readVars, rowVars
<1>2. \A u \in Txn \ {t} : pc'[u] = pc[u] /\ at'[u] = at[u]
  BY ZenonT(40) DEF PrepareCommit, MakePending, Advance, Committed, Abort, RolledBack, NextOperator, UnlockStops,
     workVars, Goto, Base, TypeInv
<1>3. UNCHANGED cid \/ (cid[t] = 0 /\ cid' = [cid EXCEPT ![t] = newest_id + 1])
  BY Zenon DEF PrepareCommit, MakePending, Advance, Committed, Abort, RolledBack, NextOperator, UnlockStops,
     orderVars, Order!AssignId, Order!MakeReady, Order!Advance, Order!Notify, Order!HasId, Order!NoId
<1>4. /\ Ins(t)' = Ins(t) /\ Del(t)' = Del(t)
      /\ Done(t, "Delete") \subseteq Del(t) /\ Done(t, "Insert") \subseteq Ins(t)
      /\ at'[t] = at[t] => /\ Done(t, "Insert")' = Done(t, "Insert")
                            /\ Done(t, "Delete")' = Done(t, "Delete")
  BY <1>1, SameSets, SetFacts, Zenon DEF Ins, Del
<1>5. /\ \A r \in Ins(t) : BeginOf(t, r)
      /\ \A r \in Del(t) : EndOf(t, r)
      /\ HalfwayOf(t) /\ LockOf(t) /\ FreshOf(t)
  BY Zenon DEF Versions, FieldInv, LockInv, FreshInv
<1>6. OwnStep(t)
  <2>1. CASE PrepareCommit(t)
    <3>1. /\ pc[t] = "Active" /\ pc'[t] = "Committing"
          /\ at' = [at EXCEPT ![t] = FirstWrite(1)]
      BY <2>1, Zenon DEF PrepareCommit, Goto, Base, TypeInv
    <3>6. /\ Done(t, "Insert") = Ins(t) /\ Done(t, "Delete") = Del(t)
          /\ Done(t, "Insert")' = {} /\ Done(t, "Delete")' = {} /\ ~Halfway(t)'
      BY <1>1, <3>1, NoneDone, SetFacts, Zenon DEF Ins, Del
    <3>2. \A r \in Ins(t) : BeginOf(t, r)'
      BY <1>1, <1>5, <3>1, <3>6, Zenon DEF BeginOf, Running, IsAborted
    <3>3. \A r \in Del(t) : EndOf(t, r)'
      BY <3>1, <3>6, Zenon DEF EndOf
    <3>4. HalfwayOf(t)' /\ FreshOf(t)'
      BY <3>1, <3>6, Zenon DEF HalfwayOf, FreshOf
    <3>5. LockOf(t)'
      BY <1>1, <1>4, <1>5, <3>1, <3>6, Zenon DEF LockOf, Running, HasCommitId
    <3> QED BY <3>1, <3>2, <3>3, <3>4, <3>5, Zenon DEF OwnStep, IsAborted
  <2>2. CASE Abort(t)
    <3>1. /\ pc[t] \in {"Active", "Failed"} /\ pc'[t] = "Aborted" /\ ~Halfway(t)'
      BY <1>1, <2>2, NoneDone, Zenon DEF Abort, Base, TypeInv
    <3>2. \A r \in Ins(t) : BeginOf(t, r)'
      BY <1>1, <1>5, <3>1, Zenon DEF BeginOf, Running, IsAborted
    <3>3. \A r \in Del(t) : EndOf(t, r)'
      BY <3>1, Zenon DEF EndOf
    <3>4. HalfwayOf(t)' /\ FreshOf(t)'
      BY <3>1, Zenon DEF HalfwayOf, FreshOf
    <3>5. LockOf(t)'
      BY <1>1, <1>4, <1>5, <3>1, Zenon DEF LockOf, Running, HasCommitId
    <3> QED BY <3>1, <3>2, <3>3, <3>4, <3>5, Zenon DEF OwnStep, IsAborted
  <2>3. CASE MakePending(t)
    <3>1. /\ pc[t] = "Committing" /\ pc'[t] = "Pending" /\ cid' = cid
          /\ NoOperatorLeft(t)
      BY <2>3, Zenon DEF MakePending, Goto, Base, TypeInv, Order!MakeReady
    <3>6. Done(t, "Insert") = Ins(t) /\ Done(t, "Delete") = Del(t)
      BY <3>1, SetFacts, Zenon DEF Ins, Del
    <3>2. \A r \in Ins(t) : BeginOf(t, r)'
      BY <1>1, <1>5, <3>1, <3>6, Zenon DEF BeginOf, Running, IsAborted
    <3>3. \A r \in Del(t) : EndOf(t, r)'
      BY <1>1, <1>5, <3>1, <3>6, Zenon DEF EndOf
    <3>4. HalfwayOf(t)' /\ FreshOf(t)'
      BY <3>1, Zenon DEF HalfwayOf, FreshOf
    <3>5. LockOf(t)'
      BY <1>1, <1>4, <1>5, <3>1, Zenon DEF LockOf, Running, HasCommitId
    <3> QED BY <3>1, <3>2, <3>3, <3>4, <3>5, Zenon DEF OwnStep, IsAborted
  <2>4. CASE Committed(t) \/ RolledBack(t) \/ Advance(t)
    <3>1. /\ cid' = cid /\ at' = at
          /\ \/ pc[t] = "Pending" /\ pc'[t] = "Committed"
             \/ pc[t] = "Aborted" /\ pc'[t] = "RolledBack"
             \/ pc[t] \in {"Pending", "Committed"} /\ pc'[t] = pc[t]
      BY <2>4, Zenon DEF Committed, RolledBack, Advance, Goto, Base, TypeInv, OrderInv, Order!Notify, Order!Advance,
         orderVars, workVars
    <3>2. \A r \in Ins(t) : BeginOf(t, r)'
      BY <1>1, <1>5, <3>1, Zenon DEF BeginOf, Running, IsAborted
    <3>3. \A r \in Del(t) : EndOf(t, r)'
      BY <1>1, <1>5, <3>1, Zenon DEF EndOf
    <3>4. HalfwayOf(t)' /\ FreshOf(t)'
      BY <3>1, Zenon DEF HalfwayOf, FreshOf
    <3>5. LockOf(t)'
      BY <1>1, <1>4, <1>5, <3>1, Zenon DEF LockOf, Running, HasCommitId
    <3> QED BY <3>1, <3>2, <3>3, <3>4, <3>5, Zenon DEF OwnStep, IsAborted
  <2>5. CASE NextOperator(t)
    <3>1. /\ pc[t] \in {"Committing", "Aborted"} /\ pc' = pc /\ cid' = cid
          /\ Done(t, "Insert")' = Done(t, "Insert") /\ Done(t, "Delete")' = Done(t, "Delete")
          /\ ~Halfway(t)'
      BY <2>5, SetsOfNextOperator, Zenon DEF NextOperator, orderVars
    <3>2. \A r \in Ins(t) : BeginOf(t, r)'
      BY <1>1, <1>5, <3>1, Zenon DEF BeginOf
    <3>3. \A r \in Del(t) : EndOf(t, r)'
      BY <1>1, <1>5, <3>1, Zenon DEF EndOf
    <3>4. HalfwayOf(t)' /\ FreshOf(t)'
      BY <3>1, Zenon DEF HalfwayOf, FreshOf
    <3>5. LockOf(t)'
      BY <1>1, <1>4, <1>5, <3>1, Zenon DEF LockOf
    <3> QED BY <3>1, <3>2, <3>3, <3>4, <3>5, Zenon DEF OwnStep
  <2>6. CASE UnlockStops(t)
    <3>1. /\ pc[t] = "Aborted" /\ pc' = pc /\ cid' = cid /\ at'[t].field = 1
      <4>1. NextWrite(t, "unlock") /\ pc' = pc /\ cid' = cid
        BY <2>6, Zenon DEF UnlockStops, orderVars
      <4>2. at'[t] = WriteAt(at[t].op, Len(CurrentOp(t).rows) + 1, 1)
        BY <2>6, Zenon DEF UnlockStops, Base, TypeInv
      <4>3. pc[t] = "Aborted"
        BY <4>1, WriteFacts DEF Base
      <4> QED BY <4>1, <4>2, <4>3 DEF WriteAt
    <3>2. \A r \in Ins(t) : BeginOf(t, r)'
      BY <1>1, <1>5, <3>1, Zenon DEF BeginOf, Running
    <3>3. \A r \in Del(t) : EndOf(t, r)'
      BY <3>1, Zenon DEF EndOf
    <3>4. HalfwayOf(t)' /\ FreshOf(t)'
      BY <3>1 DEF HalfwayOf, FreshOf, Halfway
    <3>5. LockOf(t)'
      BY <1>1, <1>4, <1>5, <3>1, Zenon DEF LockOf, Running, HasCommitId
    <3> QED BY <3>1, <3>2, <3>3, <3>4, <3>5, Zenon DEF OwnStep
  <2> QED BY <2>1, <2>2, <2>3, <2>4, <2>5, <2>6, Zenon
<1> QED BY <1>1, <1>2, <1>3, <1>6, VersionsOfOwnStep, Zenon

=============================================================================
