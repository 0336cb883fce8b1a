--------------------------- MODULE WaitingProofs ---------------------------
(***************************************************************************)
(* Proofs about threads that wait for one another.                         *)
(*                                                                         *)
(* One transaction, for every plan of operators: one thread ends it, it    *)
(* does not commit once an operator has failed, and no operator of a       *)
(* single statement executes while it is rolled back.                      *)
(*                                                                         *)
(* The workers of one core, for any tasks and any limits on the number of  *)
(* workers: they are counted right, and the active worker token is not     *)
(* lost.                                                                   *)
(***************************************************************************)
EXTENDS TransactionContext, ProcessingUnit, TLAPS

-----------------------------------------------------------------------------
(* The transaction.                                                        *)

TaskPc == {"scheduled", "execute", "start", "register", "running", "finish", "executed"}
EndPc == {"wait", "predicate", "asleep", "rolling_back", "committing"}

TypeInv ==
  /\ phase \in {"Active", "Aborted", "RolledBack", "Committing", "Committed"}
  /\ registered \in Seq(Op)
  /\ state \in [Op -> {"Pending", "Failed", "Executed", "RolledBack", "Committed"}]
  /\ pc \in [Thread -> TaskPc \cup EndPc \cup {"wait_for_tasks", "commit", "rollback", "done"}]
  /\ next \in [Thread -> Nat \ {0}]
  /\ predecessors \in Plans

(* The operators are done when the client ends the transaction, and the     *)
(* predecessors of a task before it starts.                                 *)
TaskInv ==
  /\ pc[Client] \notin TaskPc
  /\ \A o \in Op :
       /\ pc[o] \notin {"wait_for_tasks", "commit"}
       /\ pc[Client] # "wait_for_tasks" => pc[o] = "done"
       /\ pc[o] # "done" => o \in DOMAIN predecessors
       /\ pc[o] \notin {"scheduled", "done"} => \A p \in predecessors[o] : pc[p] = "done"

(* A thread that ends the transaction has moved the phase on, alone.        *)
EndInv ==
  /\ \A t \in Thread :
       /\ Ending(t) => phase \in {"Aborted", "Committing"}
       /\ pc[t] = "rolling_back" => phase = "Aborted"
       /\ pc[t] = "committing" => phase = "Committing"
  /\ phase \in {"Committing", "Committed"} => pc[Client] # "wait_for_tasks"
  /\ OneThreadEnds

(* Only writers fail, and the task of one that has failed is on its way to  *)
(* roll back unless the transaction is already aborted.                     *)
FailInv ==
  \A o \in Op :
    /\ state[o] = "RolledBack" => aborted
    /\ state[o] = "Failed" => aborted \/ pc[o] \in {"finish", "executed", "rollback"}
    /\ state[o] = "Failed" => o \in ReadWrite
    /\ pc[o] \in EndPc \cup {"rollback"} => o \in ReadWrite

Inv == TypeInv /\ TaskInv /\ EndInv /\ FailInv

LEMMA PlanFacts ==
  ASSUME TypeInv
  PROVE  /\ DOMAIN predecessors \subseteq Op
         /\ \A o \in DOMAIN predecessors : predecessors[o] \subseteq Op
<1>1. PICK S \in SUBSET Op : predecessors \in [S -> SUBSET S]
  BY TransactionContextAssumption DEF TypeInv
<1> QED BY <1>1, Zenon

(* What the actions that check an assertion do, whether or not it holds.    *)
SkipOperatorEffect(o) ==
  /\ pc[o] = "scheduled" /\ pc' = [pc EXCEPT ![o] = "done"]
  /\ aborted
  /\ state' = state \/ state' = [state EXCEPT ![o] = "RolledBack"]
  /\ UNCHANGED <<phase, registered, next, predecessors>>

CheckPhaseEffect(o) ==
  /\ pc[o] = "scheduled" /\ pc' = [pc EXCEPT ![o] = "execute"]
  /\ \A p \in predecessors[o] : pc[p] = "done"
  /\ UNCHANGED <<phase, registered, state, next, predecessors>>

AbortEffect(t) ==
  /\ pc[t] = "rollback"
  /\ \/ phase = "Active" /\ phase' = "Aborted" /\ pc' = [pc EXCEPT ![t] = "wait"]
     \/ phase # "Active" /\ phase' = phase /\ pc' = [pc EXCEPT ![t] = "done"]
  /\ UNCHANGED <<registered, state, next, predecessors>>

PrepareCommitEffect(t) ==
  /\ pc[t] = "commit"
  /\ \/ phase = "Active" /\ phase' = "Committing" /\ pc' = [pc EXCEPT ![t] = "wait"]
     \/ phase # "Active" /\ phase' = phase /\ pc' = [pc EXCEPT ![t] = "done"]
  /\ UNCHANGED <<registered, state, next, predecessors>>

RollbackRecordsEffect(t) ==
  /\ pc[t] = "rolling_back" /\ next' \in [Thread -> Nat \ {0}]
  /\ \E o \in Op : state' = state \/ state' = [state EXCEPT ![o] = "RolledBack"]
  /\ UNCHANGED <<phase, registered, pc, predecessors>>

CommitRecordsEffect(t) ==
  /\ pc[t] = "committing" /\ next' \in [Thread -> Nat \ {0}]
  /\ \E o \in Op : state' = state \/ state' = [state EXCEPT ![o] = "Committed"]
  /\ UNCHANGED <<phase, registered, pc, predecessors>>

LEMMA Effects ==
  /\ \A o \in Op : SkipOperator(o) => SkipOperatorEffect(o)
  /\ \A o \in Op : CheckPhase(o) => CheckPhaseEffect(o)
  /\ \A t \in Thread : Abort(t) => AbortEffect(t)
  /\ \A t \in Thread : PrepareCommit(t) => PrepareCommitEffect(t)
<1>1. \A o \in Op : SkipOperator(o) => SkipOperatorEffect(o)
  BY Zenon DEF SkipOperator, SkipOperatorEffect, Goto, given
<1>2. \A o \in Op : CheckPhase(o) => CheckPhaseEffect(o)
  BY Zenon DEF CheckPhase, CheckPhaseEffect, Goto, given
<1>3. \A t \in Thread : Abort(t) => AbortEffect(t)
  BY Zenon DEF Abort, AbortEffect, given
<1>4. \A t \in Thread : PrepareCommit(t) => PrepareCommitEffect(t)
  BY Zenon DEF PrepareCommit, PrepareCommitEffect, given
<1> QED BY <1>1, <1>2, <1>3, <1>4, Zenon

LEMMA LoopEffects ==
  ASSUME TypeInv, NEW t \in Thread
  PROVE  /\ RollbackRecords(t) => RollbackRecordsEffect(t)
         /\ CommitRecords(t) => CommitRecordsEffect(t)
<1>1. ASSUME next[t] <= Len(registered), next' = [next EXCEPT ![t] = @ + 1]
      PROVE  registered[next[t]] \in Op /\ next' \in [Thread -> Nat \ {0}]
  BY <1>1 DEF TypeInv
<1>2. RollbackRecords(t) => RollbackRecordsEffect(t)
  BY <1>1, Zenon DEF RollbackRecords, RollbackRecordsEffect, given
<1>3. CommitRecords(t) => CommitRecordsEffect(t)
  BY <1>1, Zenon DEF CommitRecords, CommitRecordsEffect, given
<1> QED BY <1>2, <1>3

(* Every action keeps the types.                                           *)
LEMMA Types ==
  ASSUME TypeInv, Next
  PROVE  TypeInv'
<1> USE DEF TypeInv, Thread, TaskPc, EndPc
<1>2. ASSUME NEW o \in Op, TaskStep(o) PROVE TypeInv'
  <2>1. CASE SkipOperator(o)
    <3>1. SkipOperatorEffect(o)
      BY <2>1, Effects, Zenon
    <3> QED BY <3>1 DEF SkipOperatorEffect
  <2>2. CASE CheckPhase(o)
    <3>1. CheckPhaseEffect(o)
      BY <2>2, Effects, Zenon
    <3> QED BY <3>1 DEF CheckPhaseEffect
  <2>3. CASE SkipExecute(o)
    BY <2>3 DEF SkipExecute, Goto, given, Loop
  <2>4. CASE CheckAborted(o)
    BY <2>4 DEF CheckAborted, Goto, given, Loop
  <2>5. CASE OnOperatorStarted(o)
    BY <2>5 DEF OnOperatorStarted, Goto, given, Loop
  <2>6. CASE Register(o)
    BY <2>6 DEF Register, Goto, given, Loop
  <2>7. CASE Succeed(o)
    BY <2>7 DEF Succeed, Goto, given, Loop
  <2>8. CASE ConflictFound(o)
    BY <2>8 DEF ConflictFound, Goto, given, Loop
  <2>9. CASE OnOperatorFinished(o)
    BY <2>9 DEF OnOperatorFinished, Goto, given, Loop
  <2>10. CASE ReturnFromExecute(o)
    BY <2>10 DEF ReturnFromExecute, Goto, given, Loop
  <2> QED BY <1>2, <2>1, <2>2, <2>3, <2>4, <2>5, <2>6, <2>7, <2>8, <2>9, <2>10, Zenon DEF TaskStep
<1>3. ASSUME NEW t \in Thread, EndStep(t) PROVE TypeInv'
  <2>1. CASE Abort(t)
    <3>1. AbortEffect(t)
      BY <2>1, Effects, Zenon
    <3> QED BY <3>1, Zenon DEF AbortEffect
  <2>2. CASE PrepareCommit(t)
    <3>1. PrepareCommitEffect(t)
      BY <2>2, Effects, Zenon
    <3> QED BY <3>1, Zenon DEF PrepareCommitEffect
  <2>3. CASE NoneActive(t)
    BY <2>3 DEF NoneActive, Goto, given, Loop
  <2>4. CASE SomeActive(t)
    BY <2>4 DEF SomeActive, Goto, given, Loop
  <2>5. CASE Wait(t)
    BY <2>5 DEF Wait, Goto, given, Loop
  <2>6. CASE RollbackRecords(t)
    <3>1. RollbackRecordsEffect(t)
      BY <2>6, LoopEffects, Zenon
    <3> QED BY <3>1 DEF RollbackRecordsEffect
  <2>7. CASE MarkAsRolledBack(t)
    BY <2>7 DEF MarkAsRolledBack, Goto, given, Loop
  <2>8. CASE CommitRecords(t)
    <3>1. CommitRecordsEffect(t)
      BY <2>8, LoopEffects, Zenon
    <3> QED BY <3>1 DEF CommitRecordsEffect
  <2>9. CASE MarkAsCommitted(t)
    BY <2>9 DEF MarkAsCommitted, Goto, given, Loop
  <2> QED BY <1>3, <2>1, <2>2, <2>3, <2>4, <2>5, <2>6, <2>7, <2>8, <2>9, Zenon DEF EndStep
<1>4. CASE TasksDone
  BY <1>4 DEF TasksDone, given
<1>5. CASE Finished
  BY <1>5 DEF Finished, vars, given
<1> QED BY <1>2, <1>3, <1>4, <1>5, Zenon DEF Next

(* Tasks start after their predecessors, the client after the tasks.       *)
LEMMA Tasks ==
  ASSUME Inv, Next
  PROVE  TaskInv'
<1> USE DEF Inv, TypeInv, TaskInv, Thread, TaskPc, EndPc
<1>1. /\ Client \notin Op /\ ReadWrite \subseteq Op /\ DOMAIN predecessors \subseteq Op
      /\ \A o \in DOMAIN predecessors : predecessors[o] \subseteq Op
  BY PlanFacts, TransactionContextAssumption, Zenon
<1>2. ASSUME NEW o \in Op, TaskStep(o) PROVE TaskInv'
  <2>1. CASE SkipOperator(o)
    <3>1. SkipOperatorEffect(o)
      BY <2>1, Effects, Zenon
    <3> QED BY <1>1, <3>1 DEF SkipOperatorEffect
  <2>2. CASE CheckPhase(o)
    <3>1. CheckPhaseEffect(o)
      BY <2>2, Effects, Zenon
    <3> QED BY <1>1, <3>1 DEF CheckPhaseEffect
  <2>3. CASE SkipExecute(o)
    BY <1>1, <2>3 DEF SkipExecute, Goto, given, Loop
  <2>4. CASE CheckAborted(o)
    BY <1>1, <2>4 DEF CheckAborted, Goto, given, Loop
  <2>5. CASE OnOperatorStarted(o)
    BY <1>1, <2>5 DEF OnOperatorStarted, Goto, given, Loop
  <2>6. CASE Register(o)
    BY <1>1, <2>6 DEF Register, Goto, given, Loop
  <2>7. CASE Succeed(o)
    BY <1>1, <2>7 DEF Succeed, Goto, given, Loop
  <2>8. CASE ConflictFound(o)
    BY <1>1, <2>8 DEF ConflictFound, Goto, given, Loop
  <2>9. CASE OnOperatorFinished(o)
    BY <1>1, <2>9 DEF OnOperatorFinished, Goto, given, Loop
  <2>10. CASE ReturnFromExecute(o)
    BY <1>1, <2>10 DEF ReturnFromExecute, Goto, given, Loop
  <2> QED BY <1>2, <2>1, <2>2, <2>3, <2>4, <2>5, <2>6, <2>7, <2>8, <2>9, <2>10, Zenon DEF TaskStep
<1>3. ASSUME NEW t \in Thread, EndStep(t) PROVE TaskInv'
  <2>1. CASE Abort(t)
    <3>1. AbortEffect(t)
      BY <2>1, Effects, Zenon
    <3> QED BY <1>1, <3>1 DEF AbortEffect
  <2>2. CASE PrepareCommit(t)
    <3>1. PrepareCommitEffect(t)
      BY <2>2, Effects, Zenon
    <3> QED BY <1>1, <3>1 DEF PrepareCommitEffect
  <2>3. CASE NoneActive(t)
    BY <1>1, <2>3 DEF NoneActive, Goto, given, Loop
  <2>4. CASE SomeActive(t)
    BY <1>1, <2>4 DEF SomeActive, Goto, given, Loop
  <2>5. CASE Wait(t)
    BY <1>1, <2>5 DEF Wait, Goto, given, Loop
  <2>6. CASE RollbackRecords(t)
    <3>1. RollbackRecordsEffect(t)
      BY <2>6, LoopEffects, Zenon
    <3> QED BY <1>1, <3>1 DEF RollbackRecordsEffect
  <2>7. CASE MarkAsRolledBack(t)
    BY <1>1, <2>7 DEF MarkAsRolledBack, Goto, given, Loop
  <2>8. CASE CommitRecords(t)
    <3>1. CommitRecordsEffect(t)
      BY <2>8, LoopEffects, Zenon
    <3> QED BY <1>1, <3>1 DEF CommitRecordsEffect
  <2>9. CASE MarkAsCommitted(t)
    BY <1>1, <2>9 DEF MarkAsCommitted, Goto, given, Loop
  <2> QED BY <1>3, <2>1, <2>2, <2>3, <2>4, <2>5, <2>6, <2>7, <2>8, <2>9, Zenon DEF EndStep
<1>4. CASE TasksDone
  BY <1>1, <1>4 DEF TasksDone, given
<1>5. CASE Finished
  BY <1>5 DEF Finished, vars, given
<1> QED BY <1>2, <1>3, <1>4, <1>5, Zenon DEF Next

(* The phase leaves Active once, with the one thread that ends.            *)
LEMMA Ends ==
  ASSUME Inv, Next
  PROVE  EndInv'
<1> USE DEF Inv, TypeInv, EndInv, TaskInv, Thread, OneThreadEnds, Ending, aborted
<1>1. /\ Client \notin Op /\ ReadWrite \subseteq Op /\ DOMAIN predecessors \subseteq Op
      /\ \A o \in DOMAIN predecessors : predecessors[o] \subseteq Op
  BY PlanFacts, TransactionContextAssumption, Zenon
<1>2. ASSUME NEW o \in Op, TaskStep(o) PROVE EndInv'
  <2>1. CASE SkipOperator(o)
    <3>1. SkipOperatorEffect(o)
      BY <2>1, Effects, Zenon
    <3> QED BY <1>1, <3>1 DEF SkipOperatorEffect
  <2>2. CASE CheckPhase(o)
    <3>1. CheckPhaseEffect(o)
      BY <2>2, Effects, Zenon
    <3> QED BY <1>1, <3>1 DEF CheckPhaseEffect
  <2>3. CASE SkipExecute(o)
    BY <1>1, <2>3 DEF SkipExecute, Goto, given, Loop
  <2>4. CASE CheckAborted(o)
    BY <1>1, <2>4 DEF CheckAborted, Goto, given, Loop
  <2>5. CASE OnOperatorStarted(o)
    BY <1>1, <2>5 DEF OnOperatorStarted, Goto, given, Loop
  <2>6. CASE Register(o)
    BY <1>1, <2>6 DEF Register, Goto, given, Loop
  <2>7. CASE Succeed(o)
    BY <1>1, <2>7 DEF Succeed, Goto, given, Loop
  <2>8. CASE ConflictFound(o)
    BY <1>1, <2>8 DEF ConflictFound, Goto, given, Loop
  <2>9. CASE OnOperatorFinished(o)
    BY <1>1, <2>9 DEF OnOperatorFinished, Goto, given, Loop
  <2>10. CASE ReturnFromExecute(o)
    BY <1>1, <2>10 DEF ReturnFromExecute, Goto, given, Loop
  <2> QED BY <1>2, <2>1, <2>2, <2>3, <2>4, <2>5, <2>6, <2>7, <2>8, <2>9, <2>10, Zenon DEF TaskStep
<1>3. ASSUME NEW t \in Thread, EndStep(t) PROVE EndInv'
  <2>1. CASE Abort(t)
    <3>1. AbortEffect(t)
      BY <2>1, Effects, Zenon
    <3> QED BY <1>1, <3>1 DEF AbortEffect
  <2>2. CASE PrepareCommit(t)
    <3>1. PrepareCommitEffect(t)
      BY <2>2, Effects, Zenon
    <3> QED BY <1>1, <3>1 DEF PrepareCommitEffect
  <2>3. CASE NoneActive(t)
    BY <1>1, <2>3 DEF NoneActive, Goto, given, Loop
  <2>4. CASE SomeActive(t)
    BY <1>1, <2>4 DEF SomeActive, Goto, given, Loop
  <2>5. CASE Wait(t)
    BY <1>1, <2>5 DEF Wait, Goto, given, Loop
  <2>6. CASE RollbackRecords(t)
    <3>1. RollbackRecordsEffect(t)
      BY <2>6, LoopEffects, Zenon
    <3> QED BY <1>1, <3>1 DEF RollbackRecordsEffect
  <2>7. CASE MarkAsRolledBack(t)
    BY <1>1, <2>7 DEF MarkAsRolledBack, Goto, given, Loop
  <2>8. CASE CommitRecords(t)
    <3>1. CommitRecordsEffect(t)
      BY <2>8, LoopEffects, Zenon
    <3> QED BY <1>1, <3>1 DEF CommitRecordsEffect
  <2>9. CASE MarkAsCommitted(t)
    BY <1>1, <2>9 DEF MarkAsCommitted, Goto, given, Loop
  <2> QED BY <1>3, <2>1, <2>2, <2>3, <2>4, <2>5, <2>6, <2>7, <2>8, <2>9, Zenon DEF EndStep
<1>4. CASE TasksDone
  BY <1>1, <1>4 DEF TasksDone, given
<1>5. CASE Finished
  BY <1>5 DEF Finished, vars, given
<1> QED BY <1>2, <1>3, <1>4, <1>5, Zenon DEF Next

(* A writer that fails aborts the transaction.                             *)
LEMMA Failures ==
  ASSUME Inv, Next
  PROVE  FailInv'
<1> USE DEF Inv, TypeInv, FailInv, EndInv, TaskInv, Thread, Ending, aborted, TaskPc, EndPc
<1>1. /\ Client \notin Op /\ ReadWrite \subseteq Op /\ DOMAIN predecessors \subseteq Op
      /\ \A o \in DOMAIN predecessors : predecessors[o] \subseteq Op
  BY PlanFacts, TransactionContextAssumption, Zenon
<1>2. ASSUME NEW o \in Op, TaskStep(o) PROVE FailInv'
  <2>1. CASE SkipOperator(o)
    <3>1. SkipOperatorEffect(o)
      BY <2>1, Effects, Zenon
    <3> QED BY <1>1, <3>1 DEF SkipOperatorEffect
  <2>2. CASE CheckPhase(o)
    <3>1. CheckPhaseEffect(o)
      BY <2>2, Effects, Zenon
    <3> QED BY <1>1, <3>1 DEF CheckPhaseEffect
  <2>3. CASE SkipExecute(o)
    BY <1>1, <2>3 DEF SkipExecute, Goto, given, Loop
  <2>4. CASE CheckAborted(o)
    BY <1>1, <2>4 DEF CheckAborted, Goto, given, Loop
  <2>5. CASE OnOperatorStarted(o)
    BY <1>1, <2>5 DEF OnOperatorStarted, Goto, given, Loop
  <2>6. CASE Register(o)
    BY <1>1, <2>6 DEF Register, Goto, given, Loop
  <2>7. CASE Succeed(o)
    BY <1>1, <2>7 DEF Succeed, Goto, given, Loop
  <2>8. CASE ConflictFound(o)
    BY <1>1, <2>8 DEF ConflictFound, Goto, given, Loop
  <2>9. CASE OnOperatorFinished(o)
    BY <1>1, <2>9 DEF OnOperatorFinished, Goto, given, Loop
  <2>10. CASE ReturnFromExecute(o)
    BY <1>1, <2>10 DEF ReturnFromExecute, Goto, given, Loop
  <2> QED BY <1>2, <2>1, <2>2, <2>3, <2>4, <2>5, <2>6, <2>7, <2>8, <2>9, <2>10, Zenon DEF TaskStep
<1>3. ASSUME NEW t \in Thread, EndStep(t) PROVE FailInv'
  <2>1. CASE Abort(t)
    <3>1. AbortEffect(t)
      BY <2>1, Effects, Zenon
    <3> QED BY <1>1, <3>1, SMTT(30) DEF AbortEffect
  <2>2. CASE PrepareCommit(t)
    <3>1. PrepareCommitEffect(t)
      BY <2>2, Effects, Zenon
    <3> QED BY <1>1, <3>1 DEF PrepareCommitEffect
  <2>3. CASE NoneActive(t)
    BY <1>1, <2>3 DEF NoneActive, Goto, given, Loop
  <2>4. CASE SomeActive(t)
    BY <1>1, <2>4 DEF SomeActive, Goto, given, Loop
  <2>5. CASE Wait(t)
    BY <1>1, <2>5 DEF Wait, Goto, given, Loop
  <2>6. CASE RollbackRecords(t)
    <3>1. RollbackRecordsEffect(t)
      BY <2>6, LoopEffects, Zenon
    <3> QED BY <1>1, <3>1 DEF RollbackRecordsEffect
  <2>7. CASE MarkAsRolledBack(t)
    BY <1>1, <2>7 DEF MarkAsRolledBack, Goto, given, Loop
  <2>8. CASE CommitRecords(t)
    <3>1. CommitRecordsEffect(t)
      BY <2>8, LoopEffects, Zenon
    <3> QED BY <1>1, <3>1 DEF CommitRecordsEffect
  <2>9. CASE MarkAsCommitted(t)
    BY <1>1, <2>9 DEF MarkAsCommitted, Goto, given, Loop
  <2> QED BY <1>3, <2>1, <2>2, <2>3, <2>4, <2>5, <2>6, <2>7, <2>8, <2>9, Zenon DEF EndStep
<1>4. CASE TasksDone
  BY <1>1, <1>4 DEF TasksDone, given
<1>5. CASE Finished
  BY <1>5 DEF Finished, vars, given
<1> QED BY <1>2, <1>3, <1>4, <1>5, Zenon DEF Next

LEMMA InvInit == Init => Inv
<1> SUFFICES ASSUME Init PROVE Inv
  OBVIOUS
<1>1. TypeInv
  BY DEF Init, TypeInv, Thread, TaskPc, EndPc
<1>2. /\ pc[Client] = "wait_for_tasks"
      /\ \A o \in Op : pc[o] = IF o \in DOMAIN predecessors THEN "scheduled" ELSE "done"
  BY TransactionContextAssumption DEF Init, Thread
<1>3. \A t \in Thread : pc[t] \in {"wait_for_tasks", "scheduled", "done"}
  BY <1>2 DEF Thread
<1>4. TaskInv
  BY <1>2 DEF TaskInv, TaskPc
<1>5. EndInv
  BY <1>3 DEF Init, EndInv, OneThreadEnds, Ending
<1>6. FailInv
  BY <1>3 DEF Init, FailInv, Thread, EndPc
<1> QED BY <1>1, <1>4, <1>5, <1>6 DEF Inv

LEMMA InvHolds == Spec => []Inv
<1>1. Inv /\ [Next]_vars => Inv'
  <2>1. ASSUME Inv, Next PROVE Inv'
    BY <2>1, Types, Tasks, Ends, Failures, Zenon DEF Inv
  <2>2. ASSUME Inv, UNCHANGED vars PROVE Inv'
    BY <2>2, Zenon DEF vars, given, Inv, TypeInv, TaskInv, EndInv, FailInv, OneThreadEnds, Ending, aborted
  <2> QED BY <2>1, <2>2, Zenon
<1> QED BY <1>1, InvInit, PTL DEF Spec

(* However many operators fail at once and whatever the client does, one    *)
(* thread at most gets past _transition to wait for the operators and to    *)
(* commit or roll them back (TransactionContext::rollback, commit_async).   *)
THEOREM OnlyOneEnds == Spec => []OneThreadEnds
<1>1. Inv => OneThreadEnds
  BY Zenon DEF Inv, EndInv
<1> QED BY <1>1, InvHolds, PTL

(* A transaction does not commit once one of its operators has failed, also *)
(* when the client commits whatever happened: the task of the operator has  *)
(* rolled back before the client gets to commit (OperatorTask::_on_execute, *)
(* SQLPipelineStatement::get_result_table).                                 *)
THEOREM FailureAborts == Spec => []FailedNeverCommits
<1>1. Inv => FailedNeverCommits
  <2> SUFFICES ASSUME Inv, NEW o \in Op, state[o] \in {"Failed", "RolledBack"},
                      phase \in {"Committing", "Committed"}
               PROVE  FALSE
    BY Zenon DEF FailedNeverCommits
  <2>1. pc[o] = "done"
    BY Zenon DEF Inv, TaskInv, EndInv
  <2> QED BY <2>1 DEF Inv, FailInv, aborted
<1> QED BY <1>1, InvHolds, PTL

(* While the transaction of one statement is rolled back no operator of it  *)
(* executes, whatever its plan reads: the write is the last of its tasks.   *)
(* (_wait_for_active_operators_to_finish alone does not ensure that.)       *)
THEOREM StatementsRollBackAlone == Spec => []StatementRollbackIsAlone
<1>1. Inv => StatementRollbackIsAlone
  <2> SUFFICES ASSUME Inv, NEW w \in ReadWrite, DOMAIN predecessors \cap ReadWrite = {w},
                      predecessors[w] = DOMAIN predecessors \ {w},
                      NEW t \in Thread, pc[t] = "rolling_back",
                      NEW o \in Op, Executing(o)
               PROVE  FALSE
    BY Zenon DEF StatementRollbackIsAlone, StatementPlan, NoOperatorDuringRollback
  <2>1. pc[o] \in {"register", "running", "finish"} /\ o \in DOMAIN predecessors
    BY DEF Executing, Inv, TaskInv
  <2>2. t # Client
    BY <2>1, TransactionContextAssumption DEF Inv, TaskInv
  <2>3. t \in Op /\ t \in ReadWrite /\ t \in DOMAIN predecessors
    BY <2>2 DEF Thread, Inv, FailInv, EndPc, TaskInv
  <2>4. t = w /\ o \in predecessors[w]
    BY <2>1, <2>3
  <2> QED BY <2>1, <2>3, <2>4 DEF Inv, TaskInv
<1> QED BY <1>1, InvHolds, PTL

-----------------------------------------------------------------------------
(* The workers, whose number of hibernated ones is the size of a set.       *)

INSTANCE FiniteSetTheorems

Pc == {"none", "loop", "acquire", "pull", "execute", "yield", "wake", "create", "notify", "wait",
       "hibernate", "predicate", "block", "asleep", "woken", "exiting", "exit"}

Hibernated == {w \in Worker : worker_pc[w] \in {"predicate", "block", "asleep", "woken"}}

UnitTypeInv ==
  /\ token \in Worker \cup {INVALID_WORKER_ID}
  /\ created \in Worker
  /\ mutex \in Worker \cup {INVALID_WORKER_ID}
  /\ shutdown \in BOOLEAN
  /\ worker_pc \in [Worker -> Pc]
  /\ main \in {"submit", "notify", "join", "down"}

(* The mutex is held from the increment to the wait.                        *)
MutexInv == \A w \in Worker : worker_pc[w] \in {"predicate", "block"} <=> mutex = w

CountInv ==
  /\ \A w \in Worker : w > created => worker_pc[w] = "none"
  /\ num_hibernated = Cardinality(Hibernated)

(* Nobody starts to wait after the shutdown, which notifies those who wait. *)
ShutdownInv ==
  /\ shutdown <=> main # "submit"
  /\ \A w \in Worker : /\ worker_pc[w] \in {"exiting", "exit"} => shutdown
                       /\ worker_pc[w] = "block" => ~shutdown
                       /\ worker_pc[w] = "asleep" => main \in {"submit", "notify"}

(* Who takes the token or wakes another worker before waiting again.  Not   *)
(* the one that creates a worker: there may be none left to create.         *)
Awake == {"loop", "acquire", "wake", "notify", "hibernate", "predicate", "woken", "exiting"}

TokenInv ==
  token = INVALID_WORKER_ID /\ (\E w \in Worker : worker_pc[w] \in {"block", "asleep"}) =>
    main = "notify" \/ \E w \in Worker : worker_pc[w] \in Awake

UnitInv == UnitTypeInv /\ MutexInv /\ CountInv /\ ShutdownInv /\ TokenInv

(* Facts about the sets of workers.                                         *)
LEMMA WorkerSets ==
  /\ Worker \subseteq Nat \ {0} /\ INVALID_WORKER_ID \notin Worker /\ 1 \in Worker
  /\ \A S \in SUBSET Worker : IsFiniteSet(S) /\ Cardinality(S) \in Nat
<1>1. Worker \subseteq Nat \ {0} /\ INVALID_WORKER_ID \notin Worker /\ 1 \in Worker
  BY ProcessingUnitAssumption DEF Worker, INVALID_WORKER_ID
<1>2. IsFiniteSet(Worker)
  BY ProcessingUnitAssumption, FS_Interval DEF Worker
<1>3. ASSUME NEW S \in SUBSET Worker PROVE IsFiniteSet(S) /\ Cardinality(S) \in Nat
  BY <1>2, FS_Subset, FS_CardinalityType, Zenon
<1> QED BY <1>1, <1>3, Zenon

LEMMA Counted ==
  ASSUME num_hibernated = Cardinality(Hibernated), NEW w \in Worker,
         \/ num_hibernated' = num_hibernated /\ Hibernated' = Hibernated
         \/ num_hibernated' = num_hibernated + 1 /\ w \notin Hibernated /\ Hibernated' = Hibernated \cup {w}
         \/ num_hibernated' = num_hibernated - 1 /\ w \in Hibernated /\ Hibernated' = Hibernated \ {w}
  PROVE  num_hibernated' \in Nat /\ num_hibernated' = Cardinality(Hibernated')
<1>1. IsFiniteSet(Hibernated) /\ Cardinality(Hibernated) \in Nat
  BY WorkerSets, Zenon DEF Hibernated
<1>2. CASE num_hibernated' = num_hibernated /\ Hibernated' = Hibernated
  BY <1>1, <1>2, Zenon
<1>3. CASE num_hibernated' = num_hibernated + 1 /\ w \notin Hibernated /\ Hibernated' = Hibernated \cup {w}
  BY <1>1, <1>3, FS_AddElement
<1>4. CASE num_hibernated' = num_hibernated - 1 /\ w \in Hibernated /\ Hibernated' = Hibernated \ {w}
  <2>1. /\ Cardinality(Hibernated \ {w}) = Cardinality(Hibernated) - 1
        /\ IsFiniteSet(Hibernated \ {w})
    BY <1>1, <1>4, FS_RemoveElement, Zenon
  <2>2. Cardinality(Hibernated \ {w}) \in Nat
    BY <2>1, FS_CardinalityType, Zenon
  <2> QED BY <1>4, <2>1, <2>2, Zenon
<1> QED BY <1>2, <1>3, <1>4, Zenon

(* The counter that wake_or_create_worker reads.                            *)
LEMMA NoneHibernated ==
  ASSUME CountInv, num_hibernated = 0
  PROVE  \A w \in Worker : worker_pc[w] \notin {"predicate", "block", "asleep", "woken"}
<1>1. IsFiniteSet(Hibernated)
  BY WorkerSets, Zenon DEF Hibernated
<1>2. Hibernated = {}
  BY <1>1, FS_EmptySet, Zenon DEF CountInv
<1> QED BY <1>2, Zenon DEF Hibernated

(* At most one worker starts or stops hibernating, and is counted.          *)
HibernateStep ==
  \E w \in Worker :
    \/ num_hibernated' = num_hibernated /\ Hibernated' = Hibernated
    \/ num_hibernated' = num_hibernated + 1 /\ w \notin Hibernated /\ Hibernated' = Hibernated \cup {w}
    \/ num_hibernated' = num_hibernated - 1 /\ w \in Hibernated /\ Hibernated' = Hibernated \ {w}

(* Every action keeps the types; the counter is the subject of Counts.     *)
LEMMA UnitTypes ==
  ASSUME UnitInv, NextUnit
  PROVE  UnitTypeInv'
<1> USE DEF UnitInv, UnitTypeInv, Pc
<1>1. Worker \subseteq Nat \ {0} /\ INVALID_WORKER_ID \notin Worker /\ 1 \in Worker
  BY WorkerSets, Zenon
<1>2. ASSUME NEW w \in Worker, WorkerStep(w) PROVE UnitTypeInv'
  <2>1. CASE CheckShutdown(w)
    BY <1>1, <2>1, Zenon DEF CheckShutdown, WorkerGoto, Continue, Asleep, unit
  <2>2. CASE TryAcquire(w)
    BY <1>1, <2>2, Zenon DEF TryAcquire, WorkerGoto, Continue, Asleep, unit
  <2>3. CASE Yield(w)
    BY <1>1, <2>3, Zenon DEF Yield, WorkerGoto, Continue, Asleep, unit
  <2>4. CASE Exit(w)
    BY <1>1, <2>4, Zenon DEF Exit, WorkerGoto, Continue, Asleep, unit
  <2>5. CASE Hibernate(w)
    BY <1>1, <2>5, Zenon DEF Hibernate, WorkerGoto, Continue, Asleep, unit
  <2>6. CASE WaitPredicate(w)
    BY <1>1, <2>6, Zenon DEF WaitPredicate, WorkerGoto, Continue, Asleep, unit
  <2>7. CASE Block(w)
    BY <1>1, <2>7, Zenon DEF Block, WorkerGoto, Continue, Asleep, unit
  <2>8. CASE WakeUp(w)
    BY <1>1, <2>8, Zenon DEF WakeUp, WorkerGoto, Continue, Asleep, unit
  <2>9. CASE WakeOrCreate(w)
    BY <1>1, <2>9, Zenon DEF WakeOrCreate, WorkerGoto, Continue, Asleep, unit
  <2>10. CASE CreateWorker(w)
    BY <1>1, <2>10, Zenon DEF CreateWorker, WorkerGoto, Continue, Asleep, unit
  <2>11. CASE NotifyOne(w)
    BY <1>1, <2>11, Zenon DEF NotifyOne, WorkerGoto, Continue, Asleep, unit
  <2>12. CASE Pull(w)
    BY <1>1, <2>12, Zenon DEF Pull, WorkerGoto, Continue, Asleep, unit
  <2>13. CASE Execute(w)
    BY <1>1, <2>13, Zenon DEF Execute, WorkerGoto, Continue, Asleep, unit
  <2>14. CASE WaitForTasks(w)
    BY <1>1, <2>14, Zenon DEF WaitForTasks, WorkerGoto, Continue, Asleep, unit
  <2> QED BY <1>2, <2>1, <2>2, <2>3, <2>4, <2>5, <2>6, <2>7, <2>8, <2>9, <2>10, <2>11, <2>12, <2>13, <2>14, Zenon DEF WorkerStep
<1>3. CASE \E t \in Task : Submit(t)
  BY <1>1, <1>3, Zenon DEF Submit, unit
<1>4. CASE SetShutdown
  BY <1>1, <1>4, Zenon DEF SetShutdown, unit
<1>5. CASE NotifyAll
  BY <1>1, <1>5, Zenon DEF NotifyAll, unit
<1>6. CASE Join
  BY <1>1, <1>6, Zenon DEF Join, unit
<1>7. CASE Terminated
  BY <1>1, <1>7, Zenon DEF Terminated, unitVars, unit
<1> QED BY <1>2, <1>3, <1>4, <1>5, <1>6, <1>7, Zenon DEF NextUnit, MainStep

(* Only the holder of the mutex is between the increment and the wait.     *)
LEMMA Mutual ==
  ASSUME UnitInv, NextUnit
  PROVE  MutexInv'
<1> USE DEF UnitInv, UnitTypeInv, MutexInv, Pc
<1>1. Worker \subseteq Nat \ {0} /\ INVALID_WORKER_ID \notin Worker /\ 1 \in Worker
  BY WorkerSets, Zenon
<1>2. ASSUME NEW w \in Worker, WorkerStep(w) PROVE MutexInv'
  <2>1. CASE CheckShutdown(w)
    BY <1>1, <2>1, Zenon DEF CheckShutdown, WorkerGoto, Continue, Asleep, unit
  <2>2. CASE TryAcquire(w)
    BY <1>1, <2>2, Zenon DEF TryAcquire, WorkerGoto, Continue, Asleep, unit
  <2>3. CASE Yield(w)
    BY <1>1, <2>3, Zenon DEF Yield, WorkerGoto, Continue, Asleep, unit
  <2>4. CASE Exit(w)
    BY <1>1, <2>4, Zenon DEF Exit, WorkerGoto, Continue, Asleep, unit
  <2>5. CASE Hibernate(w)
    BY <1>1, <2>5, Zenon DEF Hibernate, WorkerGoto, Continue, Asleep, unit
  <2>6. CASE WaitPredicate(w)
    BY <1>1, <2>6, Zenon DEF WaitPredicate, WorkerGoto, Continue, Asleep, unit
  <2>7. CASE Block(w)
    BY <1>1, <2>7, Zenon DEF Block, WorkerGoto, Continue, Asleep, unit
  <2>8. CASE WakeUp(w)
    BY <1>1, <2>8, Zenon DEF WakeUp, WorkerGoto, Continue, Asleep, unit
  <2>9. CASE WakeOrCreate(w)
    BY <1>1, <2>9, Zenon DEF WakeOrCreate, WorkerGoto, Continue, Asleep, unit
  <2>10. CASE CreateWorker(w)
    <3>1. created + 1 \in Worker => worker_pc[created + 1] = "none"
      BY <1>1 DEF CountInv
    <3> QED BY <1>1, <2>10, <3>1, Zenon DEF CreateWorker, Continue
  <2>11. CASE NotifyOne(w)
    BY <1>1, <2>11, Zenon DEF NotifyOne, WorkerGoto, Continue, Asleep, unit
  <2>12. CASE Pull(w)
    BY <1>1, <2>12, Zenon DEF Pull, WorkerGoto, Continue, Asleep, unit
  <2>13. CASE Execute(w)
    BY <1>1, <2>13, Zenon DEF Execute, WorkerGoto, Continue, Asleep, unit
  <2>14. CASE WaitForTasks(w)
    BY <1>1, <2>14, Zenon DEF WaitForTasks, WorkerGoto, Continue, Asleep, unit
  <2> QED BY <1>2, <2>1, <2>2, <2>3, <2>4, <2>5, <2>6, <2>7, <2>8, <2>9, <2>10, <2>11, <2>12, <2>13, <2>14, Zenon DEF WorkerStep
<1>3. CASE \E t \in Task : Submit(t)
  BY <1>1, <1>3, Zenon DEF Submit, unit
<1>4. CASE SetShutdown
  BY <1>1, <1>4, Zenon DEF SetShutdown, unit
<1>5. CASE NotifyAll
  BY <1>1, <1>5, Zenon DEF NotifyAll, unit
<1>6. CASE Join
  BY <1>1, <1>6, Zenon DEF Join, unit
<1>7. CASE Terminated
  BY <1>1, <1>7, Zenon DEF Terminated, unitVars, unit
<1> QED BY <1>2, <1>3, <1>4, <1>5, <1>6, <1>7, Zenon DEF NextUnit, MainStep

(* The shutdown flag is set while nobody is about to wait.                 *)
LEMMA Shutdowns ==
  ASSUME UnitInv, NextUnit
  PROVE  ShutdownInv'
<1> USE DEF UnitInv, UnitTypeInv, MutexInv, ShutdownInv, Pc
<1>1. Worker \subseteq Nat \ {0} /\ INVALID_WORKER_ID \notin Worker /\ 1 \in Worker
  BY WorkerSets, Zenon
<1>2. ASSUME NEW w \in Worker, WorkerStep(w) PROVE ShutdownInv'
  <2>1. CASE CheckShutdown(w)
    BY <1>1, <2>1, Zenon DEF CheckShutdown, WorkerGoto, Continue, Asleep, unit
  <2>2. CASE TryAcquire(w)
    BY <1>1, <2>2, Zenon DEF TryAcquire, WorkerGoto, Continue, Asleep, unit
  <2>3. CASE Yield(w)
    BY <1>1, <2>3, Zenon DEF Yield, WorkerGoto, Continue, Asleep, unit
  <2>4. CASE Exit(w)
    BY <1>1, <2>4, Zenon DEF Exit, WorkerGoto, Continue, Asleep, unit
  <2>5. CASE Hibernate(w)
    BY <1>1, <2>5, Zenon DEF Hibernate, WorkerGoto, Continue, Asleep, unit
  <2>6. CASE WaitPredicate(w)
    BY <1>1, <2>6 DEF WaitPredicate, WorkerGoto, Continue, Asleep, unit
  <2>7. CASE Block(w)
    BY <1>1, <2>7, Zenon DEF Block, WorkerGoto, Continue, Asleep, unit
  <2>8. CASE WakeUp(w)
    BY <1>1, <2>8, Zenon DEF WakeUp, WorkerGoto, Continue, Asleep, unit
  <2>9. CASE WakeOrCreate(w)
    BY <1>1, <2>9, Zenon DEF WakeOrCreate, WorkerGoto, Continue, Asleep, unit
  <2>10. CASE CreateWorker(w)
    BY <1>1, <2>10 DEF CreateWorker, WorkerGoto, Continue, Asleep, unit
  <2>11. CASE NotifyOne(w)
    BY <1>1, <2>11 DEF NotifyOne, WorkerGoto, Continue, Asleep, unit
  <2>12. CASE Pull(w)
    BY <1>1, <2>12 DEF Pull, WorkerGoto, Continue, Asleep, unit
  <2>13. CASE Execute(w)
    BY <1>1, <2>13 DEF Execute, WorkerGoto, Continue, Asleep, unit
  <2>14. CASE WaitForTasks(w)
    BY <1>1, <2>14, Zenon DEF WaitForTasks, WorkerGoto, Continue, Asleep, unit
  <2> QED BY <1>2, <2>1, <2>2, <2>3, <2>4, <2>5, <2>6, <2>7, <2>8, <2>9, <2>10, <2>11, <2>12, <2>13, <2>14, Zenon DEF WorkerStep
<1>3. CASE \E t \in Task : Submit(t)
  BY <1>1, <1>3 DEF Submit, unit
<1>4. CASE SetShutdown
  BY <1>1, <1>4, Zenon DEF SetShutdown, unit
<1>5. CASE NotifyAll
  BY <1>1, <1>5, Zenon DEF NotifyAll, unit
<1>6. CASE Join
  BY <1>1, <1>6, Zenon DEF Join, unit
<1>7. CASE Terminated
  BY <1>1, <1>7, Zenon DEF Terminated, unitVars, unit
<1> QED BY <1>2, <1>3, <1>4, <1>5, <1>6, <1>7, Zenon DEF NextUnit, MainStep

(* Whoever frees the token goes on to wake another worker.                 *)
LEMMA Tokens ==
  ASSUME UnitInv, NextUnit
  PROVE  TokenInv'
<1> USE DEF UnitInv, UnitTypeInv, MutexInv, ShutdownInv, TokenInv, Awake
<1>1. Worker \subseteq Nat \ {0} /\ INVALID_WORKER_ID \notin Worker /\ 1 \in Worker
  BY WorkerSets, Zenon
<1>2. ASSUME NEW w \in Worker, WorkerStep(w) PROVE TokenInv'
  <2>1. CASE CheckShutdown(w)
    BY <1>1, <2>1, Zenon DEF CheckShutdown, WorkerGoto, Continue, Asleep, unit
  <2>2. CASE TryAcquire(w)
    BY <1>1, <2>2, Zenon DEF TryAcquire, WorkerGoto, Continue, Asleep, unit
  <2>3. CASE Yield(w)
    BY <1>1, <2>3, Zenon DEF Yield, WorkerGoto, Continue, Asleep, unit
  <2>4. CASE Exit(w)
    BY <1>1, <2>4, Zenon DEF Exit, WorkerGoto, Continue, Asleep, unit
  <2>5. CASE Hibernate(w)
    BY <1>1, <2>5, Zenon DEF Hibernate, WorkerGoto, Continue, Asleep, unit
  <2>6. CASE WaitPredicate(w)
    BY <1>1, <2>6, Zenon DEF WaitPredicate, WorkerGoto, Continue, Asleep, unit
  <2>7. CASE Block(w)
    BY <1>1, <2>7, Zenon DEF Block, WorkerGoto, Continue, Asleep, unit
  <2>8. CASE WakeUp(w)
    BY <1>1, <2>8, Zenon DEF WakeUp, WorkerGoto, Continue, Asleep, unit
  <2>9. CASE WakeOrCreate(w)
    <3>1. num_hibernated = 0 => \A v \in Worker : worker_pc[v] \notin {"block", "asleep"}
      BY NoneHibernated, Zenon
    <3> QED BY <1>1, <2>9, <3>1, Zenon DEF WakeOrCreate, WorkerGoto, unit
  <2>10. CASE CreateWorker(w)
    BY <1>1, <2>10, Zenon DEF CreateWorker, WorkerGoto, Continue, Asleep, unit
  <2>11. CASE NotifyOne(w)
    BY <1>1, <2>11 DEF NotifyOne, WorkerGoto, Continue, Asleep, unit
  <2>12. CASE Pull(w)
    BY <1>1, <2>12, Zenon DEF Pull, WorkerGoto, Continue, Asleep, unit
  <2>13. CASE Execute(w)
    BY <1>1, <2>13, Zenon DEF Execute, WorkerGoto, Continue, Asleep, unit
  <2>14. CASE WaitForTasks(w)
    BY <1>1, <2>14, Zenon DEF WaitForTasks, WorkerGoto, Continue, Asleep, unit
  <2> QED BY <1>2, <2>1, <2>2, <2>3, <2>4, <2>5, <2>6, <2>7, <2>8, <2>9, <2>10, <2>11, <2>12, <2>13, <2>14, Zenon DEF WorkerStep
<1>3. CASE \E t \in Task : Submit(t)
  BY <1>1, <1>3, Zenon DEF Submit, unit
<1>4. CASE SetShutdown
  BY <1>1, <1>4, Zenon DEF SetShutdown, unit
<1>5. CASE NotifyAll
  BY <1>1, <1>5, Zenon DEF NotifyAll, unit
<1>6. CASE Join
  BY <1>1, <1>6, Zenon DEF Join, unit
<1>7. CASE Terminated
  BY <1>1, <1>7, Zenon DEF Terminated, unitVars, unit
<1> QED BY <1>2, <1>3, <1>4, <1>5, <1>6, <1>7, Zenon DEF NextUnit, MainStep

(* A worker that is not created yet does not run.                          *)
LEMMA NotCreated ==
  ASSUME UnitInv, NextUnit
  PROVE  \A v \in Worker : v > created' => worker_pc'[v] = "none"
<1> USE DEF UnitInv, UnitTypeInv, CountInv
<1>1. Worker \subseteq Nat \ {0} /\ INVALID_WORKER_ID \notin Worker /\ 1 \in Worker
  BY WorkerSets, Zenon
<1>2. ASSUME NEW w \in Worker, WorkerStep(w) PROVE \A v \in Worker : v > created' => worker_pc'[v] = "none"
  <2>1. CASE CheckShutdown(w)
    BY <1>1, <2>1, Zenon DEF CheckShutdown, WorkerGoto, Continue, Asleep, unit
  <2>2. CASE TryAcquire(w)
    BY <1>1, <2>2, Zenon DEF TryAcquire, WorkerGoto, Continue, Asleep, unit
  <2>3. CASE Yield(w)
    BY <1>1, <2>3, Zenon DEF Yield, WorkerGoto, Continue, Asleep, unit
  <2>4. CASE Exit(w)
    BY <1>1, <2>4, Zenon DEF Exit, WorkerGoto, Continue, Asleep, unit
  <2>5. CASE Hibernate(w)
    BY <1>1, <2>5, Zenon DEF Hibernate, WorkerGoto, Continue, Asleep, unit
  <2>6. CASE WaitPredicate(w)
    BY <1>1, <2>6, Zenon DEF WaitPredicate, WorkerGoto, Continue, Asleep, unit
  <2>7. CASE Block(w)
    BY <1>1, <2>7, Zenon DEF Block, WorkerGoto, Continue, Asleep, unit
  <2>8. CASE WakeUp(w)
    BY <1>1, <2>8, Zenon DEF WakeUp, WorkerGoto, Continue, Asleep, unit
  <2>9. CASE WakeOrCreate(w)
    BY <1>1, <2>9, Zenon DEF WakeOrCreate, WorkerGoto, Continue, Asleep, unit
  <2>10. CASE CreateWorker(w)
    BY <1>1, <2>10 DEF CreateWorker, WorkerGoto, Continue, Asleep, unit
  <2>11. CASE NotifyOne(w)
    BY <1>1, <2>11, Zenon DEF NotifyOne, WorkerGoto, Continue, Asleep, unit
  <2>12. CASE Pull(w)
    BY <1>1, <2>12, Zenon DEF Pull, WorkerGoto, Continue, Asleep, unit
  <2>13. CASE Execute(w)
    BY <1>1, <2>13, Zenon DEF Execute, WorkerGoto, Continue, Asleep, unit
  <2>14. CASE WaitForTasks(w)
    BY <1>1, <2>14, Zenon DEF WaitForTasks, WorkerGoto, Continue, Asleep, unit
  <2> QED BY <1>2, <2>1, <2>2, <2>3, <2>4, <2>5, <2>6, <2>7, <2>8, <2>9, <2>10, <2>11, <2>12, <2>13, <2>14, Zenon DEF WorkerStep
<1>3. CASE \E t \in Task : Submit(t)
  BY <1>1, <1>3, Zenon DEF Submit, unit
<1>4. CASE SetShutdown
  BY <1>1, <1>4, Zenon DEF SetShutdown, unit
<1>5. CASE NotifyAll
  BY <1>1, <1>5, Zenon DEF NotifyAll, unit
<1>6. CASE Join
  BY <1>1, <1>6, Zenon DEF Join, unit
<1>7. CASE Terminated
  BY <1>1, <1>7, Zenon DEF Terminated, unitVars, unit
<1> QED BY <1>2, <1>3, <1>4, <1>5, <1>6, <1>7, Zenon DEF NextUnit, MainStep

(* The counter changes together with the set that it counts.               *)
LEMMA Hibernates ==
  ASSUME UnitInv, NextUnit
  PROVE  HibernateStep
<1> USE DEF UnitInv, UnitTypeInv, CountInv, HibernateStep, Hibernated
<1>1. Worker \subseteq Nat \ {0} /\ INVALID_WORKER_ID \notin Worker /\ 1 \in Worker
  BY WorkerSets, Zenon
<1>2. ASSUME NEW w \in Worker, WorkerStep(w) PROVE HibernateStep
  <2>1. CASE CheckShutdown(w)
    BY <1>1, <2>1, Zenon DEF CheckShutdown, WorkerGoto, Continue, Asleep, unit
  <2>2. CASE TryAcquire(w)
    BY <1>1, <2>2, Zenon DEF TryAcquire, WorkerGoto, Continue, Asleep, unit
  <2>3. CASE Yield(w)
    BY <1>1, <2>3, Zenon DEF Yield, WorkerGoto, Continue, Asleep, unit
  <2>4. CASE Exit(w)
    BY <1>1, <2>4, Zenon DEF Exit, WorkerGoto, Continue, Asleep, unit
  <2>5. CASE Hibernate(w)
    BY <1>1, <2>5 DEF Hibernate, WorkerGoto, Continue, Asleep, unit
  <2>6. CASE WaitPredicate(w)
    BY <1>1, <2>6, Zenon DEF WaitPredicate, WorkerGoto, Continue, Asleep, unit
  <2>7. CASE Block(w)
    BY <1>1, <2>7, Zenon DEF Block, WorkerGoto, Continue, Asleep, unit
  <2>8. CASE WakeUp(w)
    BY <1>1, <2>8, Zenon DEF WakeUp, WorkerGoto, Continue, Asleep, unit
  <2>9. CASE WakeOrCreate(w)
    BY <1>1, <2>9, Zenon DEF WakeOrCreate, WorkerGoto, Continue, Asleep, unit
  <2>10. CASE CreateWorker(w)
    <3>1. created + 1 \in Worker => worker_pc[created + 1] = "none"
      BY <1>1
    <3>2. \A v \in Worker : worker_pc'[v] \in {"predicate", "block", "asleep", "woken"} <=> v \in Hibernated
      BY <1>1, <2>10, <3>1 DEF CreateWorker, Continue
    <3> QED BY <2>10, <3>2, Zenon DEF CreateWorker
  <2>11. CASE NotifyOne(w)
    BY <1>1, <2>11, Zenon DEF NotifyOne, WorkerGoto, Continue, Asleep, unit
  <2>12. CASE Pull(w)
    BY <1>1, <2>12, Zenon DEF Pull, WorkerGoto, Continue, Asleep, unit
  <2>13. CASE Execute(w)
    BY <1>1, <2>13, Zenon DEF Execute, WorkerGoto, Continue, Asleep, unit
  <2>14. CASE WaitForTasks(w)
    BY <1>1, <2>14, Zenon DEF WaitForTasks, WorkerGoto, Continue, Asleep, unit
  <2> QED BY <1>2, <2>1, <2>2, <2>3, <2>4, <2>5, <2>6, <2>7, <2>8, <2>9, <2>10, <2>11, <2>12, <2>13, <2>14, Zenon DEF WorkerStep
<1>3. CASE \E t \in Task : Submit(t)
  BY <1>1, <1>3, Zenon DEF Submit, unit
<1>4. CASE SetShutdown
  BY <1>1, <1>4, Zenon DEF SetShutdown, unit
<1>5. CASE NotifyAll
  BY <1>1, <1>5, Zenon DEF NotifyAll, unit
<1>6. CASE Join
  BY <1>1, <1>6, Zenon DEF Join, unit
<1>7. CASE Terminated
  BY <1>1, <1>7, Zenon DEF Terminated, unitVars, unit
<1> QED BY <1>2, <1>3, <1>4, <1>5, <1>6, <1>7, Zenon DEF NextUnit, MainStep

(* The counter, and the workers that are not created yet.                   *)
LEMMA Counts ==
  ASSUME UnitInv, NextUnit
  PROVE  CountInv'
<1>1. PICK w \in Worker :
        \/ num_hibernated' = num_hibernated /\ Hibernated' = Hibernated
        \/ num_hibernated' = num_hibernated + 1 /\ w \notin Hibernated /\ Hibernated' = Hibernated \cup {w}
        \/ num_hibernated' = num_hibernated - 1 /\ w \in Hibernated /\ Hibernated' = Hibernated \ {w}
  BY Hibernates, Zenon DEF HibernateStep
<1> QED BY <1>1, NotCreated, Counted, Zenon DEF CountInv, UnitInv

LEMMA UnitInit ==
  InitUnit => UnitInv
<1> SUFFICES ASSUME InitUnit PROVE UnitInv
  BY Zenon
<1>1. Worker \subseteq Nat \ {0} /\ INVALID_WORKER_ID \notin Worker /\ 1 \in Worker
  BY WorkerSets, Zenon
<1>2. UnitTypeInv
  BY <1>1, Zenon DEF InitUnit, UnitTypeInv, Pc
<1>3. \A w \in Worker : worker_pc[w] \in {"loop", "none"} /\ (w > 1 => worker_pc[w] = "none")
  BY <1>1 DEF InitUnit
<1>4. CountInv
  <2>1. Hibernated = {}
    BY <1>3, Zenon DEF Hibernated
  <2> QED BY <1>3, <2>1, FS_EmptySet, Zenon DEF InitUnit, CountInv
<1>5. MutexInv /\ ShutdownInv /\ TokenInv
  BY <1>1, <1>3, Zenon DEF InitUnit, MutexInv, ShutdownInv, TokenInv
<1> QED BY <1>2, <1>4, <1>5, Zenon DEF UnitInv

LEMMA UnitInvariance ==
  UnitSpec => []UnitInv
<1>1. UnitInv /\ [NextUnit]_unitVars => UnitInv'
  <2>1. ASSUME UnitInv, NextUnit PROVE UnitInv'
    BY <2>1, UnitTypes, Mutual, Shutdowns, Tokens, Counts, Zenon DEF UnitInv
  <2>2. ASSUME UnitInv, UNCHANGED unitVars PROVE UnitInv'
    <3>1. Hibernated' = Hibernated
      BY <2>2, Zenon DEF Hibernated, unitVars
    <3> QED BY <2>2, <3>1, Zenon DEF unitVars, unit, UnitInv, UnitTypeInv, MutexInv, CountInv, ShutdownInv, TokenInv
  <2> QED BY <2>1, <2>2, Zenon
<1>2. InitUnit => UnitInv
  BY UnitInit, Zenon
<1> QED BY <1>1, <1>2, PTL DEF UnitSpec

(* However workers wait for tasks, hibernate, wake each other and are       *)
(* created, there are never more than the limits allow, the number that     *)
(* wake_or_create_worker reads without the mutex is the number of workers   *)
(* between the increment and the decrement of hibernate_calling_worker, and *)
(* while the token is free and a worker sleeps, another worker is about to  *)
(* take it or to notify one that sleeps (yield_active_worker_token).        *)
THEOREM TokenHandedOn == UnitSpec => []TokenIsHandedOn
<1>1. UnitInv => WorkersAreCounted
  BY Zenon DEF UnitInv, UnitTypeInv, CountInv, WorkersAreCounted, Hibernated
<1>2. UnitInv => NoWakeupIsLost
  <2> SUFFICES ASSUME UnitInv, token = INVALID_WORKER_ID, NEW v \in Worker,
                      worker_pc[v] = "asleep", main # "notify"
               PROVE  \E w \in Worker : worker_pc[w] \in Awake
    BY Zenon DEF NoWakeupIsLost, Asleep, Awake
  <2> QED BY Zenon DEF UnitInv, TokenInv
<1>3. UnitInv => TokenIsHandedOn
  BY <1>1, <1>2, Zenon DEF TokenIsHandedOn
<1> QED BY <1>3, UnitInvariance, PTL

=============================================================================
