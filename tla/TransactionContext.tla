------------------------- MODULE TransactionContext -------------------------
(***************************************************************************)
(* One transaction: the tasks of its operators on the workers of the       *)
(* scheduler, and the client that waits for them and commits or rolls back. *)
(* A read-write operator that fails makes its own worker roll the          *)
(* transaction back, while the workers of other operators are wherever     *)
(* they are.  The phase is an atomic, the counter of active operators      *)
(* another; the list of registered operators is not protected.             *)
(*                                                                         *)
(* (transaction_context.cpp, operator_task.cpp, abstract_operator.cpp,     *)
(* abstract_read_write_operator.cpp.)                                      *)
(***************************************************************************)
EXTENDS Integers, Sequences, FiniteSets

CONSTANTS
  Op,           \* the operators, each with its task
  ReadWrite,    \* those that write (AbstractReadWriteOperator)
  Plans,        \* what a transaction may consist of: some of the operators, and
                \* for each of them the tasks its own task waits for
  Client,       \* the thread that scheduled them
  Commit        \* how a client may end the transaction: "auto" if it commits
                \* whatever happened (SQLPipelineStatement with _auto_commit)

ASSUME TransactionContextAssumption ==
  /\ ReadWrite \subseteq Op
  /\ Plans \subseteq UNION {[S -> SUBSET S] : S \in SUBSET Op}
  /\ Client \notin Op
  /\ Commit \subseteq {"auto", "explicit"}

VARIABLES
  phase,        \* TransactionContext::_phase
  num_active,   \* TransactionContext::_num_active_operators
  registered,   \* TransactionContext::_rw_operators
  state,        \* ReadWriteOperatorState of each operator
  pc,           \* where each task, and the client, is
  next,         \* the operator that a rollback or commit loop looks at
  failure,      \* "none", or the assertion that has failed
  predecessors, \* the plan and the way to end that this transaction has;
  commit        \* neither ever changes

given == <<predecessors, commit>>
vars == <<phase, num_active, registered, state, pc, next, failure, given>>

Thread == Op \cup {Client}

Init ==
  /\ phase = "Active"
  /\ num_active = 0
  /\ registered = <<>>
  /\ state = [o \in Op |-> "Pending"]
  /\ predecessors \in Plans
  /\ commit \in Commit
  /\ pc = [t \in Thread |-> CASE t = Client -> "wait_for_tasks"
                              [] t \in DOMAIN predecessors -> "scheduled"
                              [] OTHER -> "done"]
  /\ next = [t \in Thread |-> 1]
  /\ failure = "none"

Goto(t, from, to) == pc[t] = from /\ pc' = [pc EXCEPT ![t] = to]

(* A failed assertion throws; nothing catches it in a worker thread.       *)
Fails(assertion) == failure' = assertion

aborted == phase \in {"Aborted", "RolledBack"}

-----------------------------------------------------------------------------
(* OperatorTask::_on_execute, from its switch over the phase to execute().  *)

SkipOperator(o) ==
  /\ Goto(o, "scheduled", "done")
  /\ \A p \in predecessors[o] : pc[p] = "done"
  /\ aborted
  /\ IF o \in ReadWrite
     THEN IF state[o] \in {"Failed", "Executed"}
          THEN state' = [state EXCEPT ![o] = "RolledBack"] /\ UNCHANGED failure
          ELSE Fails("rollback_records in state Pending") /\ UNCHANGED state
     ELSE UNCHANGED <<state, failure>>
  /\ UNCHANGED <<phase, num_active, registered, next, given>>

(* Mutant: a task starts before its predecessors are done.                 *)
CheckPhaseEarly(o) ==
  /\ ~aborted
  /\ Goto(o, "scheduled", "execute")
  /\ IF phase = "Active" THEN UNCHANGED failure ELSE Fails("already committed")
  /\ UNCHANGED <<phase, num_active, registered, state, next, given>>

CheckPhase(o) ==
  /\ Goto(o, "scheduled", "execute")
  /\ \A p \in predecessors[o] : pc[p] = "done"
  /\ ~aborted
  /\ IF phase = "Active" THEN UNCHANGED failure ELSE Fails("already committed")
  /\ UNCHANGED <<phase, num_active, registered, state, next, given>>

(* AbstractOperator::execute.  An operator whose transaction was aborted   *)
(* since is not run, and counts as executed.                               *)
SkipExecute(o) ==
  /\ aborted
  /\ Goto(o, "execute", "done")
  /\ state' = [state EXCEPT ![o] = "Executed"]
  /\ UNCHANGED <<phase, num_active, registered, next, failure, given>>

CheckAborted(o) ==
  /\ ~aborted
  /\ Goto(o, "execute", "start")
  /\ UNCHANGED <<phase, num_active, registered, state, next, failure, given>>

OnOperatorStarted(o) ==
  /\ Goto(o, "start", IF o \in ReadWrite THEN "register" ELSE "running")
  /\ num_active' = num_active + 1
  /\ UNCHANGED <<phase, registered, state, next, failure, given>>

Register(o) ==
  /\ Goto(o, "register", "running")
  /\ registered' = Append(registered, o)
  /\ UNCHANGED <<phase, num_active, state, next, failure, given>>

(* The operator has done its work, or a read-write operator found a row    *)
(* locked by another transaction.                                          *)
Succeed(o) ==
  /\ Goto(o, "running", "finish")
  /\ UNCHANGED <<phase, num_active, registered, state, next, failure, given>>

ConflictFound(o) ==
  /\ o \in ReadWrite
  /\ Goto(o, "running", "finish")
  /\ state' = [state EXCEPT ![o] = "Failed"]
  /\ UNCHANGED <<phase, num_active, registered, next, failure, given>>

(* The last active operator notifies the thread that waits for it.         *)
OnOperatorFinished(o) ==
  /\ pc[o] = "finish"
  /\ num_active' = num_active - 1
  /\ pc' = [t \in Thread |->
              IF t = o THEN "executed"
              ELSE IF num_active = 1 /\ pc[t] = "asleep" THEN "predicate" ELSE pc[t]]
  /\ UNCHANGED <<phase, registered, state, next, failure, given>>

(* Mutant: the task of a failed operator does not look at the failure.     *)
ReturnWithoutRollback(o) ==
  /\ pc[o] = "executed"
  /\ pc' = [pc EXCEPT ![o] = "done"]
  /\ state' = [state EXCEPT ![o] = IF @ = "Failed" THEN @ ELSE "Executed"]
  /\ UNCHANGED <<phase, num_active, registered, next, failure, given>>

(* A failed operator's task calls TransactionContext::rollback.            *)
ReturnFromExecute(o) ==
  /\ pc[o] = "executed"
  /\ pc' = [pc EXCEPT ![o] = IF state[o] = "Failed" THEN "rollback" ELSE "done"]
  /\ state' = [state EXCEPT ![o] = IF @ = "Failed" THEN @ ELSE "Executed"]
  /\ UNCHANGED <<phase, num_active, registered, next, failure, given>>

-----------------------------------------------------------------------------
(* TransactionContext::rollback and commit, by a worker or the client.     *)

(* Mutant: the transition is a plain store.                                *)
AbortAnyway(t) ==
  /\ pc[t] = "rollback"
  /\ phase' = "Aborted"
  /\ pc' = [pc EXCEPT ![t] = "wait"]
  /\ UNCHANGED <<num_active, registered, state, next, failure, given>>

(* _transition to Aborted.  Only the first call goes on.                   *)
Abort(t) ==
  /\ pc[t] = "rollback"
  /\ \/ /\ phase = "Active"
        /\ phase' = "Aborted"
        /\ pc' = [pc EXCEPT ![t] = "wait"]
        /\ UNCHANGED failure
     \/ /\ phase # "Active"
        /\ pc' = [pc EXCEPT ![t] = "done"]
        /\ IF aborted THEN UNCHANGED failure ELSE Fails("Invalid phase transition")
        /\ UNCHANGED phase
  /\ UNCHANGED <<num_active, registered, state, next, given>>

PrepareCommit(t) ==
  /\ pc[t] = "commit"
  /\ \/ /\ phase = "Active"
        /\ phase' = "Committing"
        /\ pc' = [pc EXCEPT ![t] = "wait"]
        /\ IF \A i \in DOMAIN registered : state[registered[i]] = "Executed"
           THEN UNCHANGED failure ELSE Fails("All operators need to be Executed")
     \/ /\ phase # "Active"
        /\ pc' = [pc EXCEPT ![t] = "done"]
        /\ IF aborted THEN Fails("Invalid phase transition") ELSE UNCHANGED failure
        /\ UNCHANGED phase
  /\ UNCHANGED <<num_active, registered, state, next, given>>

Loop == IF phase = "Aborted" THEN "rolling_back" ELSE "committing"

(* _wait_for_active_operators_to_finish: the test before the wait ...      *)
NoneActive(t) ==
  /\ num_active = 0
  /\ Goto(t, "wait", Loop)
  /\ UNCHANGED <<phase, num_active, registered, state, next, failure, given>>

SomeActive(t) ==
  /\ num_active # 0
  /\ Goto(t, "wait", "predicate")
  /\ UNCHANGED <<phase, num_active, registered, state, next, failure, given>>

(* ... and the predicate of the condition variable, which lets the wait end *)
(* while operators are active.                                             *)
Predicate == num_active # 0

Wait(t) ==
  /\ pc[t] = "predicate"
  /\ pc' = [pc EXCEPT ![t] = IF Predicate THEN Loop ELSE "asleep"]
  /\ UNCHANGED <<phase, num_active, registered, state, next, failure, given>>

(* The loops over the registered operators.                                *)
RollbackRecords(t) ==
  /\ pc[t] = "rolling_back" /\ next[t] <= Len(registered)
  /\ LET o == registered[next[t]] IN
       IF state[o] \in {"Failed", "Executed"}
       THEN state' = [state EXCEPT ![o] = "RolledBack"] /\ UNCHANGED failure
       ELSE Fails("rollback_records in state Pending") /\ UNCHANGED state
  /\ next' = [next EXCEPT ![t] = @ + 1]
  /\ UNCHANGED <<phase, num_active, registered, pc, given>>

MarkAsRolledBack(t) ==
  /\ Goto(t, "rolling_back", "done") /\ next[t] > Len(registered)
  /\ phase' = "RolledBack"
  /\ UNCHANGED <<num_active, registered, state, next, failure, given>>

CommitRecords(t) ==
  /\ pc[t] = "committing" /\ next[t] <= Len(registered)
  /\ LET o == registered[next[t]] IN
       IF state[o] = "Executed"
       THEN state' = [state EXCEPT ![o] = "Committed"] /\ UNCHANGED failure
       ELSE Fails("commit_records before Executed") /\ UNCHANGED state
  /\ next' = [next EXCEPT ![t] = @ + 1]
  /\ UNCHANGED <<phase, num_active, registered, pc, given>>

(* The callback of CommitContext::make_pending.                            *)
MarkAsCommitted(t) ==
  /\ Goto(t, "committing", "done") /\ next[t] > Len(registered)
  /\ phase' = "Committed"
  /\ UNCHANGED <<num_active, registered, state, next, failure, given>>

-----------------------------------------------------------------------------

(* The client waits for the tasks.  With auto-commit it commits; otherwise  *)
(* it commits or rolls back a transaction that was not aborted.            *)
TasksDone ==
  /\ pc[Client] = "wait_for_tasks"
  /\ \A o \in Op : pc[o] = "done"
  /\ \/ (commit = "auto" \/ ~aborted) /\ pc' = [pc EXCEPT ![Client] = "commit"]
     \/ commit = "explicit" /\ ~aborted /\ pc' = [pc EXCEPT ![Client] = "rollback"]
     \/ commit = "explicit" /\ aborted /\ pc' = [pc EXCEPT ![Client] = "done"]
  /\ UNCHANGED <<phase, num_active, registered, state, next, failure, given>>

TaskStep(o) ==
  \/ SkipOperator(o) \/ CheckPhase(o) \/ SkipExecute(o) \/ CheckAborted(o)
  \/ OnOperatorStarted(o) \/ Register(o) \/ Succeed(o) \/ ConflictFound(o)
  \/ OnOperatorFinished(o) \/ ReturnFromExecute(o)

EndStep(t) ==
  \/ Abort(t) \/ PrepareCommit(t)
  \/ NoneActive(t) \/ SomeActive(t) \/ Wait(t)
  \/ RollbackRecords(t) \/ MarkAsRolledBack(t)
  \/ CommitRecords(t) \/ MarkAsCommitted(t)

(* Every thread is done, or the process ended with a failed assertion.     *)
Finished == (failure # "none" \/ \A t \in Thread : pc[t] = "done") /\ UNCHANGED vars

Next ==
  \/ /\ failure = "none"
     /\ \/ \E o \in Op : TaskStep(o)
        \/ \E t \in Thread : EndStep(t)
        \/ TasksDone
  \/ Finished

(* The workers and the client keep running.                                *)
Fairness ==
  /\ \A o \in Op : WF_vars(failure = "none" /\ (TaskStep(o) \/ EndStep(o)))
  /\ WF_vars(failure = "none" /\ (TasksDone \/ EndStep(Client)))

Spec == Init /\ [][Next]_vars
FairSpec == Spec /\ Fairness

-----------------------------------------------------------------------------

Executing(o) == pc[o] \in {"register", "running", "finish"}

Ending(t) == pc[t] \in {"wait", "predicate", "asleep", "rolling_back", "committing"}

(* At most one thread waits for the operators and commits or rolls them     *)
(* back, however many operators fail at once (_transition).                *)
OneThreadEnds == \A t, u \in Thread : Ending(t) /\ Ending(u) => t = u

(* A transaction with an operator that failed does not commit: its task     *)
(* has aborted the transaction before the client can commit.               *)
FailedNeverCommits ==
  (\E o \in Op : state[o] \in {"Failed", "RolledBack"}) => phase \notin {"Committing", "Committed"}

(* While a transaction is rolled back, none of its operators executes.      *)
(* (abstract_operator.cpp: "crucial in order to make sure no other tasks    *)
(* of the Transaction run while the Rollback happens".)                    *)
NoOperatorDuringRollback ==
  (\E t \in Thread : pc[t] = "rolling_back") => \A o \in Op : ~Executing(o)

(* The plan of one statement: its last task is the only one that writes.    *)
StatementPlan ==
  \E w \in ReadWrite : /\ DOMAIN predecessors \cap ReadWrite = {w}
                       /\ predecessors[w] = DOMAIN predecessors \ {w}

(* The tasks of one statement keep to that although the wait for active     *)
(* operators does not work: the write that fails is the last to execute.   *)
StatementRollbackIsAlone == StatementPlan => NoOperatorDuringRollback

(* The transaction of one statement that its client commits or rolls back   *)
(* reaches its end, and no assertion fails: the failed write's own task has *)
(* rolled it back, and the client notices.                                 *)
StatementEnds ==
  StatementPlan /\ commit = "explicit" =>
    <>(failure = "none" /\ \A t \in Thread : pc[t] = "done")

=============================================================================
