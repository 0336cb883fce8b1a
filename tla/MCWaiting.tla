------------------------------ MODULE MCWaiting ------------------------------
(* Threads that wait for one another at a condition variable: a rollback    *)
(* for the operators of its transaction, and the workers of one core for    *)
(* the active worker token.  The subject says which of the two a behaviour  *)
(* is about; it never changes.                                             *)
EXTENDS TransactionContext, ProcessingUnit, TLC

CONSTANTS
  Subjects,
  r1, r2, w1, w2,           \* operators
  q1, q2, q3, j1, j2        \* tasks

\* A statement: two operators read, a third writes what they return.
Statement == (r1 :> {}) @@ (r2 :> {}) @@ (w1 :> {r1, r2})

\* Tasks that were scheduled together.
Independent == (r1 :> {}) @@ (w1 :> {}) @@ (w2 :> {})

\* Two statements, one after the other.
Sequential == (w1 :> {}) @@ (w2 :> {w1})

AllPlans == {Statement, Independent, Sequential}
IndependentPlans == {Independent}

\* Two tasks, each of which waits for a job of its own, and one that waits for
\* nothing.
Spawned == (q1 :> {j1}) @@ (q2 :> {j2}) @@ (q3 :> {}) @@ (j1 :> {}) @@ (j2 :> {})
TaskPriority == [t \in DOMAIN Spawned |-> IF t \in {j1, j2} THEN 0 ELSE 2]

VARIABLE subject

all_vars == <<subject, vars, unitVars>>

\* No plan, and threads that have nothing to do.
InitNoTransaction ==
  /\ phase = "Active" /\ num_active = 0 /\ registered = <<>> /\ failure = "none"
  /\ state = [o \in Op |-> "Pending"]
  /\ predecessors = <<>> /\ commit = "explicit"
  /\ pc = [t \in Thread |-> "done"]
  /\ next = [t \in Thread |-> 1]

InitAll ==
  /\ subject \in Subjects
  /\ InitUnit
  /\ IF subject = "transaction" THEN Init ELSE InitNoTransaction

InTransaction(A) == subject = "transaction" /\ A /\ UNCHANGED <<subject, unitVars>>
InUnit(A) == subject = "unit" /\ A /\ UNCHANGED <<subject, vars>>

TransactionAction == subject = "transaction" /\ Next /\ UNCHANGED <<subject, unitVars>>
UnitAction == subject = "unit" /\ NextUnit /\ UNCHANGED <<subject, vars>>

NextAll == TransactionAction \/ UnitAction

SpecAll == InitAll /\ [][NextAll]_all_vars

\* The operating system runs every thread, and no worker, nor the main thread,
\* waits for ever for a mutex that the others release again and again.  Only the
\* mutex needs strong fairness.
FairSpecAll ==
  /\ SpecAll
  /\ \A o \in Op :
       WF_all_vars(InTransaction(failure = "none" /\ (TaskStep(o) \/ EndStep(o))))
  /\ WF_all_vars(InTransaction(failure = "none" /\ (TasksDone \/ EndStep(Client))))
  /\ WF_all_vars(InUnit(MainStep)) /\ SF_all_vars(InUnit(SetShutdown))
  /\ \A w \in Worker :
       /\ WF_all_vars(InUnit(WorkerStep(w)))
       /\ SF_all_vars(InUnit(LockStep(w)))

-----------------------------------------------------------------------------
\* Every task gets executed and finish() returns, if no worker always loses the
\* race for the token: a worker that waits "hands off the active worker token so
\* that another worker can execute tasks" (worker.hpp).
UnitFinishes == subject = "unit" => FinishReturns

=============================================================================
