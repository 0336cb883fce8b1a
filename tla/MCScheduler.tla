----------------------------- MODULE MCScheduler -----------------------------
(* A few tasks on two workers, on one NUMA node or on two. *)
EXTENDS Scheduler, TLC

CONSTANTS t1, t2, t3, t4, w1, w2, n1, n2

NoSpawn == [t \in Task |-> {}]
DefaultPriority == [t \in Task |-> 2]
OneNode == [w \in Worker |-> n1]
TwoNodes == (w1 :> n1) @@ (w2 :> n2)

\* A query plan: t1 feeds t2 and t3, which t4 joins.
Plan ==
  [successors |-> (t1 :> <<t2, t3>>) @@ (t2 :> <<t4>>) @@ (t3 :> <<t4>>) @@ (t4 :> <<>>),
   priority |-> DefaultPriority, stealable |-> Task, cleanup |-> Task,
   spawn |-> NoSpawn, node_of |-> OneNode]

\* t2 joins t1 with itself, and waits for the JobTasks t3 and t4.
Jobs ==
  [successors |-> (t1 :> <<t2, t2>>) @@ (t2 :> <<>>) @@ (t3 :> <<>>) @@ (t4 :> <<>>),
   priority |-> [t \in Task |-> IF t \in {t3, t4} THEN 0 ELSE 2],
   stealable |-> Task, cleanup |-> {t2},
   spawn |-> [t \in Task |-> IF t = t2 THEN {t3, t4} ELSE {}], node_of |-> TwoNodes]

\* The same, and t1 has to stay on its node.
BoundJobs == [Jobs EXCEPT !.stealable = Task \ {t1}]

PlanAndJobs == {Plan, Jobs, BoundJobs}

=============================================================================
