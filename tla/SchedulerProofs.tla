-------------------------- MODULE SchedulerProofs --------------------------
(***************************************************************************)
(* The scheduler executes every task at most once and only when its inputs *)
(* are there, for any tasks, workers, nodes and workloads: the steps that  *)
(* execute a task and call its successors keep the invariant too.          *)
(***************************************************************************)
EXTENDS SchedulerInvariant

\* A worker goes on to the successors of its task.
LEMMA OnExecuteDoneKeeps ==
  ASSUME Inv, NEW w \in Worker, OnExecuteDone(w), workload' = workload
  PROVE  Inv'
<1>t. Typed(w) /\ Fields(w) /\ Given
  BY Facts, Zenon DEF Thread
<1>3. /\ pc[w] = "cleanup" /\ pc' = [pc EXCEPT ![w] = "successors"]
      /\ UNCHANGED <<tasks, queues, num_finished, my>>
  BY Zenon DEF OnExecuteDone, Goto
<1>T. TypeInv'
  BY <1>t, <1>3, Zenon DEF Inv, Typed, Fields, TypeInv, Label, tasks
<1>L. LocalInv'
  BY <1>t, <1>3 DEF Inv, Typed, Fields, Given, LocalInv, ThreadAt, WorkerAt, tasks
<1>N. NoNewPlace
  BY <1>t, <1>3, Zenon DEF Inv, Typed, Fields, NoNewPlace
<1>S. SameFinishing
  BY <1>t, <1>3, Zenon DEF Inv, Typed, Fields, SameFinishing, Finishing, LocalInv, ThreadAt, WorkerAt, tasks
<1>P. PlaceInv'
  BY <1>3, <1>N, PlacesStay, Zenon DEF Inv, tasks
<1>O. OnceInv'
  BY <1>3, <1>N, OnceStays, Zenon DEF Inv, tasks
<1>C. CallInv' /\ OutputInv'
  BY <1>3, <1>S, CallsStay, Zenon DEF Inv, tasks
<1> QED BY <1>T, <1>L, <1>P, <1>O, <1>C, Zenon DEF Inv

\* A worker leaves the task it has finished.
LEMMA FinishedTaskKeeps ==
  ASSUME Inv, NEW w \in Worker, FinishedTask(w), workload' = workload
  PROVE  Inv'
<1>t. Typed(w) /\ Fields(w) /\ Given
  BY Facts, Zenon DEF Thread
<1>1. /\ pc[w] = "done" /\ pc' = [pc EXCEPT ![w] = "loop"]
      /\ UNCHANGED <<tasks, queues>>
  BY Zenon DEF FinishedTask, Goto
<1>2. num_finished' \in [Node -> Int]
  BY <1>t DEF FinishedTask, Inv, TypeInv, Given
<1>3. Becomes(w, [my[w] EXCEPT !.task = NoTask])
  BY Zenon DEF FinishedTask
<1>a. PICK r : r = [my[w] EXCEPT !.task = NoTask]
  BY Zenon
<1>b. my' = [my EXCEPT ![w] = r]
  BY <1>3, <1>a, Zenon DEF Becomes
<1>c. r \in Locals
  BY <1>a, <1>t, LocalsUpdates, Zenon DEF Typed, Fields
<1>d. /\ r.task = NoTask /\ r.job = my[w].job /\ r.node = my[w].node /\ r.priority = my[w].priority
      /\ r.caller = my[w].caller /\ r.inputs = my[w].inputs /\ r.next = my[w].next
  BY <1>a, <1>t, Zenon DEF Typed, Locals
<1>T. TypeInv'
  BY <1>t, <1>1, <1>2, <1>b, <1>c, <1>d, Zenon DEF Inv, Typed, Fields, TypeInv, Label, tasks
<1>L. LocalInv'
  BY <1>t, <1>1, <1>2, <1>b, <1>c, <1>d DEF Inv, Typed, Fields, Given, LocalInv, ThreadAt, WorkerAt, tasks
<1>N. NoNewPlace
  BY <1>t, <1>1, <1>2, <1>b, <1>c, <1>d, Zenon DEF Inv, Typed, Fields, NoNewPlace
<1>S. SameFinishing
  BY <1>t, <1>1, <1>2, <1>b, <1>c, <1>d DEF Inv, Typed, Fields, SameFinishing, Finishing, LocalInv, ThreadAt, WorkerAt, tasks
<1>P. PlaceInv'
  BY <1>1, <1>2, <1>b, <1>c, <1>d, <1>N, PlacesStay, Zenon DEF Inv, tasks
<1>O. OnceInv'
  BY <1>1, <1>2, <1>b, <1>c, <1>d, <1>N, OnceStays, Zenon DEF Inv, tasks
<1>C. CallInv' /\ OutputInv'
  BY <1>1, <1>2, <1>b, <1>c, <1>d, <1>S, CallsStay, Zenon DEF Inv, tasks
<1> QED BY <1>T, <1>L, <1>P, <1>O, <1>C, Zenon DEF Inv

\* A worker ends when the scheduler shuts down.
LEMMA LeaveLoopKeeps ==
  ASSUME Inv, NEW w \in Worker, LeaveLoop(w), workload' = workload
  PROVE  Inv'
<1>t. Typed(w) /\ Fields(w) /\ Given
  BY Facts, Zenon DEF Thread
<1>3. /\ pc[w] = "loop" /\ pc' = [pc EXCEPT ![w] = "exit"]
      /\ UNCHANGED <<tasks, queues, num_finished, my>>
  BY Zenon DEF LeaveLoop, Goto
<1>T. TypeInv'
  BY <1>t, <1>3, Zenon DEF Inv, Typed, Fields, TypeInv, Label, tasks
<1>L. LocalInv'
  BY <1>t, <1>3 DEF Inv, Typed, Fields, Given, LocalInv, ThreadAt, WorkerAt, tasks
<1>N. NoNewPlace
  BY <1>t, <1>3, Zenon DEF Inv, Typed, Fields, NoNewPlace
<1>S. SameFinishing
  BY <1>t, <1>3, Zenon DEF Inv, Typed, Fields, SameFinishing, Finishing, LocalInv, ThreadAt, WorkerAt, tasks
<1>P. PlaceInv'
  BY <1>3, <1>N, PlacesStay, Zenon DEF Inv, tasks
<1>O. OnceInv'
  BY <1>3, <1>N, OnceStays, Zenon DEF Inv, tasks
<1>C. CallInv' /\ OutputInv'
  BY <1>3, <1>S, CallsStay, Zenon DEF Inv, tasks
<1> QED BY <1>T, <1>L, <1>P, <1>O, <1>C, Zenon DEF Inv

\* finish() starts to count.
LEMMA StartCountKeeps ==
  ASSUME Inv, StartCount, workload' = workload
  PROVE  Inv'
<1>t. Typed(Main) /\ Fields(Main) /\ Given
  BY Facts, Zenon DEF Thread
<1>1. /\ pc[Main] = "schedule" /\ pc' = [pc EXCEPT ![Main] = "count"]
      /\ UNCHANGED <<tasks, queues, num_finished>>
  BY Zenon DEF StartCount, Goto
<1>2. Becomes(Main, [my[Main] EXCEPT !.seen = 0, !.unread = UsedNodes])
  BY Zenon DEF StartCount
<1>3. 0 \in Int /\ UsedNodes \subseteq Node
  BY <1>t DEF Given
<1>a. PICK r : r = [my[Main] EXCEPT !.seen = 0, !.unread = UsedNodes]
  BY Zenon
<1>b. my' = [my EXCEPT ![Main] = r]
  BY <1>2, <1>a, Zenon DEF Becomes
<1>c. r \in Locals
  BY <1>a, <1>t, LocalsUpdates, <1>3, Zenon DEF Typed, Fields
<1>d. /\ r.task = my[Main].task /\ r.job = my[Main].job /\ r.node = my[Main].node /\ r.priority = my[Main].priority
      /\ r.caller = my[Main].caller /\ r.inputs = my[Main].inputs /\ r.next = my[Main].next
  BY <1>a, <1>t, Zenon DEF Typed, Locals
<1>T. TypeInv'
  BY <1>t, <1>1, <1>b, <1>c, <1>d, Zenon DEF Inv, Typed, Fields, TypeInv, Label, tasks
<1>L. LocalInv'
  BY <1>t, <1>1, <1>b, <1>c, <1>d DEF Inv, Typed, Fields, Given, LocalInv, ThreadAt, WorkerAt, tasks
<1>N. NoNewPlace
  BY <1>t, <1>1, <1>b, <1>c, <1>d, Zenon DEF Inv, Typed, Fields, NoNewPlace
<1>S. SameFinishing
  BY <1>t, <1>1, <1>b, <1>c, <1>d DEF Inv, Typed, Fields, SameFinishing, Finishing, LocalInv, ThreadAt, WorkerAt, tasks
<1>P. PlaceInv'
  BY <1>1, <1>b, <1>c, <1>d, <1>N, PlacesStay, Zenon DEF Inv, tasks
<1>O. OnceInv'
  BY <1>1, <1>b, <1>c, <1>d, <1>N, OnceStays, Zenon DEF Inv, tasks
<1>C. CallInv' /\ OutputInv'
  BY <1>1, <1>b, <1>c, <1>d, <1>S, CallsStay, Zenon DEF Inv, tasks
<1> QED BY <1>T, <1>L, <1>P, <1>O, <1>C, Zenon DEF Inv

\* finish() counts the tasks finished on a node.
LEMMA CountFinishedKeeps ==
  ASSUME Inv, CountFinished, workload' = workload
  PROVE  Inv'
<1>t. Typed(Main) /\ Fields(Main) /\ Given
  BY Facts, Zenon DEF Thread
<1>1. PICK n \in my[Main].unread :
        Becomes(Main, [my[Main] EXCEPT !.unread = @ \ {n}, !.seen = @ + num_finished[n]])
  BY Zenon DEF CountFinished
<1>2. UNCHANGED <<tasks, queues, num_finished, pc>>
  BY Zenon DEF CountFinished
<1>3. my[Main].seen + num_finished[n] \in Int
  BY <1>t DEF Fields, Inv, TypeInv
<1>a. PICK r : r = [my[Main] EXCEPT !.seen = @ + num_finished[n], !.unread = @ \ {n}]
  BY Zenon
<1>b. my' = [my EXCEPT ![Main] = r]
  BY <1>1, <1>a, Zenon DEF Becomes
<1>c. r \in Locals
  BY <1>a, <1>t, LocalsUpdates, <1>3, Zenon DEF Typed, Fields
<1>d. /\ r.task = my[Main].task /\ r.job = my[Main].job /\ r.node = my[Main].node /\ r.priority = my[Main].priority
      /\ r.caller = my[Main].caller /\ r.inputs = my[Main].inputs /\ r.next = my[Main].next
  BY <1>a, <1>t, Zenon DEF Typed, Locals
<1>T. TypeInv'
  BY <1>t, <1>2, <1>b, <1>c, <1>d, Zenon DEF Inv, Typed, Fields, TypeInv, Label, tasks
<1>L. LocalInv'
  BY <1>t, <1>2, <1>b, <1>c, <1>d DEF Inv, Typed, Fields, Given, LocalInv, ThreadAt, WorkerAt, tasks
<1>N. NoNewPlace
  BY <1>t, <1>2, <1>b, <1>c, <1>d, Zenon DEF Inv, Typed, Fields, NoNewPlace
<1>S. SameFinishing
  BY <1>t, <1>2, <1>b, <1>c, <1>d, Zenon DEF Inv, Typed, Fields, SameFinishing, Finishing, LocalInv, ThreadAt, WorkerAt, tasks
<1>P. PlaceInv'
  BY <1>2, <1>b, <1>c, <1>d, <1>N, PlacesStay, Zenon DEF Inv, tasks
<1>O. OnceInv'
  BY <1>2, <1>b, <1>c, <1>d, <1>N, OnceStays, Zenon DEF Inv, tasks
<1>C. CallInv' /\ OutputInv'
  BY <1>2, <1>b, <1>c, <1>d, <1>S, CallsStay, Zenon DEF Inv, tasks
<1> QED BY <1>T, <1>L, <1>P, <1>O, <1>C, Zenon DEF Inv

\* finish() compares what it has counted.
LEMMA CompareKeeps ==
  ASSUME Inv, Compare, workload' = workload
  PROVE  Inv'
<1>t. Typed(Main) /\ Fields(Main) /\ Given
  BY Facts, Zenon DEF Thread
<1>1. PICK l : l = IF shutdown' THEN "join" ELSE "schedule"
  BY Zenon
<1>2. l \in {"join", "schedule"}
  BY <1>1, Zenon
<1>3. /\ pc[Main] = "count" /\ pc' = [pc EXCEPT ![Main] = l]
      /\ UNCHANGED <<tasks, queues, num_finished, my>>
  BY <1>1, Zenon DEF Compare
<1>T. TypeInv'
  BY <1>t, <1>2, <1>3, Zenon DEF Inv, Typed, Fields, TypeInv, Label, tasks
<1>L. LocalInv'
  BY <1>t, <1>2, <1>3 DEF Inv, Typed, Fields, Given, LocalInv, ThreadAt, WorkerAt, tasks
<1>N. NoNewPlace
  BY <1>t, <1>2, <1>3, Zenon DEF Inv, Typed, Fields, NoNewPlace
<1>S. SameFinishing
  BY <1>t, <1>2, <1>3, Zenon DEF Inv, Typed, Fields, SameFinishing, Finishing, LocalInv, ThreadAt, WorkerAt, tasks
<1>P. PlaceInv'
  BY <1>2, <1>3, <1>N, PlacesStay, Zenon DEF Inv, tasks
<1>O. OnceInv'
  BY <1>2, <1>3, <1>N, OnceStays, Zenon DEF Inv, tasks
<1>C. CallInv' /\ OutputInv'
  BY <1>2, <1>3, <1>S, CallsStay, Zenon DEF Inv, tasks
<1> QED BY <1>T, <1>L, <1>P, <1>O, <1>C, Zenon DEF Inv

\* finish() joins the workers.
LEMMA JoinKeeps ==
  ASSUME Inv, JoinWorkers, workload' = workload
  PROVE  Inv'
<1>t. Typed(Main) /\ Fields(Main) /\ Given
  BY Facts, Zenon DEF Thread
<1>3. /\ pc[Main] = "join" /\ pc' = [pc EXCEPT ![Main] = "down"]
      /\ UNCHANGED <<tasks, queues, num_finished, my>>
  BY Zenon DEF JoinWorkers, Goto
<1>T. TypeInv'
  BY <1>t, <1>3, Zenon DEF Inv, Typed, Fields, TypeInv, Label, tasks
<1>L. LocalInv'
  BY <1>t, <1>3 DEF Inv, Typed, Fields, Given, LocalInv, ThreadAt, WorkerAt, tasks
<1>N. NoNewPlace
  BY <1>t, <1>3, Zenon DEF Inv, Typed, Fields, NoNewPlace
<1>S. SameFinishing
  BY <1>t, <1>3, Zenon DEF Inv, Typed, Fields, SameFinishing, Finishing, LocalInv, ThreadAt, WorkerAt, tasks
<1>P. PlaceInv'
  BY <1>3, <1>N, PlacesStay, Zenon DEF Inv, tasks
<1>O. OnceInv'
  BY <1>3, <1>N, OnceStays, Zenon DEF Inv, tasks
<1>C. CallInv' /\ OutputInv'
  BY <1>3, <1>S, CallsStay, Zenon DEF Inv, tasks
<1> QED BY <1>T, <1>L, <1>P, <1>O, <1>C, Zenon DEF Inv

\* A task that a worker holds is executed for the first time.
LEMMA FirstExecution ==
  ASSUME Inv, NoNewPlace, NEW w \in Worker, pc[w] = "execute", workload' = workload,
         executions' = [executions EXCEPT ![my[w].task] = @ + 1],
         queues' = queues, enqueued' = enqueued, done' = done, pending' = pending
  PROVE  /\ my[w].task \in Task /\ executions[my[w].task] = 0
         /\ executions' \in [Task -> Nat] /\ OnceInv'
<1>t. Typed(w) /\ Fields(w)
  BY Facts, Zenon DEF Thread
<1>1. PICK t : t = my[w].task
  BY Zenon
<1>2. t \in Task /\ executions[t] = 0 /\ ~done[t] /\ enqueued[t]
  BY <1>1, <1>t, Zenon DEF Inv, LocalInv, ThreadAt, WorkerAt, OnceInv, Typed, Fields
<1>3. /\ executions' \in [Task -> Nat] /\ executions'[t] = 1
      /\ \A s \in Task \ {t} : executions'[s] = executions[s]
  BY <1>1, <1>2 DEF Inv, TypeInv
<1>4. \A th \in Thread : pc[th] = "enqueue" => my[th].job \in Task \ {t}
  BY <1>1, <1>2, <1>t, Zenon DEF Inv, LocalInv, ThreadAt, WorkerAt, PlaceInv, Typed
<1>5. \A n \in Node, p \in Priorities : Queued(n, p)' = Queued(n, p) /\ Queued(n, p) \subseteq Task \ {t}
  <2>1. \A n \in Node, p \in Priorities : Queued(n, p)' = Queued(n, p) /\ Queued(n, p) \subseteq Task
    BY QueuedAreTasks, Zenon DEF Inv, Queued
  <2> QED BY <1>1, <2>1 DEF Inv, PlaceInv
<1>6. OnceInv'
  <2>1. \A th \in Thread :
          pc'[th] = "enqueue" => enqueued[my'[th].job] /\ executions'[my'[th].job] = 0
    BY <1>3, <1>4 DEF Inv, OnceInv, NoNewPlace
  <2>2. \A v \in Worker : my'[v].task # NoTask => enqueued[my'[v].task]
    BY Zenon DEF Inv, OnceInv, NoNewPlace
  <2>3. \A n \in Node, p \in Priorities : \A x \in Queued(n, p)' :
          enqueued[x] /\ executions'[x] = 0
    BY <1>3, <1>5 DEF Inv, OnceInv
  <2>4. \A s \in Task :
          /\ executions'[s] <= 1
          /\ executions'[s] = 1 => enqueued[s]
          /\ done[s] => executions'[s] = 1
          /\ enqueued[s] => pending[s] = 0
    BY <1>2, <1>3 DEF Inv, OnceInv
  <2> QED BY <2>1, <2>2, <2>3, <2>4 DEF OnceInv
<1> QED BY <1>1, <1>2, <1>3, <1>6, Zenon

\* A worker is through with the operator of its task.
LEMMA OperatorDoneKeeps ==
  ASSUME Inv, NEW w \in Worker, pc[w] \in {"execute", "schedule"}, workload' = workload,
         my[w].task \in Task, OperatorDone(w, my[w].task), executions' \in [Task -> Nat],
         executions'[my[w].task] = 1,
         \A s \in Task \ {my[w].task} : executions'[s] = executions[s],
         UNCHANGED <<pending, enqueued, done, queues, num_finished>>
  PROVE  TypeInv' /\ LocalInv' /\ NoNewPlace /\ CallInv' /\ OutputInv'
<1>t. Typed(w) /\ Fields(w) /\ Given
  BY Facts, Zenon DEF Thread
<1>1. PICK t, i : t = my[w].task /\ i = IF t \in Cleanup THEN Predecessors(t) ELSE {}
  BY Zenon
<1>2. t \in Task /\ i \subseteq Predecessors(t) /\ i \subseteq Task /\ 1 \in Nat \ {0}
  BY <1>1 DEF Predecessors
<1>3. Becomes(w, [my[w] EXCEPT !.inputs = i, !.next = 1])
  BY <1>1, Zenon DEF OperatorDone
<1>4. pc' = [pc EXCEPT ![w] = "cleanup"] /\ output' = [output EXCEPT ![t] = "present"]
  BY <1>1, Zenon DEF OperatorDone
<1>5. ~done[t] /\ ~Finishing(w)
  BY <1>1, <1>2, <1>t, Zenon DEF Inv, LocalInv, ThreadAt, WorkerAt, Finishing, Typed
<1>a. PICK r : r = [my[w] EXCEPT !.inputs = i, !.next = 1]
  BY Zenon
<1>b. my' = [my EXCEPT ![w] = r]
  BY <1>3, <1>a, Zenon DEF Becomes
<1>c. r \in Locals
  BY <1>a, <1>t, LocalsUpdates, <1>2, Zenon DEF Typed, Fields
<1>d. /\ r.task = my[w].task /\ r.job = my[w].job /\ r.node = my[w].node /\ r.priority = my[w].priority
      /\ r.caller = my[w].caller /\ r.inputs = i /\ r.next = 1
  BY <1>a, <1>t, Zenon DEF Typed, Locals
<1>6. /\ my'[w] = r /\ pc'[w] = "cleanup"
      /\ \A v \in Thread \ {w} : my'[v] = my[v] /\ pc'[v] = pc[v]
      /\ \A v \in Worker \ {w} : my[v].task # t
  BY <1>t, <1>1, <1>2, <1>4, <1>b, Zenon DEF Inv, PlaceInv, Typed
<1>T. TypeInv'
  BY <1>t, <1>2, <1>4, <1>b, <1>c, Zenon DEF Inv, Typed, TypeInv, Label
<1>L. LocalInv'
  <2>1. \A v \in Worker : my[v].task \in Task \cup {NoTask}
    BY <1>t, Zenon DEF Typed, Locals
  <2>2. \A v \in Worker \ {w} : my[v].task # NoTask => executions'[my[v].task] = executions[my[v].task]
    BY <1>1, <1>6, <2>1, Zenon
  <2>3. \A u \in Thread : ThreadAt(u)'
    BY <1>t, <1>6, <1>d DEF Inv, Typed, LocalInv, ThreadAt
  <2>4. \A v \in Worker \ {w} : WorkerAt(v)'
    BY <1>t, <1>2, <1>5, <1>6, <2>2, WorkerStays, Zenon DEF Thread
  <2>5. WorkerAt(w)'
    BY <1>t, <1>1, <1>2, <1>5, <1>6, <1>d, Zenon DEF Typed, Given, WorkerAt
  <2> QED BY <2>3, <2>4, <2>5, Zenon DEF LocalInv
<1>N. NoNewPlace
  BY <1>t, <1>6, <1>d, Zenon DEF NoNewPlace, Typed
<1>7. \A v \in Worker \ {w} : Finishing(v)' <=> Finishing(v)
  BY <1>6, <1>t, Zenon DEF Finishing, Typed
<1>8. \A s : Finished(s)' <=> Finished(s) \/ s = t
  <2>1. Finishing(w)' /\ my'[w].task = t
    BY <1>1, <1>6, <1>d, Zenon DEF Finishing
  <2> QED BY <1>t, <1>5, <1>6, <1>7, <2>1, Zenon DEF Finished, Typed
<1>9. \A p \in Task : \A k \in 1..Len(Successors[p]) : Called(<<p, k>>)' <=> Called(<<p, k>>)
  <2> TAKE p \in Task
  <2> TAKE k \in 1..Len(Successors[p])
  <2>1. ~(k < my'[w].next)
    BY <1>6, <1>d
  <2> QED BY <1>t, <1>5, <1>6, <1>7, <2>1, Zenon DEF Called, Typed
<1>C. CallInv'
  BY <1>9, NoCallMade, Zenon DEF Inv, TypeInv
<1>O. OutputInv'
  <2>1. output \in [Task -> {"none", "present", "cleared"}]
    BY Zenon DEF Inv, TypeInv
  <2>2. output'[t] = "present" /\ \A s \in Task \ {t} : output'[s] = output[s]
    BY <1>2, <1>4, <2>1, Zenon
  <2>3. Successors' = Successors
    BY <1>t, Zenon DEF Given
  <2> QED BY <1>8, <2>2, <2>3, Zenon DEF Inv, OutputInv
<1> QED BY <1>T, <1>L, <1>N, <1>C, <1>O, Zenon

\* A worker executes its task: it schedules other tasks or goes through at once.
LEMMA ExecuteKeeps ==
  ASSUME Inv, NEW w \in Worker, Execute(w), workload' = workload
  PROVE  Inv'
<1>t. Typed(w) /\ Fields(w) /\ Given
  BY Facts, Zenon DEF Thread
<1>1. PICK t : t = my[w].task
  BY Zenon
<1>2. pc[w] = "execute" /\ executions' = [executions EXCEPT ![t] = @ + 1]
  BY <1>1, Zenon DEF Execute
<1>3. UNCHANGED <<pending, enqueued, done, queues, num_finished>>
  BY Zenon DEF Execute
<1>4. t \in Task /\ executions[t] = 0
  BY <1>1, <1>2, <1>t, Zenon DEF Inv, LocalInv, ThreadAt, WorkerAt, Typed, Fields
<1>5. /\ executions' \in [Task -> Nat] /\ executions'[t] = 1
      /\ \A s \in Task \ {t} : executions'[s] = executions[s]
  BY <1>2, <1>4 DEF Inv, TypeInv
<1>6. CASE Spawn[t] = {}
  <2>1. OperatorDone(w, t)
    BY <1>1, <1>6, Zenon DEF Execute
  <2>2. TypeInv' /\ LocalInv' /\ NoNewPlace /\ CallInv' /\ OutputInv'
    BY <1>1, <1>2, <1>3, <1>4, <1>5, <2>1, OperatorDoneKeeps, Zenon
  <2>3. PlaceInv'
    BY <1>3, <2>2, PlacesStay, Zenon DEF Inv
  <2>4. OnceInv'
    BY <1>1, <1>2, <1>3, <2>2, FirstExecution, Zenon
  <2> QED BY <2>2, <2>3, <2>4, Zenon DEF Inv
<1>7. CASE Spawn[t] # {}
  <2>1. Becomes(w, [my[w] EXCEPT !.todo = Spawn[t]])
    BY <1>1, <1>7, Zenon DEF Execute
  <2>2. pc' = [pc EXCEPT ![w] = "schedule"] /\ UNCHANGED output
    BY <1>1, <1>7, Zenon DEF Execute
  <2>3. Spawn[t] \subseteq Task
    BY <1>4, <1>t, Zenon DEF Given
  <2>a. PICK r : r = [my[w] EXCEPT !.todo = Spawn[t]]
    BY Zenon
  <2>b. my' = [my EXCEPT ![w] = r]
    BY <2>1, <2>a, Zenon DEF Becomes
  <2>c. r \in Locals
    BY <2>a, <1>t, LocalsUpdates, <2>3, Zenon DEF Typed, Fields
  <2>d. /\ r.task = my[w].task /\ r.job = my[w].job /\ r.node = my[w].node /\ r.priority = my[w].priority
        /\ r.caller = my[w].caller /\ r.inputs = my[w].inputs /\ r.next = my[w].next
    BY <2>a, <1>t, Zenon DEF Typed, Locals
  <2>4. \A v \in Worker \ {w} : my[v].task \in (Task \ {t}) \cup {NoTask}
    BY <1>t, <1>1, <1>4, Zenon DEF Inv, PlaceInv, Typed, Locals
  <2>5. NoNewPlace
    BY <1>t, <2>2, <2>b, <2>c, <2>d, Zenon DEF NoNewPlace, Typed
  <2>6. OnceInv'
    BY <1>1, <1>2, <1>3, <2>5, FirstExecution, Zenon
  <2>7. PlaceInv'
    BY <1>3, <2>5, PlacesStay, Zenon DEF Inv
  <2>8. /\ my'[w] = r /\ pc'[w] = "schedule"
        /\ \A v \in Thread \ {w} : my'[v] = my[v] /\ pc'[v] = pc[v]
    BY <1>t, <2>2, <2>b, Zenon DEF Typed
  <2>9. \A v \in Worker \ {w} : my[v].task # NoTask => executions'[my[v].task] = executions[my[v].task]
    BY <1>5, <2>4, Zenon
  <2>10. TypeInv'
    BY <1>t, <1>3, <1>5, <2>2, <2>b, <2>c, Zenon DEF Inv, Typed, TypeInv, Label
  <2>11. LocalInv'
    <3>1. \A u \in Thread : ThreadAt(u)'
      BY <1>t, <1>3, <2>8, <2>d DEF Inv, Typed, LocalInv, ThreadAt
    <3>2. \A v \in Worker \ {w} : WorkerAt(v)'
      BY <1>t, <1>3, <2>8, <2>9, WorkerStays, Zenon DEF Thread
    <3>3. WorkerAt(w)'
      BY <1>t, <1>1, <1>2, <1>3, <1>4, <1>5, <2>8, <2>d DEF Inv, Typed, LocalInv, WorkerAt
    <3> QED BY <3>1, <3>2, <3>3, Zenon DEF LocalInv
  <2>12. SameFinishing
    BY <1>t, <1>2, <1>3, <2>8, <2>d, Zenon DEF Inv, Typed, SameFinishing, Finishing
  <2>13. CallInv' /\ OutputInv'
    BY <1>3, <2>2, <2>12, CallsStay, Zenon DEF Inv
  <2> QED BY <2>6, <2>7, <2>10, <2>11, <2>13, Zenon DEF Inv
<1> QED BY <1>6, <1>7, Zenon

\* The tasks that a worker waits for are done.
LEMMA TasksJoinedKeeps ==
  ASSUME Inv, NEW w \in Worker, TasksJoined(w), workload' = workload
  PROVE  Inv'
<1>t. Typed(w) /\ Fields(w) /\ Given
  BY Facts, Zenon DEF Thread
<1>1. /\ pc[w] = "schedule" /\ OperatorDone(w, my[w].task)
      /\ UNCHANGED <<pending, enqueued, executions, done, queues, num_finished>>
  BY Zenon DEF TasksJoined
<1>2. my[w].task \in Task /\ executions \in [Task -> Nat] /\ executions[my[w].task] = 1
  BY <1>1, <1>t, Zenon DEF Inv, TypeInv, LocalInv, WorkerAt, Fields
<1>3. TypeInv' /\ LocalInv' /\ NoNewPlace /\ CallInv' /\ OutputInv'
  BY <1>1, <1>2, OperatorDoneKeeps, Zenon
<1>4. PlaceInv' /\ OnceInv'
  BY <1>1, <1>3, PlacesStay, OnceStays, Zenon DEF Inv
<1> QED BY <1>3, <1>4, Zenon DEF Inv

\* A worker clears an input of its task that no other successor needs.
LEMMA ClearInputKeeps ==
  ASSUME Inv, NEW w \in Worker, ClearInput(w), workload' = workload
  PROVE  Inv'
<1>t. Typed(w) /\ Fields(w) /\ Given
  BY Facts, Zenon DEF Thread
<1>1. PICK p \in my[w].inputs :
        /\ Becomes(w, [my[w] EXCEPT !.inputs = @ \ {p}])
        /\ output' = [output EXCEPT ![p] = IF StillNeeded(p, my[w].task) THEN @ ELSE "cleared"]
  BY Zenon DEF ClearInput
<1>2. pc[w] = "cleanup" /\ UNCHANGED <<pending, enqueued, executions, done, queues, num_finished, pc>>
  BY Zenon DEF ClearInput
<1>3. p \in Task /\ output \in [Task -> {"none", "present", "cleared"}]
  BY <1>t, Zenon DEF Fields, Inv, TypeInv
<1>4. /\ output' \in [Task -> {"none", "present", "cleared"}]
      /\ output[p] # "none" => output'[p] # "none"
      /\ output'[p] = "cleared" => output[p] = "cleared" \/ ~StillNeeded(p, my[w].task)
      /\ \A s \in Task \ {p} : output'[s] = output[s]
  BY <1>1, <1>3, Zenon
<1>a. PICK r : r = [my[w] EXCEPT !.inputs = @ \ {p}]
  BY Zenon
<1>b. my' = [my EXCEPT ![w] = r]
  BY <1>1, <1>a, Zenon DEF Becomes
<1>c. r \in Locals
  BY <1>a, <1>t, LocalsUpdates, Zenon DEF Typed, Fields
<1>d. /\ r.task = my[w].task /\ r.job = my[w].job /\ r.node = my[w].node /\ r.priority = my[w].priority
      /\ r.caller = my[w].caller /\ r.inputs = my[w].inputs \ {p} /\ r.next = my[w].next
  BY <1>a, <1>t, Zenon DEF Typed, Locals
<1>5. Finished(my[w].task)
  BY <1>2, Zenon DEF Finished, Finishing
<1>T. TypeInv'
  BY <1>t, <1>2, <1>4, <1>b, <1>c, <1>d, Zenon DEF Inv, Typed, Fields, TypeInv, Label, tasks
<1>L. LocalInv'
  <2>1. \A u \in Thread : ThreadAt(u)'
    BY <1>t, <1>2, <1>4, <1>b, <1>c, <1>d DEF Inv, Typed, Fields, LocalInv, ThreadAt, tasks
  <2>2. \A v \in Worker \ {w} : WorkerAt(v)'
    BY <1>t, <1>2, <1>4, <1>b, WorkerStays, Zenon DEF Typed, Thread, tasks
  <2>3. WorkerAt(w)'
    BY <1>t, <1>2, <1>4, <1>b, <1>c, <1>d DEF Inv, Typed, Given, LocalInv, WorkerAt, tasks
  <2> QED BY <2>1, <2>2, <2>3 DEF LocalInv
<1>N. NoNewPlace
  BY <1>t, <1>2, <1>4, <1>b, <1>c, <1>d, Zenon DEF Inv, Typed, Fields, NoNewPlace
<1>S. SameFinishing
  BY <1>t, <1>2, <1>4, <1>b, <1>c, <1>d, Zenon DEF Inv, Typed, Fields, SameFinishing, Finishing, LocalInv, ThreadAt, WorkerAt, tasks
<1>P. PlaceInv'
  BY <1>2, <1>4, <1>b, <1>c, <1>d, <1>N, PlacesStay, Zenon DEF Inv, tasks
<1>O. OnceInv'
  BY <1>2, <1>4, <1>b, <1>c, <1>d, <1>N, OnceStays, Zenon DEF Inv, tasks
<1>6. Successors' = Successors
  BY <1>t, Zenon DEF Given
<1>7. \A s : Finished(s)' <=> Finished(s)
  BY <1>S, FinishedStays, Zenon
<1>8. CallInv'
  <2>1. \A e : Called(e)' <=> Called(e)
    BY <1>S, FinishedStays, Zenon
  <2> QED BY <1>2, <2>1, NoCallMade, Zenon DEF Inv, TypeInv
<1>9. OutputInv'
  <2>1. \A t \in Task : Finished(t) => output'[t] # "none"
    BY <1>4, Zenon DEF Inv, OutputInv
  <2>2. ASSUME ~StillNeeded(p, my[w].task) PROVE \A s \in Range(Successors[p]) : Finished(s)
    BY <2>2, <1>5, Zenon DEF StillNeeded, Finished
  <2>3. ASSUME NEW t \in Task, output'[t] = "cleared"
        PROVE  \A s \in Range(Successors[t]) : Finished(s)
    BY <2>2, <2>3, <1>4, Zenon DEF Inv, OutputInv
  <2> QED BY <2>1, <2>3, <1>6, <1>7, Zenon DEF OutputInv
<1>C. CallInv' /\ OutputInv'
  BY <1>8, <1>9, Zenon
<1> QED BY <1>T, <1>L, <1>P, <1>O, <1>C, Zenon DEF Inv

\* A worker has called the last successor, and its task is done.
LEMMA SetDoneKeeps ==
  ASSUME Inv, NEW w \in Worker, SetDone(w), workload' = workload
  PROVE  Inv'
<1>t. Typed(w) /\ Fields(w) /\ Given
  BY Facts, Zenon DEF Thread
<1>1. PICK t : t = my[w].task
  BY Zenon
<1>2. /\ pc[w] = "successors" /\ pc' = [pc EXCEPT ![w] = "done"]
      /\ done' = [done EXCEPT ![t] = TRUE] /\ my[w].next > Len(Successors[t])
      /\ UNCHANGED <<pending, enqueued, executions, output, queues, num_finished, my>>
  BY <1>1, Zenon DEF SetDone, Goto
<1>3. t \in Task
  BY <1>1, <1>2, <1>t, Zenon DEF Inv, LocalInv, WorkerAt, Fields
<1>4. /\ done' \in [Task -> BOOLEAN] /\ done'[t] /\ \A s \in Task \ {t} : done'[s] = done[s]
      /\ \A s \in Task : done[s] => done'[s]
  BY <1>2, <1>3, Zenon DEF Inv, TypeInv
<1>5. pc'[w] = "done" /\ \A v \in Thread \ {w} : pc'[v] = pc[v]
  BY <1>t, <1>2, Zenon DEF Typed
<1>6. \A v \in Worker : my[v].task \in Task \cup {NoTask} /\ (my[v].task = t => v = w)
  BY <1>1, <1>3, <1>t, Zenon DEF Inv, PlaceInv, Typed, Locals
<1>7. executions[t] = 1 /\ pending' = pending
  BY <1>1, <1>2, Zenon DEF Inv, LocalInv, WorkerAt
<1>T. TypeInv'
  BY <1>t, <1>2, <1>4, Zenon DEF Inv, Typed, TypeInv, Label
<1>L. LocalInv'
  <2>1. \A u \in Thread : ThreadAt(u)'
    BY <1>t, <1>2, <1>5, Zenon DEF Inv, LocalInv, ThreadAt, Typed
  <2>2. \A v \in Worker \ {w} : WorkerAt(v)'
    BY <1>t, <1>2, <1>4, <1>5, <1>6, WorkerStays, Zenon DEF Thread
  <2>3. WorkerAt(w)'
    BY <1>t, <1>1, <1>2, <1>3, <1>4, <1>5, <1>7, Zenon DEF WorkerAt, Typed
  <2> QED BY <2>1, <2>2, <2>3, Zenon DEF LocalInv
<1>N. NoNewPlace
  BY <1>t, <1>2, <1>5, Zenon DEF NoNewPlace, Typed
<1>P. PlaceInv'
  BY <1>2, <1>N, PlacesStay, Zenon DEF Inv
<1>O. OnceInv'
  <2>1. \A th \in Thread : pc'[th] = "enqueue" => enqueued[my'[th].job] /\ executions[my'[th].job] = 0
    BY <1>N DEF Inv, OnceInv, NoNewPlace
  <2>2. \A v \in Worker : my'[v].task # NoTask => enqueued[my'[v].task]
    BY <1>N, Zenon DEF Inv, OnceInv, NoNewPlace
  <2>3. \A n, p : Queued(n, p)' = Queued(n, p)
    BY <1>2, Zenon DEF Queued
  <2>4. \A x \in Task : done'[x] => executions[x] = 1
    BY <1>4, <1>7, Zenon DEF Inv, OnceInv
  <2> QED BY <1>2, <2>1, <2>2, <2>3, <2>4 DEF Inv, OnceInv
<1>8. (\A v \in Worker : Finishing(v)' <=> Finishing(v)) /\ Finishing(w)
  BY <1>t, <1>2, <1>5, Zenon DEF Finishing, Typed
<1>9. \A x \in Task : Finished(x)' <=> Finished(x)
  BY <1>1, <1>2, <1>3, <1>4, <1>8, Zenon DEF Finished
<1>10. \A p \in Task : \A k \in 1..Len(Successors[p]) : Called(<<p, k>>)' <=> Called(<<p, k>>)
  <2> TAKE p \in Task
  <2> TAKE k \in 1..Len(Successors[p])
  <2>1. CASE p = t
    <3>1. k < my[w].next
      <4>1. Len(Successors[t]) \in Nat /\ my[w].next \in Nat
        BY <1>3, <1>t DEF Given, Fields
      <4> QED BY <1>2, <2>1, <4>1
    <3>2. Called(<<p, k>>)
      BY <1>1, <1>8, <2>1, <3>1, Zenon DEF Called
    <3>3. Called(<<p, k>>)'
      BY <1>4, <2>1, Zenon DEF Called
    <3> QED BY <3>2, <3>3, Zenon
  <2>2. CASE p # t
    BY <1>2, <1>4, <1>8, <2>2, Zenon DEF Called
  <2> QED BY <2>1, <2>2, Zenon
<1>11. CallInv'
  BY <1>7, <1>10, NoCallMade, Zenon DEF Inv, TypeInv
<1>12. OutputInv'
  <2>1. \A p \in Task : Range(Successors[p]) \subseteq Task
    BY <1>t DEF Given, Range
  <2> QED BY <1>t, <1>2, <1>9, <2>1, Zenon DEF Inv, OutputInv, Given
<1> QED BY <1>T, <1>L, <1>P, <1>O, <1>11, <1>12, Zenon DEF Inv

-----------------------------------------------------------------------------
(* The count of the calls that a task waits for, which needs the theorems  *)
(* about finite sets.                                                      *)

INSTANCE FiniteSetTheorems

\* There are finitely many calls.
LEMMA CallsFinite ==
  ASSUME workload \in Workloads, NEW t \in Task
  PROVE  IsFiniteSet(CallsTo(t))
<1>1. Successors \in [Task -> Seq(Task)]
  BY WorkloadType, Zenon
<1> DEFINE Of(p) == {p} \X DOMAIN Successors[p]
           All == UNION {Of(p) : p \in Task}
<1>2. \A p \in Task : IsFiniteSet(Of(p))
  <2> TAKE p \in Task
  <2>1. Successors[p] \in Seq(Task)
    BY <1>1, Zenon
  <2>2. PICK n : n = Len(Successors[p])
    BY Zenon
  <2>3. n \in Nat /\ DOMAIN Successors[p] = 1..n
    BY <2>1, <2>2
  <2>4. IsFiniteSet(1..n)
    BY <2>3, FS_Interval
  <2>5. IsFiniteSet({p})
    BY FS_Singleton, Zenon
  <2> QED BY <2>3, <2>4, <2>5, FS_Product, Zenon
<1>3. IsFiniteSet({Of(p) : p \in Task})
  <2>1. [p \in Task |-> Of(p)] \in Surjection(Task, {Of(p) : p \in Task})
    BY Zenon DEF Surjection
  <2> QED BY <2>1, SchedulerAssumption, FS_Surjection, Zenon
<1>4. IsFiniteSet(All)
  BY <1>2, <1>3, FS_UNION, Zenon
<1>5. CallsTo(t) \subseteq All
  BY Zenon DEF CallsTo
<1> QED BY <1>4, <1>5, FS_Subset, Zenon

\* A worker that calls the next successor of its task makes a call that nobody
\* has made.
LEMMA CallIsNew ==
  ASSUME TypeInv, LocalInv, PlaceInv, CallInv, NEW w \in Worker, pc[w] = "successors",
         my[w].next <= Len(Successors[my[w].task])
  PROVE  /\ my[w].task \in Task /\ Successors[my[w].task][my[w].next] \in Task
         /\ <<my[w].task, my[w].next>> \in Uncalled(Successors[my[w].task][my[w].next])
         /\ pending[Successors[my[w].task][my[w].next]] \in Nat \ {0}
<1> DEFINE p == my[w].task
           i == my[w].next
           s == Successors[p][i]
<1>1. Successors \in [Task -> Seq(Task)]
  BY WorkloadType, Zenon DEF TypeInv
<1>2. w \in Thread /\ my[w] \in Locals
  BY Zenon DEF TypeInv, Thread
<1>3. p \in Task /\ i \in Nat \ {0} /\ ~done[p]
  BY <1>2, Zenon DEF Locals, LocalInv, ThreadAt, WorkerAt
<1>4. i \in 1..Len(Successors[p]) /\ s \in Task
  BY <1>1, <1>3
<1>5. <<p, i>> \in CallsTo(s)
  BY <1>3, <1>4, CallsType, Zenon DEF TypeInv
<1>6. ~Called(<<p, i>>)
  <2>1. ASSUME NEW v \in Worker, my[v].task = p PROVE v = w
    BY <2>1, <1>3, SchedulerAssumption, Zenon DEF PlaceInv
  <2> QED BY <2>1, <1>3 DEF Called
<1>7. <<p, i>> \in Uncalled(s)
  BY <1>5, <1>6, Zenon DEF Uncalled
<1>8. IsFiniteSet(Uncalled(s))
  BY <1>4, CallsFinite, FS_Subset, Zenon DEF Uncalled, TypeInv
<1>9. Cardinality(Uncalled(s)) \in Nat \ {0}
  BY <1>7, <1>8, FS_CardinalityType, FS_EmptySet, Zenon
<1> QED BY <1>3, <1>4, <1>7, <1>9, Zenon DEF CallInv

\* After one call the count of its target is one less.
LEMMA CallMade ==
  ASSUME CallInv, TypeInv, NEW s \in Task, NEW e \in Uncalled(s),
         workload' = workload, pending' = [pending EXCEPT ![s] = @ - 1],
         \A p \in Task : \A i \in 1..Len(Successors[p]) :
           Called(<<p, i>>)' <=> Called(<<p, i>>) \/ <<p, i>> = e
  PROVE  CallInv'
<1>1. Successors' = Successors /\ pending \in [Task -> Int]
  BY Zenon DEF Successors, TypeInv
<1>2. \A t \in Task : CallsTo(t)' = CallsTo(t)
  BY <1>1, Zenon DEF CallsTo
<1>0. \A t \in Task : \A x \in CallsTo(t) : Called(x)' <=> Called(x) \/ x = e
  <2> TAKE t \in Task
  <2> TAKE x \in CallsTo(t)
  <2>0. workload \in Workloads
    BY Zenon DEF TypeInv
  <2>2. \E p \in Task : \E i \in 1..Len(Successors[p]) : x = <<p, i>> /\ Successors[p][i] = t
    BY <2>0, CallsType, Zenon
  <2>1. PICK p \in Task : \E i \in 1..Len(Successors[p]) : x = <<p, i>>
    BY <2>2, Zenon
  <2> QED BY <2>1, Zenon
<1>3. Uncalled(s)' = Uncalled(s) \ {e}
  BY <1>0, <1>2, Zenon DEF Uncalled
<1>4. Cardinality(Uncalled(s) \ {e}) = Cardinality(Uncalled(s)) - 1
  <2>1. IsFiniteSet(Uncalled(s))
    BY CallsFinite, FS_Subset, Zenon DEF Uncalled, TypeInv
  <2> QED BY <2>1, FS_RemoveElement, Zenon
<1>5. ASSUME NEW t \in Task, t # s PROVE Uncalled(t)' = Uncalled(t)
  <2>1. e \notin CallsTo(t)
    BY <1>5, Zenon DEF CallsTo, Uncalled
  <2> QED BY <1>0, <1>2, <2>1, Zenon DEF Uncalled
<1>6. ASSUME NEW t \in Task PROVE pending'[t] = Cardinality(Uncalled(t)')
  <2>1. CASE t = s
    BY <2>1, <1>1, <1>3, <1>4, Zenon DEF CallInv
  <2>2. CASE t # s
    BY <2>2, <1>1, <1>5, Zenon DEF CallInv
  <2> QED BY <2>1, <2>2, Zenon
<1> QED BY <1>6, Zenon DEF CallInv

\* A worker calls the next successor of its task.
LEMMA PredecessorDoneKeeps ==
  ASSUME Inv, NEW w \in Worker, PredecessorDone(w), workload' = workload
  PROVE  Inv'
<1>t. Typed(w) /\ Fields(w) /\ Given
  BY Facts, Zenon DEF Thread
<1>1. PICK t, i : t = my[w].task /\ i = my[w].next
  BY Zenon
<1>2. PICK s : s = Successors[t][i]
  BY Zenon
<1>3. pc[w] = "successors" /\ i <= Len(Successors[t])
  BY <1>1, Zenon DEF PredecessorDone
<1>4. /\ t \in Task /\ s \in Task /\ <<t, i>> \in Uncalled(s) /\ pending[s] \in Nat \ {0}
      /\ i \in Nat \ {0}
  BY <1>1, <1>2, <1>3, <1>t, CallIsNew, Zenon DEF Inv, Fields
<1>5. PICK l : l = IF pending[s] = 1 THEN "push" ELSE "successors"
  BY Zenon
<1>6. /\ l \in {"push", "successors"} /\ (l = "push" => pending[s] = 1)
      /\ pc' = [pc EXCEPT ![w] = l] /\ pending' = [pending EXCEPT ![s] = @ - 1]
  BY <1>1, <1>2, <1>5, Zenon DEF PredecessorDone
<1>7. UNCHANGED <<enqueued, executions, output, done, queues, num_finished>>
  BY Zenon DEF PredecessorDone
<1>8. Becomes(w, [my[w] EXCEPT !.next = @ + 1, !.job = s, !.node = NodeOf[w],
                               !.priority = Highest, !.caller = "successors"])
  BY <1>1, <1>2, Zenon DEF PredecessorDone
<1>9. NodeOf[w] \in Node /\ Highest \in 0..4 /\ Highest \in Priorities /\ my[w].next + 1 \in Nat \ {0}
  BY <1>t DEF Given, Fields, Highest, Priorities
<1>a. PICK r : r = [my[w] EXCEPT !.next = @ + 1, !.job = s, !.node = NodeOf[w],
                                !.priority = Highest, !.caller = "successors"]
  BY Zenon
<1>b. my' = [my EXCEPT ![w] = r]
  BY <1>8, <1>a, Zenon DEF Becomes
<1>c. r \in Locals
  BY <1>a, <1>t, LocalsUpdates, <1>4, <1>9 DEF Typed, Fields
<1>d. /\ r.task = my[w].task /\ r.job = s /\ r.node = NodeOf[w] /\ r.priority = Highest
      /\ r.caller = "successors" /\ r.inputs = my[w].inputs /\ r.next = my[w].next + 1
  BY <1>a, <1>t, Zenon DEF Typed, Locals
<1>10. /\ my'[w] = r /\ pc'[w] = l
       /\ \A v \in Thread \ {w} : my'[v] = my[v] /\ pc'[v] = pc[v]
  BY <1>t, <1>6, <1>b, Zenon DEF Typed
<1>11. /\ pending' \in [Task -> Int] /\ pending'[s] = pending[s] - 1
       /\ \A x \in Task \ {s} : pending'[x] = pending[x]
  BY <1>4, <1>6 DEF Inv, TypeInv
<1>12. ~enqueued[s] /\ \A u \in Thread : pc[u] \in {"push", "enqueue"} => my[u].job # s
  BY <1>4 DEF Inv, OnceInv, LocalInv, ThreadAt
<1>T. TypeInv'
  BY <1>t, <1>6, <1>7, <1>11, <1>b, <1>c, Zenon DEF Inv, Typed, TypeInv, Label
<1>L. LocalInv'
  <2>1. \A u \in Thread \ {w} : ThreadAt(u)'
    BY <1>10, <1>11, <1>12 DEF Inv, LocalInv, ThreadAt
  <2>2. ThreadAt(w)'
    BY <1>4, <1>6, <1>9, <1>10, <1>11, <1>d DEF ThreadAt
  <2>3. \A v \in Worker \ {w} : WorkerAt(v)'
    BY <1>t, <1>7, <1>10, WorkerStays, Zenon DEF Thread
  <2>4. WorkerAt(w)'
    BY <1>t, <1>1, <1>3, <1>4, <1>6, <1>7, <1>10, <1>d DEF Inv, Typed, LocalInv, WorkerAt
  <2> QED BY <2>1, <2>2, <2>3, <2>4, Zenon DEF LocalInv
<1>N. NoNewPlace
  BY <1>t, <1>6, <1>10, <1>d, Zenon DEF NoNewPlace, Typed
<1>P. PlaceInv'
  BY <1>7, <1>N, PlacesStay, Zenon DEF Inv
<1>O. OnceInv'
  <2>1. \A th \in Thread : pc'[th] = "enqueue" => enqueued[my'[th].job] /\ executions[my'[th].job] = 0
    BY <1>N DEF Inv, OnceInv, NoNewPlace
  <2>2. \A v \in Worker : my'[v].task # NoTask => enqueued[my'[v].task]
    BY <1>N, Zenon DEF Inv, OnceInv, NoNewPlace
  <2>3. \A n, p : Queued(n, p)' = Queued(n, p)
    BY <1>7, Zenon DEF Queued
  <2>4. \A x \in Task : enqueued[x] => pending'[x] = 0
    BY <1>11, <1>12, Zenon DEF Inv, OnceInv
  <2> QED BY <1>7, <2>1, <2>2, <2>3, <2>4, Zenon DEF Inv, OnceInv
<1>13. /\ \A v \in Worker : Finishing(v)' <=> Finishing(v)
       /\ \A v \in Worker : my'[v].task = my[v].task
       /\ \A v \in Worker \ {w} : my'[v].next = my[v].next
       /\ Finishing(w) /\ my'[w].next = i + 1
  BY <1>t, <1>1, <1>3, <1>6, <1>10, <1>d, Zenon DEF Finishing, Typed
<1>14. \A x : Finished(x)' <=> Finished(x)
  BY <1>7, <1>13, Zenon DEF Finished
<1>15. \A p \in Task : \A k \in 1..Len(Successors[p]) :
         Called(<<p, k>>)' <=> Called(<<p, k>>) \/ <<p, k>> = <<t, i>>
  <2> TAKE p \in Task
  <2> TAKE k \in 1..Len(Successors[p])
  <2>1. k < i + 1 <=> k < i \/ k = i
    BY <1>4
  <2>2. \A v \in Worker : my[v].task = t => v = w
    BY <1>1, <1>4, <1>t, Zenon DEF Inv, PlaceInv, Typed
  <2>3. CASE p = t
    <3>1. Called(<<p, k>>)' <=> done[t] \/ k < i + 1
      BY <1>1, <1>7, <1>13, <2>2, <2>3, Zenon DEF Called
    <3>2. Called(<<p, k>>) <=> done[t] \/ k < i
      BY <1>1, <1>13, <2>2, <2>3, Zenon DEF Called
    <3> QED BY <2>1, <2>3, <3>1, <3>2, Zenon
  <2>4. CASE p # t
    BY <1>1, <1>7, <1>13, <2>4, Zenon DEF Called
  <2> QED BY <2>3, <2>4, Zenon
<1>16. CallInv'
  BY <1>4, <1>6, <1>15, CallMade, Zenon DEF Inv
<1>17. OutputInv'
  BY <1>t, <1>7, <1>14, Zenon DEF Inv, OutputInv, Given
<1> QED BY <1>T, <1>L, <1>P, <1>O, <1>16, <1>17, Zenon DEF Inv

-----------------------------------------------------------------------------
(* The inductive invariant and what follows from it.                       *)

LEMMA InitInv == Init => Inv
<1> SUFFICES ASSUME Init PROVE Inv
  BY Zenon
<1>1. workload \in Workloads
  BY Zenon DEF Init
<1>2. /\ Successors \in [Task -> Seq(Task)] /\ UsedNodes \subseteq Node /\ UsedNodes # {}
      /\ MainTasks \subseteq Task
  BY <1>1, WorkloadType, Zenon
<1>3. (CHOOSE n \in UsedNodes : TRUE) \in Node
  BY <1>2, Zenon
<1>4. \A w \in Worker : w \in Thread /\ pc[w] = "loop" /\ my[w].task = NoTask
  BY SchedulerAssumption, Zenon DEF Init, Thread
<1>5. \A th \in Thread : pc[th] \in {"schedule", "loop"}
  BY Zenon DEF Init
<1>6. \A t \in Task : CallsTo(t) = Uncalled(t) /\ Cardinality(CallsTo(t)) \in Nat
  <2> TAKE t \in Task
  <2>1. \A e \in CallsTo(t) : e[1] \in Task
    BY <1>1, CallsType
  <2>2. \A e \in CallsTo(t) : ~Called(e)
    BY <1>4, <2>1, SchedulerAssumption, Zenon DEF Called, Init
  <2> QED BY <1>1, <2>2, CallsFinite, FS_CardinalityType, Zenon DEF Uncalled
<1>7. TypeInv
  <2>1. /\ pending \in [Task -> Int] /\ enqueued \in [Task -> BOOLEAN]
        /\ executions \in [Task -> Nat] /\ output \in [Task -> {"none", "present", "cleared"}]
        /\ done \in [Task -> BOOLEAN] /\ num_finished \in [Node -> Int]
        /\ pc \in [Thread -> Label]
    BY <1>6 DEF Init, Label
  <2>2. queues \in [Node -> [Priorities -> Seq(Task)]]
    BY DEF Init
  <2>3. my \in [Thread -> Locals]
    BY <1>2, <1>3 DEF Init, Locals
  <2> QED BY <1>1, <2>1, <2>2, <2>3, Zenon DEF TypeInv
<1>8. \A n \in Node, p \in Priorities : queues[n][p] = <<>> /\ Queued(n, p) = {}
  BY DEF Init, Queued, Range
<1>9. LocalInv
  BY <1>4, <1>5, Zenon DEF LocalInv, ThreadAt, WorkerAt
<1>10. PlaceInv
  BY <1>4, <1>5, <1>8 DEF PlaceInv, Distinct
<1>11. OnceInv
  <2>1. \A t \in Task : ~enqueued[t] /\ ~done[t]
    BY Zenon DEF Init
  <2>2. \A t \in Task : executions[t] = 0
    BY Zenon DEF Init
  <2> QED BY <1>4, <1>5, <1>8, <2>1, <2>2 DEF OnceInv
<1>12. CallInv
  BY <1>6, Zenon DEF CallInv, Init
<1>13. OutputInv
  BY <1>4, SchedulerAssumption, Zenon DEF OutputInv, Finished, Finishing, Init
<1> QED BY <1>7, <1>9, <1>10, <1>11, <1>12, <1>13, Zenon DEF Inv

LEMMA InvStep == Inv /\ [Next]_vars => Inv'
<1> SUFFICES ASSUME Inv, [Next]_vars PROVE Inv'
  BY Zenon
<1>1. CASE UNCHANGED vars
  <2>1. UNCHANGED <<workload, pending, enqueued, executions, output, done, queues, num_finished, pc, my>>
    BY <1>1, Zenon DEF vars, tasks
  <2>2. TypeInv'
    BY <2>1, Zenon DEF Inv, TypeInv
  <2>3. LocalInv'
    BY <2>1, Zenon DEF Inv, LocalInv, ThreadAt, WorkerAt, Predecessors, Successors
  <2>4. NoNewPlace /\ SameFinishing
    BY <2>1, Zenon DEF NoNewPlace, SameFinishing, Finishing
  <2> QED BY <2>1, <2>2, <2>3, <2>4, PlacesStay, OnceStays, CallsStay, Zenon DEF Inv
<1>2. CASE Next
  <2>1. workload' = workload
    BY <1>2, Zenon DEF Next
  <2>2. ASSUME NEW th \in Thread, ScheduleStep(th) PROVE Inv'
    BY <2>1, <2>2, ScheduleKeeps, CheckReadyKeeps, MarkKeeps, EnqueueKeeps, CountTaskKeeps
      , Zenon DEF ScheduleStep
  <2>3. ASSUME NEW w \in Worker, WorkerStep(w) PROVE Inv'
    BY <2>1, <2>3, PullKeeps, StealKeeps, PushBackKeeps, UncountTaskKeeps, ExecuteKeeps,
       TasksJoinedKeeps, ClearInputKeeps, OnExecuteDoneKeeps, PredecessorDoneKeeps,
       SetDoneKeeps, FinishedTaskKeeps, LeaveLoopKeeps DEF WorkerStep
  <2>4. ASSUME MainStep PROVE Inv'
    BY <2>1, <2>4, StartCountKeeps, CountFinishedKeeps, CompareKeeps, JoinKeeps, Zenon DEF MainStep
  <2>5. CASE Terminated
    BY <1>1, <2>5, Zenon DEF Terminated
  <2> QED BY <1>2, <2>2, <2>3, <2>4, <2>5, Zenon DEF Next
<1> QED BY <1>1, <1>2, Zenon

\* The inductive invariant holds in every reachable state.
THEOREM Invariance == Spec => []Inv
<1> QED BY InitInv, InvStep, PTL DEF Spec

\* For any tasks, workers, nodes and workloads, no task is executed twice,
\* although both the thread that schedules it and the worker that finishes its
\* last predecessor push it, and although thieves take it out of queues.
THEOREM NothingRunsTwice == Spec => []ExecutedOnce
<1>1. Inv => ExecutedOnce
  BY Zenon DEF Inv, OnceInv, ExecutedOnce
<1> QED BY <1>1, Invariance, PTL

\* A task that works finds each of its inputs: the predecessors have produced
\* their outputs before the task could be pushed, and nobody clears one as long
\* as another successor needs it.
THEOREM InputsAreThere == Spec => []InputsPresent
<1>1. ASSUME Inv PROVE InputsPresent
  <2> SUFFICES ASSUME NEW w \in Worker,
                      \/ pc[w] \in {"execute", "schedule", "ready"}
                      \/ pc[w] \in {"push", "enqueue", "enqueued"} /\ my[w].caller = "schedule",
                      NEW p \in Predecessors(my[w].task)
               PROVE  output[p] = "present"
    BY Zenon DEF InputsPresent
  <2>1. PICK t : t = my[w].task
    BY Zenon
  <2>2. /\ Successors \in [Task -> Seq(Task)] /\ NoTask \notin Task
        /\ my[w].task \in Task \cup {NoTask} /\ output \in [Task -> {"none", "present", "cleared"}]
    BY <1>1, WorkloadType, SchedulerAssumption, Zenon DEF Inv, TypeInv, Thread, Locals
  <2>3. ~Finishing(w) /\ t \in Task /\ ~done[t]
    BY <1>1, <2>1, <2>2, Zenon DEF Inv, LocalInv, WorkerAt, Finishing
  <2>4. pending[t] = 0
    BY <1>1, <2>1, <2>2, <2>3, Zenon DEF Inv, OnceInv
  <2>5. \A e \in CallsTo(t) : Called(e)
    <3>1. IsFiniteSet(Uncalled(t))
      BY <1>1, <2>3, CallsFinite, FS_Subset, Zenon DEF Inv, TypeInv, Uncalled
    <3>2. Uncalled(t) = {}
      BY <1>1, <2>3, <2>4, <3>1, FS_EmptySet, Zenon DEF Inv, CallInv
    <3> QED BY <3>2, Zenon DEF Uncalled
  <2>6. p \in Task /\ t \in Range(Successors[p])
    BY <2>1, Zenon DEF Predecessors
  <2>7. PICK i \in 1..Len(Successors[p]) : Successors[p][i] = t
    BY <2>2, <2>6 DEF Range
  <2>8. Called(<<p, i>>)
    BY <1>1, <2>3, <2>5, <2>6, <2>7, CallsType, Zenon DEF Inv, TypeInv
  <2>9. Finished(p)
    BY <2>8, Zenon DEF Called, Finished
  <2>10. ~Finished(t)
    BY <1>1, <2>1, <2>2, <2>3, Zenon DEF Inv, PlaceInv, Finished
  <2> QED BY <1>1, <2>2, <2>6, <2>9, <2>10, Zenon DEF Inv, OutputInv
<1> QED BY <1>1, Invariance, PTL

=============================================================================
