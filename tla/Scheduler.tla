------------------------------ MODULE Scheduler ------------------------------
(***************************************************************************)
(* Tasks, their dependencies, the queues of the NUMA nodes, and the        *)
(* shutdown of the scheduler.  A task may be pushed by the thread that     *)
(* schedules it or by the worker that finishes its last predecessor;       *)
(* workers pull from the queue of their node or steal from another.        *)
(*                                                                         *)
(* Here every worker is always allowed to run: which worker of a core is   *)
(* active, and how many there are, is the subject of ProcessingUnit.  Each *)
(* node has one processing unit.  A task's work is to schedule the tasks   *)
(* it Spawns, to wait for them and to produce its output.                  *)
(* (abstract_task.cpp, operator_task.cpp, task_queue.cpp, worker.cpp,      *)
(* node_queue_scheduler.cpp.)                                              *)
(***************************************************************************)
EXTENDS Integers, Sequences, FiniteSets, Functions

CONSTANTS
  Task,
  Worker,
  Node,
  Workloads,      \* what the scheduler may be given to do
  Main,           \* the thread that schedules the other tasks and calls finish()
  NoTask

Highest == 1
Priorities == 0..3

ASSUME SchedulerAssumption ==
  /\ Workloads \subseteq
       [successors : [Task -> Seq(Task)],   \* a sequence per task, as in the code
        priority : [Task -> Priorities],    \* the SchedulePriority it was created with
        stealable : SUBSET Task,            \* the tasks that may change their node
        cleanup : SUBSET Task,              \* OperatorTasks with CleanupTemporaries::Yes
        spawn : [Task -> SUBSET Task],      \* the tasks it schedules and waits for
        node_of : [Worker -> Node]]         \* the node of each worker
  /\ IsFiniteSet(Task) /\ Worker # {}
  /\ Main \notin Worker /\ NoTask \notin Task

VARIABLES
  workload,       \* one of the Workloads; it never changes
  pending,        \* _pending_predecessors of each task
  enqueued,       \* _is_enqueued
  executions,     \* how often execute() has started the task
  output,         \* the output of the task's operator: none, present, cleared
  done,           \* _done
  queues,         \* the tasks in the queue of each node and priority
  num_tasks,      \* _num_tasks of each queue; -1 stands for the largest uint
  task_counter,   \* _task_counter of the scheduler
  num_finished,   \* _num_finished_tasks of each node's processing unit
  shutdown,       \* _shutdown_flag of the processing units
  pc,
  my              \* the local variables of each thread

tasks == <<pending, enqueued, executions, output, done>>
vars == <<workload, tasks, queues, num_tasks, task_counter, num_finished, shutdown, pc, my>>

Successors == workload.successors
Priority == workload.priority
Stealable == workload.stealable
Cleanup == workload.cleanup
Spawn == workload.spawn
NodeOf == workload.node_of

\* A task is called once for each time it is a successor of another.
CallsTo(t) ==
  {e \in UNION {{p} \X DOMAIN Successors[p] : p \in Task} : Successors[e[1]][e[2]] = t}

Predecessors(t) == {p \in Task : t \in Range(Successors[p])}

MainTasks == Task \ UNION {Spawn[t] : t \in Task}

UsedNodes == Range(NodeOf)

Thread == Worker \cup {Main}

Init ==
  /\ workload \in Workloads
  /\ pending = [t \in Task |-> Cardinality(CallsTo(t))]
  /\ enqueued = [t \in Task |-> FALSE]
  /\ executions = [t \in Task |-> 0]
  /\ output = [t \in Task |-> "none"]
  /\ done = [t \in Task |-> FALSE]
  /\ queues = [n \in Node |-> [p \in Priorities |-> <<>>]]
  /\ num_tasks = [n \in Node |-> 0]
  /\ task_counter = 0
  /\ num_finished = [n \in Node |-> 0]
  /\ shutdown = FALSE
  /\ pc = [th \in Thread |-> IF th = Main THEN "schedule" ELSE "loop"]
  /\ my = [th \in Thread |->
            [task |-> NoTask,          \* the task a worker executes
             todo |-> IF th = Main THEN MainTasks ELSE {},  \* tasks still to schedule
             job |-> NoTask,           \* the task being scheduled or pushed
             node |-> CHOOSE n \in UsedNodes : TRUE, priority |-> 0, caller |-> "schedule",
             inputs |-> {},            \* predecessors still to look at
             next |-> 1,               \* the next successor
             seen |-> 0,               \* the finished tasks counted so far
             unread |-> {}]]           \* the nodes still to count or to steal from

\* The local variables of the thread become l.
Becomes(th, l) == my' = [my EXCEPT ![th] = l]

Goto(th, from, to) == pc[th] = from /\ pc' = [pc EXCEPT ![th] = to]

-----------------------------------------------------------------------------
(* Scheduling a task and pushing it into a queue.                          *)

\* schedule() of one of the thread's tasks: a worker prefers its own node,
\* the main thread may name any.
Schedule(th) ==
  /\ Goto(th, "schedule", "ready")
  /\ \E t \in my[th].todo, n \in (IF th = Main THEN UsedNodes ELSE {NodeOf[th]}) :
       Becomes(th, [my[th] EXCEPT !.todo = @ \ {t}, !.job = t, !.node = n,
                                  !.priority = Priority[t], !.caller = "schedule"])
  /\ task_counter' = task_counter + 1
  /\ UNCHANGED <<tasks, queues, num_tasks, num_finished, shutdown>>

CheckReady(th) ==
  /\ Goto(th, "ready", IF pending[my[th].job] = 0 THEN "push" ELSE "schedule")
  /\ UNCHANGED <<tasks, queues, num_tasks, task_counter, num_finished, shutdown, my>>

\* Mutant: the task is enqueued whoever was first.
MarkAlways(th) ==
  /\ Goto(th, "push", "enqueue")
  /\ enqueued' = [enqueued EXCEPT ![my[th].job] = TRUE]
  /\ UNCHANGED <<pending, executions, output, done, queues, num_tasks, task_counter,
                 num_finished, shutdown, my>>

\* try_mark_as_enqueued: someone else may have been first to enqueue the task.
MarkAsEnqueued(th) ==
  /\ Goto(th, "push", IF enqueued[my[th].job] THEN my[th].caller ELSE "enqueue")
  /\ enqueued' = [enqueued EXCEPT ![my[th].job] = TRUE]
  /\ UNCHANGED <<pending, executions, output, done, queues, num_tasks, task_counter,
                 num_finished, shutdown, my>>

Enqueue(th) ==
  /\ Goto(th, "enqueue", "enqueued")
  /\ queues' = [queues EXCEPT ![my[th].node][my[th].priority] = Append(@, my[th].job)]
  /\ UNCHANGED <<tasks, num_tasks, task_counter, num_finished, shutdown, my>>

CountTask(th) ==
  /\ Goto(th, "enqueued", my[th].caller)
  /\ num_tasks' = [num_tasks EXCEPT ![my[th].node] = @ + 1]
  /\ UNCHANGED <<tasks, queues, task_counter, num_finished, shutdown, my>>

-----------------------------------------------------------------------------
(* Finding a task.                                                         *)

\* The first priority from level on whose queue at node n holds a task, or 4.
FirstLevel(n, level) ==
  CHOOSE p \in level..4 :
    /\ p = 4 \/ queues[n][p] # <<>>
    /\ \A q \in level..(p - 1) : queues[n][q] = <<>>

Pull(w) ==
  /\ pc[w] = "loop" /\ ~shutdown
  /\ LET n == NodeOf[w]
         p == FirstLevel(n, 0) IN
     IF p = 4
     THEN /\ pc' = [pc EXCEPT ![w] = "steal"]
          /\ Becomes(w, [my[w] EXCEPT !.node = n, !.priority = 4,
                                      !.unread = UsedNodes \ {n}])
          /\ UNCHANGED queues
     ELSE /\ pc' = [pc EXCEPT ![w] = "popped"]
          /\ Becomes(w, [my[w] EXCEPT !.task = Head(queues[n][p]), !.node = n])
          /\ queues' = [queues EXCEPT ![n][p] = Tail(@)]
  /\ UNCHANGED <<tasks, num_tasks, task_counter, num_finished, shutdown>>

\* The queues of the other nodes are asked one after the other.  When none of
\* them has a task the worker sleeps and starts again.
Steal(w) ==
  /\ pc[w] = "steal"
  /\ LET n == my[w].node
         p == FirstLevel(n, my[w].priority) IN
     IF p < 4
     THEN /\ pc' = [pc EXCEPT ![w] =
                      IF Head(queues[n][p]) \in Stealable THEN "popped" ELSE "pushback"]
          /\ Becomes(w, [my[w] EXCEPT !.task = Head(queues[n][p]), !.priority = p])
          /\ queues' = [queues EXCEPT ![n][p] = Tail(@)]
     ELSE /\ IF my[w].unread = {}
             THEN pc' = [pc EXCEPT ![w] = "loop"] /\ UNCHANGED my
             ELSE /\ \E m \in my[w].unread :
                       Becomes(w, [my[w] EXCEPT !.node = m, !.priority = 0, !.unread = @ \ {m}])
                  /\ UNCHANGED pc
          /\ UNCHANGED queues
  /\ UNCHANGED <<tasks, num_tasks, task_counter, num_finished, shutdown>>

\* A task that is not stealable goes back, behind the others of its priority.
PushBack(w) ==
  /\ Goto(w, "pushback", "steal")
  /\ queues' = [queues EXCEPT ![my[w].node][my[w].priority] = Append(@, my[w].task)]
  /\ Becomes(w, [my[w] EXCEPT !.task = NoTask, !.priority = @ + 1])
  /\ UNCHANGED <<tasks, num_tasks, task_counter, num_finished, shutdown>>

UncountTask(w) ==
  /\ Goto(w, "popped", "execute")
  /\ num_tasks' = [num_tasks EXCEPT ![my[w].node] = @ - 1]
  /\ UNCHANGED <<tasks, queues, task_counter, num_finished, shutdown, my>>

-----------------------------------------------------------------------------
(* Executing it.                                                           *)

\* What the operator does is over when it has its output; the task then looks
\* at its predecessors' outputs, if it is to clean up.
OperatorDone(w, t) ==
  /\ pc' = [pc EXCEPT ![w] = "cleanup"]
  /\ output' = [output EXCEPT ![t] = "present"]
  /\ Becomes(w, [my[w] EXCEPT
                   !.inputs = IF t \in Cleanup THEN Predecessors(t) ELSE {}, !.next = 1])

Execute(w) ==
  /\ pc[w] = "execute"
  /\ LET t == my[w].task IN
     /\ executions' = [executions EXCEPT ![t] = @ + 1]
     /\ IF Spawn[t] = {}
        THEN OperatorDone(w, t)
        ELSE /\ pc' = [pc EXCEPT ![w] = "schedule"]
             /\ Becomes(w, [my[w] EXCEPT !.todo = Spawn[t]])
             /\ UNCHANGED output
  /\ UNCHANGED <<pending, enqueued, done, queues, num_tasks, task_counter, num_finished,
                 shutdown>>

\* wait_for_tasks returns: every task the worker has scheduled is done.
TasksJoined(w) ==
  /\ pc[w] = "schedule" /\ my[w].todo = {}
  /\ \A t \in Spawn[my[w].task] : done[t]
  /\ OperatorDone(w, my[w].task)
  /\ UNCHANGED <<pending, enqueued, executions, done, queues, num_tasks, task_counter,
                 num_finished, shutdown>>

StillNeeded(p, t) == \E s \in Range(Successors[p]) \ {t} : ~done[s]

\* Mutant: the input is cleared for the others too.
ClearAnyInput(w) ==
  /\ pc[w] = "cleanup"
  /\ \E p \in my[w].inputs :
       /\ Becomes(w, [my[w] EXCEPT !.inputs = @ \ {p}])
       /\ output' = [output EXCEPT ![p] = "cleared"]
  /\ UNCHANGED <<pending, enqueued, executions, done, queues, num_tasks, task_counter,
                 num_finished, shutdown, pc>>

ClearInput(w) ==
  /\ pc[w] = "cleanup"
  /\ \E p \in my[w].inputs :
       /\ Becomes(w, [my[w] EXCEPT !.inputs = @ \ {p}])
       /\ output' = [output EXCEPT ![p] =
                       IF StillNeeded(p, my[w].task) THEN @ ELSE "cleared"]
  /\ UNCHANGED <<pending, enqueued, executions, done, queues, num_tasks, task_counter,
                 num_finished, shutdown, pc>>

OnExecuteDone(w) ==
  /\ my[w].inputs = {}
  /\ Goto(w, "cleanup", "successors")
  /\ UNCHANGED <<tasks, queues, num_tasks, task_counter, num_finished, shutdown, my>>

\* Mutant: the last predecessor does not push the task.
PredecessorDoneNoPush(w) ==
  /\ pc[w] = "successors" /\ my[w].next <= Len(Successors[my[w].task])
  /\ pending' = [pending EXCEPT ![Successors[my[w].task][my[w].next]] = @ - 1]
  /\ Becomes(w, [my[w] EXCEPT !.next = @ + 1])
  /\ UNCHANGED <<enqueued, executions, output, done, queues, num_tasks, task_counter,
                 num_finished, shutdown, pc>>

\* _on_predecessor_done of the next successor.  It is pushed whether or not
\* it has been scheduled.
PredecessorDone(w) ==
  /\ pc[w] = "successors" /\ my[w].next <= Len(Successors[my[w].task])
  /\ LET s == Successors[my[w].task][my[w].next] IN
     /\ pending' = [pending EXCEPT ![s] = @ - 1]
     /\ pc' = [pc EXCEPT ![w] = IF pending[s] = 1 THEN "push" ELSE "successors"]
     /\ Becomes(w, [my[w] EXCEPT !.next = @ + 1, !.job = s, !.node = NodeOf[w],
                                 !.priority = Highest, !.caller = "successors"])
  /\ UNCHANGED <<enqueued, executions, output, done, queues, num_tasks, task_counter,
                 num_finished, shutdown>>

SetDone(w) ==
  /\ Goto(w, "successors", "done")
  /\ my[w].next > Len(Successors[my[w].task])
  /\ done' = [done EXCEPT ![my[w].task] = TRUE]
  /\ UNCHANGED <<pending, enqueued, executions, output, queues, num_tasks, task_counter,
                 num_finished, shutdown, my>>

FinishedTask(w) ==
  /\ Goto(w, "done", "loop")
  /\ num_finished' = [num_finished EXCEPT ![NodeOf[w]] = @ + 1]
  /\ Becomes(w, [my[w] EXCEPT !.task = NoTask])
  /\ UNCHANGED <<tasks, queues, num_tasks, task_counter, shutdown>>

LeaveLoop(w) ==
  /\ shutdown
  /\ Goto(w, "loop", "exit")
  /\ UNCHANGED <<tasks, queues, num_tasks, task_counter, num_finished, shutdown, my>>

-----------------------------------------------------------------------------
(* finish(): the main thread counts the finished tasks of one processing   *)
(* unit after the other and compares the sum with the scheduled ones.      *)

StartCount ==
  /\ my[Main].todo = {}
  /\ Goto(Main, "schedule", "count")
  /\ Becomes(Main, [my[Main] EXCEPT !.seen = 0, !.unread = UsedNodes])
  /\ UNCHANGED <<tasks, queues, num_tasks, task_counter, num_finished, shutdown>>

CountFinished ==
  /\ pc[Main] = "count"
  /\ \E n \in my[Main].unread :
       Becomes(Main, [my[Main] EXCEPT !.unread = @ \ {n}, !.seen = @ + num_finished[n]])
  /\ UNCHANGED <<tasks, queues, num_tasks, task_counter, num_finished, shutdown, pc>>


\* If the numbers differ it sleeps and counts again, else it shuts down.
Compare ==
  /\ pc[Main] = "count" /\ my[Main].unread = {}
  /\ shutdown' = (my[Main].seen = task_counter)
  /\ pc' = [pc EXCEPT ![Main] = IF shutdown' THEN "join" ELSE "schedule"]
  /\ UNCHANGED <<tasks, queues, num_tasks, task_counter, num_finished, my>>

JoinWorkers ==
  /\ \A w \in Worker : pc[w] = "exit"
  /\ Goto(Main, "join", "down")
  /\ UNCHANGED <<tasks, queues, num_tasks, task_counter, num_finished, shutdown, my>>

Terminated == pc[Main] = "down" /\ UNCHANGED vars

ScheduleStep(th) ==
  Schedule(th) \/ CheckReady(th) \/ MarkAsEnqueued(th) \/ Enqueue(th) \/ CountTask(th)

WorkerStep(w) ==
  \/ Pull(w) \/ Steal(w) \/ PushBack(w) \/ UncountTask(w)
  \/ Execute(w) \/ TasksJoined(w) \/ ClearInput(w) \/ OnExecuteDone(w)
  \/ PredecessorDone(w) \/ SetDone(w) \/ FinishedTask(w) \/ LeaveLoop(w)

MainStep == StartCount \/ CountFinished \/ Compare \/ JoinWorkers

Next ==
  /\ \/ \E th \in Thread : ScheduleStep(th)
     \/ \E w \in Worker : WorkerStep(w)
     \/ MainStep
     \/ Terminated
  /\ UNCHANGED workload

Spec == Init /\ [][Next]_vars

\* The operating system runs every thread.
FairSpec ==
  /\ Spec
  /\ WF_vars((ScheduleStep(Main) \/ MainStep) /\ UNCHANGED workload)
  /\ \A w \in Worker : WF_vars((ScheduleStep(w) \/ WorkerStep(w)) /\ UNCHANGED workload)

-----------------------------------------------------------------------------
\* execute() starts a task at most once, although both the thread that
\* schedules it and the worker that finishes its last predecessor may push it.
ExecutedOnce == \A t \in Task : executions[t] <= 1

\* While a task's operator works, each of its inputs has been computed and none
\* has been cleared by another successor that finished first.
InputsPresent ==
  \A w \in Worker :
    \/ pc[w] \in {"execute", "schedule", "ready"}
    \/ pc[w] \in {"push", "enqueue", "enqueued"} /\ my[w].caller = "schedule"
    => \A p \in Predecessors(my[w].task) : output[p] = "present"


\* Every task gets executed and finish() returns, if every task may be stolen.
\* (A task that may not is out of its queue while a thief looks at it.)
FinishReturns == Stealable = Task => <>(pc[Main] = "down")

=============================================================================
