------------------------- MODULE SchedulerInvariant -------------------------
(***************************************************************************)
(* The inductive invariant of the scheduler and the steps that put tasks   *)
(* into queues and take them out: they keep every task in one place.       *)
(*                                                                         *)
(* A task is with the thread that is about to put it into a queue, in one  *)
(* queue, or with one worker.  It gets there only when no predecessor is   *)
(* left to call it, and a predecessor calls it only after it has its own   *)
(* output; that output is cleared only when every successor has its own.   *)
(***************************************************************************)
EXTENDS Scheduler, TLAPS

Label ==
  {"schedule", "ready", "push", "enqueue", "enqueued", "loop", "steal", "popped",
   "pushback", "execute", "cleanup", "successors", "done", "exit", "count", "join", "down"}

Locals ==
  [task : Task \cup {NoTask}, todo : SUBSET Task, job : Task \cup {NoTask}, node : Node,
   priority : 0..4, caller : {"schedule", "successors"}, inputs : SUBSET Task,
   next : Nat \ {0}, seen : Int, unread : SUBSET Node]

TypeInv ==
  /\ workload \in Workloads
  /\ pending \in [Task -> Int]
  /\ enqueued \in [Task -> BOOLEAN]
  /\ executions \in [Task -> Nat]
  /\ output \in [Task -> {"none", "present", "cleared"}]
  /\ done \in [Task -> BOOLEAN]
  /\ queues \in [Node -> [Priorities -> Seq(Task)]]
  /\ num_finished \in [Node -> Int]
  /\ pc \in [Thread -> Label]
  /\ my \in [Thread -> Locals]

\* The worker is done with the operator of its task, and has not left the task.
Finishing(w) ==
  \/ pc[w] \in {"cleanup", "successors", "done"}
  \/ pc[w] \in {"push", "enqueue", "enqueued"} /\ my[w].caller = "successors"

Distinct(q) == \A i, j \in DOMAIN q : q[i] = q[j] => i = j

\* What a thread's local variables are when it is at a label.
ThreadAt(th) ==
  /\ pc[th] \in {"ready", "push", "enqueue", "enqueued"} => my[th].job \in Task
  /\ pc[th] \in {"push", "enqueue"} => pending[my[th].job] = 0
  /\ pc[th] \in {"ready", "push", "enqueue", "pushback"} => my[th].priority \in Priorities
  /\ pc[th] = "ready" => my[th].caller = "schedule"

\* Where a worker is with its task.
WorkerAt(w) ==
  /\ pc[w] \in {"loop", "steal", "exit"} <=> my[w].task = NoTask
  /\ pc[w] = "cleanup" => my[w].inputs \subseteq Predecessors(my[w].task)
  /\ pc[w] = "done" => done[my[w].task]
  /\ pc[w] \in {"popped", "pushback", "execute"} => executions[my[w].task] = 0
  /\ pc[w] \notin {"loop", "steal", "exit", "popped", "pushback", "execute"} =>
       executions[my[w].task] = 1
  /\ pc[w] # "done" /\ my[w].task # NoTask => ~done[my[w].task]

LocalInv == (\A th \in Thread : ThreadAt(th)) /\ (\A w \in Worker : WorkerAt(w))

Queued(n, p) == Range(queues[n][p])

\* A task is in one place at a time.
PlaceInv ==
  /\ \A v, w \in Worker : my[v].task = my[w].task /\ my[v].task # NoTask => v = w
  /\ \A th, u \in Thread :
       pc[th] = "enqueue" /\ pc[u] = "enqueue" /\ my[th].job = my[u].job => th = u
  /\ \A th \in Thread, w \in Worker :
       pc[th] = "enqueue" /\ my[w].task # NoTask => my[w].task # my[th].job
  /\ \A n \in Node, p \in Priorities : Distinct(queues[n][p])
  /\ \A n, m \in Node, p, q \in Priorities : \A t \in Task :
       t \in Queued(n, p) /\ t \in Queued(m, q) => n = m /\ p = q
  /\ \A n \in Node, p \in Priorities, th \in Thread :
       pc[th] = "enqueue" => my[th].job \notin Queued(n, p)
  /\ \A n \in Node, p \in Priorities, w \in Worker : my[w].task \notin Queued(n, p)

\* A task that is in a place, or has been executed, is marked as enqueued, and
\* it is executed once, after it has left the queues.
OnceInv ==
  /\ \A th \in Thread : pc[th] = "enqueue" => enqueued[my[th].job] /\ executions[my[th].job] = 0
  /\ \A w \in Worker : my[w].task # NoTask => enqueued[my[w].task]
  /\ \A n \in Node, p \in Priorities : \A t \in Queued(n, p) :
       enqueued[t] /\ executions[t] = 0
  /\ \A t \in Task :
       /\ executions[t] <= 1
       /\ executions[t] = 1 => enqueued[t]
       /\ done[t] => executions[t] = 1
       /\ enqueued[t] => pending[t] = 0

Finished(t) == done[t] \/ \E w \in Worker : my[w].task = t /\ Finishing(w)

\* The call e has been made: the task has got that far with its successors.
Called(e) ==
  done[e[1]] \/ \E w \in Worker : my[w].task = e[1] /\ Finishing(w) /\ e[2] < my[w].next

Uncalled(t) == {e \in CallsTo(t) : ~Called(e)}

CallInv == \A t \in Task : pending[t] = Cardinality(Uncalled(t))

\* An output is there when the task has finished, and it is cleared when the
\* tasks that need it have finished too.
OutputInv ==
  /\ \A t \in Task : Finished(t) => output[t] # "none"
  /\ \A t \in Task : output[t] = "cleared" => \A s \in Range(Successors[t]) : Finished(s)

Inv == TypeInv /\ LocalInv /\ PlaceInv /\ OnceInv /\ CallInv /\ OutputInv

-----------------------------------------------------------------------------
(* The workload, the queues and the priorities.                            *)

\* What a workload is made of.
LEMMA WorkloadType ==
  ASSUME workload \in Workloads
  PROVE  /\ Successors \in [Task -> Seq(Task)] /\ Priority \in [Task -> Priorities]
         /\ Spawn \in [Task -> SUBSET Task] /\ NodeOf \in [Worker -> Node]
         /\ UsedNodes \subseteq Node /\ UsedNodes # {} /\ MainTasks \subseteq Task
<1>1. /\ Successors \in [Task -> Seq(Task)] /\ Priority \in [Task -> Priorities]
      /\ Spawn \in [Task -> SUBSET Task] /\ NodeOf \in [Worker -> Node]
  BY SchedulerAssumption, Zenon DEF Successors, Priority, Spawn, NodeOf
<1>2. UsedNodes \subseteq Node /\ UsedNodes # {}
  BY <1>1, SchedulerAssumption DEF UsedNodes, Range
<1> QED BY <1>1, <1>2, Zenon DEF MainTasks

\* Giving a local variable a value of its type.
LEMMA LocalsUpdates ==
  ASSUME NEW l \in Locals
  PROVE  /\ \A x \in Task \cup {NoTask} : [l EXCEPT !.task = x] \in Locals
         /\ \A x \in SUBSET Task : [l EXCEPT !.todo = x] \in Locals
         /\ \A x \in Task \cup {NoTask} : [l EXCEPT !.job = x] \in Locals
         /\ \A x \in Node : [l EXCEPT !.node = x] \in Locals
         /\ \A x \in 0..4 : [l EXCEPT !.priority = x] \in Locals
         /\ \A x \in {"schedule", "successors"} : [l EXCEPT !.caller = x] \in Locals
         /\ \A x \in SUBSET Task : [l EXCEPT !.inputs = x] \in Locals
         /\ \A x \in Nat \ {0} : [l EXCEPT !.next = x] \in Locals
         /\ \A x \in Int : [l EXCEPT !.seen = x] \in Locals
         /\ \A x \in SUBSET Node : [l EXCEPT !.unread = x] \in Locals
<1>1. \A x \in Task \cup {NoTask} : [l EXCEPT !.task = x] \in Locals
  BY Zenon DEF Locals
<1>2. \A x \in SUBSET Task : [l EXCEPT !.todo = x] \in Locals
  BY Zenon DEF Locals
<1>3. \A x \in Task \cup {NoTask} : [l EXCEPT !.job = x] \in Locals
  BY Zenon DEF Locals
<1>4. \A x \in Node : [l EXCEPT !.node = x] \in Locals
  BY Zenon DEF Locals
<1>5. \A x \in 0..4 : [l EXCEPT !.priority = x] \in Locals
  BY Zenon DEF Locals
<1>6. \A x \in {"schedule", "successors"} : [l EXCEPT !.caller = x] \in Locals
  BY Zenon DEF Locals
<1>7. \A x \in SUBSET Task : [l EXCEPT !.inputs = x] \in Locals
  BY Zenon DEF Locals
<1>8. \A x \in Nat \ {0} : [l EXCEPT !.next = x] \in Locals
  BY Zenon DEF Locals
<1>9. \A x \in Int : [l EXCEPT !.seen = x] \in Locals
  BY Zenon DEF Locals
<1>10. \A x \in SUBSET Node : [l EXCEPT !.unread = x] \in Locals
  BY Zenon DEF Locals
<1> QED BY <1>1, <1>2, <1>3, <1>4, <1>5, <1>6, <1>7, <1>8, <1>9, <1>10, Zenon

\* Taking the first task out of a queue of distinct tasks.
LEMMA Popped ==
  ASSUME NEW q \in Seq(Task), q # <<>>, Distinct(q)
  PROVE  /\ Head(q) \in Task /\ Head(q) \in Range(q) /\ Tail(q) \in Seq(Task)
         /\ Distinct(Tail(q)) /\ Range(Tail(q)) = Range(q) \ {Head(q)}
<1>1. Head(q) \in Task /\ Tail(q) \in Seq(Task) /\ Head(q) = q[1] /\ 1 \in DOMAIN q
  OBVIOUS
<1>2. \A i \in DOMAIN Tail(q) : i + 1 \in DOMAIN q /\ Tail(q)[i] = q[i + 1] /\ i + 1 # 1 /\ i \in Nat
  OBVIOUS
<1>3. \A i \in DOMAIN q \ {1} : i - 1 \in DOMAIN Tail(q) /\ Tail(q)[i - 1] = q[i]
  OBVIOUS
<1>4. Distinct(Tail(q))
  BY <1>2 DEF Distinct
<1>5. \A x : x \in Range(Tail(q)) => x \in Range(q) /\ x # Head(q)
  BY <1>1, <1>2 DEF Range, Distinct
<1>6. \A x : x \in Range(q) /\ x # Head(q) => x \in Range(Tail(q))
  BY <1>1, <1>3 DEF Range
<1> QED BY <1>1, <1>4, <1>5, <1>6, Zenon DEF Range

\* Putting another task at the end of a queue of distinct tasks.
LEMMA Pushed ==
  ASSUME NEW q \in Seq(Task), NEW t \in Task, t \notin Range(q), Distinct(q)
  PROVE  /\ Append(q, t) \in Seq(Task) /\ Distinct(Append(q, t))
         /\ Range(Append(q, t)) = Range(q) \cup {t}
<1>1. PICK n : n = Len(q)
  BY Zenon
<1>2. n \in Nat /\ DOMAIN q = 1..n /\ DOMAIN Append(q, t) = 1..(n + 1)
  BY <1>1
<1>3. Append(q, t)[n + 1] = t /\ \A i \in 1..n : Append(q, t)[i] = q[i] /\ q[i] # t
  BY <1>1, <1>2 DEF Range
<1>4. \A i \in 1..(n + 1) : i \in 1..n \/ i = n + 1
  BY <1>2
<1>5. Distinct(Append(q, t))
  BY <1>2, <1>3, <1>4, Zenon DEF Distinct
<1>6. \A x : x \in Range(Append(q, t)) <=> x \in Range(q) \/ x = t
  <2>1. ASSUME NEW x \in Range(Append(q, t)) PROVE x \in Range(q) \/ x = t
    BY <2>1, <1>2, <1>3, <1>4, Zenon DEF Range
  <2>2. t \in Range(Append(q, t))
    BY <1>2, <1>3 DEF Range
  <2>3. ASSUME NEW x \in Range(q) PROVE x \in Range(Append(q, t))
    BY <2>3, <1>2, <1>3 DEF Range
  <2> QED BY <2>1, <2>2, <2>3, Zenon
<1> QED BY <1>5, <1>6

\* A level found below 4 is one whose queue holds a task.
LEMMA FirstLevelFound ==
  ASSUME NEW n \in Node, NEW level \in 0..4
  PROVE  /\ FirstLevel(n, level) \in level..4
         /\ FirstLevel(n, level) # 4 => /\ FirstLevel(n, level) \in Priorities
                                        /\ queues[n][FirstLevel(n, level)] # <<>>
<1> DEFINE E(p) == queues[n][p] = <<>>
           F(p) == (p = 4 \/ ~E(p)) /\ \A q \in level..(p - 1) : E(q)
<1>1. \E p \in level..4 : F(p)
  <2> HIDE DEF E
  <2>1. CASE \A q \in level..3 : E(q)
    <3>1. \A q \in level..(4 - 1) : E(q)
      BY <2>1
    <3> QED BY <3>1
  <2>2. CASE \E q \in level..3 : ~E(q)
    <3>1. PICK q \in level..3 : ~E(q)
      BY <2>2, Zenon
    <3>2. CASE \A r \in level..(q - 1) : E(r)
      BY <3>1, <3>2
    <3>3. CASE \E r \in level..(q - 1) : ~E(r)
      <4>1. PICK r \in level..(q - 1) : ~E(r)
        BY <3>3, Zenon
      <4>2. CASE \A s \in level..(r - 1) : E(s)
        BY <4>1, <4>2
      <4>3. CASE \E s \in level..(r - 1) : ~E(s)
        <5>1. PICK s \in level..(r - 1) : ~E(s)
          BY <4>3, Zenon
        <5>2. CASE \A u \in level..(s - 1) : E(u)
          BY <5>1, <5>2
        <5>3. CASE \E u \in level..(s - 1) : ~E(u)
          <6>1. PICK u \in level..(s - 1) : ~E(u)
            BY <5>3, Zenon
          <6>2. level = 0 /\ u = 0
            BY <6>1
          <6>3. 0 \in level..4 /\ \A v \in level..(0 - 1) : E(v)
            BY <6>2
          <6> QED BY <6>1, <6>2, <6>3, Zenon
        <5> QED BY <5>2, <5>3, Zenon
      <4> QED BY <4>2, <4>3, Zenon
    <3> QED BY <3>2, <3>3, Zenon
  <2> QED BY <2>1, <2>2, Zenon
<1>2. FirstLevel(n, level) = CHOOSE p \in level..4 : F(p)
  BY Zenon DEF FirstLevel
<1>3. FirstLevel(n, level) \in level..4 /\ F(FirstLevel(n, level))
  BY <1>1, <1>2, Zenon
<1> QED BY <1>3 DEF Priorities

-----------------------------------------------------------------------------
(* Steps that leave a part of the state alone.                             *)

\* No task gets into a place, though a worker may leave its task and a thread
\* may be done with enqueuing.
NoNewPlace ==
  /\ \A w \in Worker : my'[w].task \in {my[w].task, NoTask}
  /\ \A th \in Thread :
       pc'[th] = "enqueue" => pc[th] = "enqueue" /\ my'[th].job = my[th].job

\* The workers that finish a task are the same as before, up to those whose
\* task is done.
SameFinishing ==
  /\ workload' = workload /\ done' = done
  /\ \A w \in Worker :
       /\ Finishing(w)' =>
            Finishing(w) /\ my'[w].task = my[w].task /\ my'[w].next = my[w].next
       /\ Finishing(w) /\ ~done[my[w].task] =>
            Finishing(w)' /\ my'[w].task = my[w].task /\ my'[w].next = my[w].next

\* The tasks in the queues are tasks.
LEMMA QueuedAreTasks ==
  ASSUME TypeInv, NEW n \in Node, NEW p \in Priorities
  PROVE  /\ queues[n][p] \in Seq(Task) /\ Queued(n, p) \subseteq Task
         /\ NoTask \notin Queued(n, p)
<1>1. queues[n][p] \in Seq(Task)
  BY Zenon DEF TypeInv
<1>2. Queued(n, p) \subseteq Task
  BY <1>1 DEF Queued, Range
<1> QED BY <1>1, <1>2, SchedulerAssumption, Zenon

\* Tasks stay in one place.
LEMMA PlacesStay ==
  ASSUME TypeInv, PlaceInv, NoNewPlace, queues' = queues
  PROVE  PlaceInv'
<1>1. \A v, w \in Worker : my'[v].task = my'[w].task /\ my'[v].task # NoTask => v = w
  BY DEF PlaceInv, NoNewPlace
<1>2. \A th, u \in Thread :
        pc'[th] = "enqueue" /\ pc'[u] = "enqueue" /\ my'[th].job = my'[u].job => th = u
  BY Zenon DEF PlaceInv, NoNewPlace
<1>3. \A th \in Thread, w \in Worker :
        pc'[th] = "enqueue" /\ my'[w].task # NoTask => my'[w].task # my'[th].job
  BY Zenon DEF PlaceInv, NoNewPlace
<1>4. \A n \in Node, p \in Priorities, th \in Thread :
        pc'[th] = "enqueue" => my'[th].job \notin Queued(n, p)
  BY Zenon DEF PlaceInv, NoNewPlace
<1>5. \A n \in Node, p \in Priorities, w \in Worker : my'[w].task \notin Queued(n, p)
  BY QueuedAreTasks DEF PlaceInv, NoNewPlace
<1>6. \A n, p : Queued(n, p)' = Queued(n, p)
  BY Zenon DEF Queued
<1> QED BY <1>1, <1>2, <1>3, <1>4, <1>5, <1>6, Zenon DEF PlaceInv

\* They stay marked and executed as they are.
LEMMA OnceStays ==
  ASSUME OnceInv, NoNewPlace, queues' = queues, enqueued' = enqueued,
         executions' = executions, done' = done, pending' = pending
  PROVE  OnceInv'
<1>1. \A th \in Thread : pc'[th] = "enqueue" => enqueued[my'[th].job] /\ executions[my'[th].job] = 0
  BY DEF OnceInv, NoNewPlace
<1>2. \A w \in Worker : my'[w].task # NoTask => enqueued[my'[w].task]
  BY Zenon DEF OnceInv, NoNewPlace
<1>3. \A n, p : Queued(n, p)' = Queued(n, p)
  BY Zenon DEF Queued
<1> QED BY <1>1, <1>2, <1>3, Zenon DEF OnceInv

\* The same calls have been made, and the same tasks have finished.
LEMMA FinishedStays ==
  ASSUME SameFinishing
  PROVE  /\ \A t : Finished(t)' <=> Finished(t)
         /\ \A e : Called(e)' <=> Called(e)
<1>1. ASSUME NEW t PROVE Finished(t)' <=> Finished(t)
  BY Zenon DEF SameFinishing, Finished
<1>2. ASSUME NEW e PROVE Called(e)' <=> Called(e)
  BY Zenon DEF SameFinishing, Called
<1> QED BY <1>1, <1>2, Zenon

\* Then the counts and the outputs are right if they stay.
LEMMA CallsStay ==
  ASSUME CallInv, OutputInv, SameFinishing, pending' = pending, output' = output
  PROVE  CallInv' /\ OutputInv'
<1>1. workload' = workload
  BY Zenon DEF SameFinishing
<1>2. \A t : Finished(t)' <=> Finished(t)
  BY FinishedStays, Zenon
<1>3. \A e : Called(e)' <=> Called(e)
  BY FinishedStays, Zenon
<1>4. Successors' = Successors
  BY <1>1, Zenon DEF Successors
<1>5. ASSUME NEW t \in Task
      PROVE  Uncalled(t)' = Uncalled(t)
  <2>1. CallsTo(t)' = CallsTo(t)
    BY <1>4, Zenon DEF CallsTo
  <2> QED BY <2>1, <1>3, Zenon DEF Uncalled
<1>6. CallInv'
  BY <1>5, Zenon DEF CallInv
<1>7. OutputInv'
  BY <1>2, <1>4, Zenon DEF OutputInv
<1> QED BY <1>6, <1>7, Zenon

-----------------------------------------------------------------------------
(* Steps that move a task from one place to another.                       *)

\* A worker that has no task takes the first of a queue.
LEMMA TaskTaken ==
  ASSUME Inv, NEW w \in Worker, NEW n \in Node, NEW p \in Priorities,
         queues[n][p] # <<>>, my[w].task = NoTask,
         queues' = [queues EXCEPT ![n][p] = Tail(@)],
         my'[w].task = Head(queues[n][p]),
         \A v \in Worker \ {w} : my'[v].task = my[v].task,
         \A th \in Thread :
           pc'[th] = "enqueue" => pc[th] = "enqueue" /\ my'[th].job = my[th].job,
         enqueued' = enqueued, executions' = executions, done' = done, pending' = pending
  PROVE  /\ queues' \in [Node -> [Priorities -> Seq(Task)]]
         /\ my'[w].task \in Task /\ executions[my'[w].task] = 0 /\ ~done[my'[w].task]
         /\ PlaceInv' /\ OnceInv'
<1> DEFINE t == Head(queues[n][p])
<1>1. TypeInv /\ PlaceInv /\ OnceInv /\ NoTask \notin Task
  BY SchedulerAssumption, Zenon DEF Inv
<1>2. queues[n][p] \in Seq(Task) /\ Distinct(queues[n][p])
  BY <1>1, QueuedAreTasks, Zenon DEF PlaceInv
<1>3. /\ t \in Task /\ t \in Queued(n, p) /\ Tail(queues[n][p]) \in Seq(Task)
      /\ Distinct(Tail(queues[n][p])) /\ Range(Tail(queues[n][p])) = Queued(n, p) \ {t}
  BY <1>2, Popped, Zenon DEF Queued
<1>4. queues \in [Node -> [Priorities -> Seq(Task)]]
  BY <1>1, Zenon DEF TypeInv
<1>5. /\ queues' \in [Node -> [Priorities -> Seq(Task)]]
      /\ queues'[n][p] = Tail(queues[n][p])
      /\ \A m \in Node, q \in Priorities : m # n \/ q # p => queues'[m][q] = queues[m][q]
  BY <1>3, <1>4, Zenon
<1>6. \A m \in Node, q \in Priorities :
        /\ Distinct(queues'[m][q])
        /\ \A x : x \in Queued(m, q)' => x \in Queued(m, q) /\ x # t
  <2>1. Distinct(queues'[n][p]) /\ Queued(n, p)' = Queued(n, p) \ {t}
    BY <1>3, <1>5, Zenon DEF Queued
  <2>2. ASSUME NEW m \in Node, NEW q \in Priorities, m # n \/ q # p
        PROVE  Distinct(queues'[m][q]) /\ Queued(m, q)' = Queued(m, q) /\ t \notin Queued(m, q)
    BY <2>2, <1>1, <1>3, <1>5 DEF Queued, PlaceInv
  <2> QED BY <2>1, <2>2, Zenon
<1>7. t \in Task /\ t \in Queued(n, p) /\ my'[w].task = t
  BY <1>3, Zenon
<1>8. executions[t] = 0 /\ enqueued[t] /\ ~done[t]
  BY <1>1, <1>7 DEF OnceInv
<1> HIDE DEF t
<1>9. PlaceInv'
  <2>1. \A v, u \in Worker : my'[v].task = my'[u].task /\ my'[v].task # NoTask => v = u
    BY <1>1, <1>7 DEF PlaceInv
  <2>2. \A th, u \in Thread :
          pc'[th] = "enqueue" /\ pc'[u] = "enqueue" /\ my'[th].job = my'[u].job => th = u
    BY <1>1 DEF PlaceInv
  <2>3. \A th \in Thread, v \in Worker :
          pc'[th] = "enqueue" /\ my'[v].task # NoTask => my'[v].task # my'[th].job
    BY <1>1, <1>7 DEF PlaceInv
  <2>4. \A m, k \in Node, q, r \in Priorities : \A x \in Task :
          x \in Queued(m, q)' /\ x \in Queued(k, r)' => m = k /\ q = r
    BY <1>1, <1>6 DEF PlaceInv
  <2>5. \A m \in Node, q \in Priorities, th \in Thread :
          pc'[th] = "enqueue" => my'[th].job \notin Queued(m, q)'
    BY <1>1, <1>6 DEF PlaceInv
  <2>6. \A m \in Node, q \in Priorities, v \in Worker : my'[v].task \notin Queued(m, q)'
    BY <1>1, <1>6, <1>7 DEF PlaceInv
  <2> QED BY <2>1, <2>2, <2>3, <2>4, <2>5, <2>6, <1>6, Zenon DEF PlaceInv
<1>10. OnceInv'
  <2>1. \A th \in Thread :
          pc'[th] = "enqueue" => enqueued[my'[th].job] /\ executions[my'[th].job] = 0
    BY <1>1 DEF OnceInv
  <2>2. \A v \in Worker : my'[v].task # NoTask => enqueued[my'[v].task]
    BY <1>1, <1>7, <1>8 DEF OnceInv
  <2>3. \A m \in Node, q \in Priorities : \A x \in Queued(m, q)' :
          enqueued[x] /\ executions[x] = 0
    BY <1>1, <1>6 DEF OnceInv
  <2> QED BY <2>1, <2>2, <2>3, <1>1 DEF OnceInv
<1> QED BY <1>5, <1>7, <1>8, <1>9, <1>10, Zenon

\* A task that is about to be in no other place is put into a queue.
LEMMA TaskPut ==
  ASSUME Inv, NoNewPlace, NEW t \in Task, NEW n \in Node, NEW p \in Priorities,
         queues' = [queues EXCEPT ![n][p] = Append(@, t)],
         \A m \in Node, q \in Priorities : t \notin Queued(m, q),
         \A v \in Worker : my'[v].task # t,
         \A th \in Thread : pc'[th] = "enqueue" => my'[th].job # t,
         enqueued[t], executions[t] = 0,
         enqueued' = enqueued, executions' = executions, done' = done, pending' = pending
  PROVE  queues' \in [Node -> [Priorities -> Seq(Task)]] /\ PlaceInv' /\ OnceInv'
<1>1. TypeInv /\ PlaceInv /\ OnceInv /\ NoTask \notin Task
  BY SchedulerAssumption, Zenon DEF Inv
<1>2. queues[n][p] \in Seq(Task) /\ Distinct(queues[n][p]) /\ t \notin Range(queues[n][p])
  BY <1>1, QueuedAreTasks, Zenon DEF PlaceInv, Queued
<1>3. /\ Append(queues[n][p], t) \in Seq(Task) /\ Distinct(Append(queues[n][p], t))
      /\ Range(Append(queues[n][p], t)) = Queued(n, p) \cup {t}
  BY <1>2, Pushed, Zenon DEF Queued
<1>4. queues \in [Node -> [Priorities -> Seq(Task)]]
  BY <1>1, Zenon DEF TypeInv
<1>5. /\ queues' \in [Node -> [Priorities -> Seq(Task)]]
      /\ queues'[n][p] = Append(queues[n][p], t)
      /\ \A m \in Node, q \in Priorities : m # n \/ q # p => queues'[m][q] = queues[m][q]
  BY <1>3, <1>4, Zenon
<1>6. \A m \in Node, q \in Priorities :
        /\ Distinct(queues'[m][q])
        /\ \A x : x \in Queued(m, q)' => x \in Queued(m, q) \/ (x = t /\ m = n /\ q = p)
  <2>1. Distinct(queues'[n][p]) /\ Queued(n, p)' = Queued(n, p) \cup {t}
    BY <1>3, <1>5, Zenon DEF Queued
  <2>2. ASSUME NEW m \in Node, NEW q \in Priorities, m # n \/ q # p
        PROVE  Distinct(queues'[m][q]) /\ Queued(m, q)' = Queued(m, q)
    BY <2>2, <1>1, <1>5, Zenon DEF Queued, PlaceInv
  <2> QED BY <2>1, <2>2, Zenon
<1>7. PlaceInv'
  <2>1. \A v, w \in Worker : my'[v].task = my'[w].task /\ my'[v].task # NoTask => v = w
    BY <1>1 DEF PlaceInv, NoNewPlace
  <2>2. \A th, u \in Thread :
          pc'[th] = "enqueue" /\ pc'[u] = "enqueue" /\ my'[th].job = my'[u].job => th = u
    BY <1>1 DEF PlaceInv, NoNewPlace
  <2>3. \A th \in Thread, w \in Worker :
          pc'[th] = "enqueue" /\ my'[w].task # NoTask => my'[w].task # my'[th].job
    BY <1>1 DEF PlaceInv, NoNewPlace
  <2>4. \A m, k \in Node, q, r \in Priorities : \A x \in Task :
          x \in Queued(m, q)' /\ x \in Queued(k, r)' => m = k /\ q = r
    BY <1>1, <1>6 DEF PlaceInv
  <2>5. \A m \in Node, q \in Priorities, th \in Thread :
          pc'[th] = "enqueue" => my'[th].job \notin Queued(m, q)'
    BY <1>1, <1>6 DEF PlaceInv, NoNewPlace
  <2>6. \A m \in Node, q \in Priorities, w \in Worker : my'[w].task \notin Queued(m, q)'
    BY <1>1, <1>6, QueuedAreTasks DEF PlaceInv, NoNewPlace
  <2> QED BY <2>1, <2>2, <2>3, <2>4, <2>5, <2>6, <1>6, Zenon DEF PlaceInv
<1>8. OnceInv'
  <2>1. \A th \in Thread :
          pc'[th] = "enqueue" => enqueued[my'[th].job] /\ executions[my'[th].job] = 0
    BY <1>1 DEF OnceInv, NoNewPlace
  <2>2. \A w \in Worker : my'[w].task # NoTask => enqueued[my'[w].task]
    BY <1>1, Zenon DEF OnceInv, NoNewPlace
  <2>3. \A m \in Node, q \in Priorities : \A x \in Queued(m, q)' :
          enqueued[x] /\ executions[x] = 0
    BY <1>1, <1>6 DEF OnceInv
  <2> QED BY <2>1, <2>2, <2>3, <1>1, Zenon DEF OnceInv
<1> QED BY <1>5, <1>7, <1>8, Zenon

-----------------------------------------------------------------------------
(* Steps of a worker that finishes its task.                               *)

\* A call is a task and a place among its successors.
LEMMA CallsType ==
  ASSUME workload \in Workloads, NEW t \in Task
  PROVE  \A e : e \in CallsTo(t) <=>
           \E p \in Task : \E i \in 1..Len(Successors[p]) : e = <<p, i>> /\ Successors[p][i] = t
<1>1. Successors \in [Task -> Seq(Task)]
  BY WorkloadType, Zenon
<1> DEFINE Of(p) == {p} \X DOMAIN Successors[p]
           All == UNION {Of(p) : p \in Task}
<1>7. ASSUME NEW e
      PROVE  e \in All <=> \E p \in Task : \E i \in 1..Len(Successors[p]) : e = <<p, i>>
  <2>1. \A p \in Task : DOMAIN Successors[p] = 1..Len(Successors[p])
    BY <1>1
  <2> QED BY <2>1
<1>8. ASSUME NEW e
      PROVE  e \in CallsTo(t) <=>
              \E p \in Task : \E i \in 1..Len(Successors[p]) : e = <<p, i>> /\ Successors[p][i] = t
  <2>1. e \in CallsTo(t) <=> e \in All /\ Successors[e[1]][e[2]] = t
    BY Zenon DEF CallsTo
  <2> HIDE DEF All
  <2> QED BY <2>1, <1>7
<1> QED BY <1>8, Zenon

\* If the calls of the program stay as they are, so do the counts.
LEMMA NoCallMade ==
  ASSUME CallInv, workload \in Workloads, workload' = workload, pending' = pending,
         \A p \in Task : \A i \in 1..Len(Successors[p]) : Called(<<p, i>>)' <=> Called(<<p, i>>)
  PROVE  CallInv'
<1>1. Successors' = Successors
  BY Zenon DEF Successors
<1>2. ASSUME NEW t \in Task PROVE Uncalled(t)' = Uncalled(t)
  <2>1. CallsTo(t)' = CallsTo(t)
    BY <1>1, Zenon DEF CallsTo
  <2>2. \A e \in CallsTo(t) : Called(e)' <=> Called(e)
    BY CallsType
  <2> QED BY <2>1, <2>2, Zenon DEF Uncalled
<1> QED BY <1>2, Zenon DEF CallInv

-----------------------------------------------------------------------------
(* The steps.                                                              *)

Typed(th) ==
  /\ th \in Thread /\ my \in [Thread -> Locals] /\ my[th] \in Locals
  /\ pc \in [Thread -> Label] /\ Worker \subseteq Thread /\ NoTask \notin Task

Fields(th) ==
  /\ my[th].task \in Task \cup {NoTask} /\ my[th].job \in Task \cup {NoTask}
  /\ my[th].todo \subseteq Task /\ my[th].inputs \subseteq Task /\ my[th].unread \subseteq Node
  /\ my[th].node \in Node /\ my[th].priority \in 0..4 /\ my[th].next \in Nat \ {0}
  /\ my[th].caller \in {"schedule", "successors"} /\ my[th].seen \in Int

Given ==
  /\ Successors \in [Task -> Seq(Task)] /\ Priority \in [Task -> Priorities]
  /\ Spawn \in [Task -> SUBSET Task] /\ NodeOf \in [Worker -> Node]
  /\ UsedNodes \subseteq Node
  /\ Successors' = Successors /\ \A t : Predecessors(t)' = Predecessors(t)

\* What every step may use of the types.
LEMMA Facts ==
  ASSUME Inv, NEW th \in Thread, workload' = workload
  PROVE  Typed(th) /\ Fields(th) /\ Given
<1>1. Typed(th)
  BY SchedulerAssumption, Zenon DEF Inv, TypeInv, Thread, Typed
<1>2. Fields(th)
  BY <1>1, Zenon DEF Locals, Typed, Fields
<1>3. Successors' = Successors
  BY Zenon DEF Successors
<1>4. \A t : Predecessors(t)' = Predecessors(t)
  BY <1>3, Zenon DEF Predecessors
<1> QED BY <1>1, <1>2, <1>3, <1>4, WorkloadType, Zenon DEF Given, Inv, TypeInv

\* What is said of a worker changes only with what it is said of.
LEMMA WorkerStays ==
  ASSUME Inv, Given, NEW v \in Worker, pc'[v] = pc[v], my'[v] = my[v],
         my[v].task # NoTask =>
           executions'[my[v].task] = executions[my[v].task] /\ done'[my[v].task] = done[my[v].task]
  PROVE  WorkerAt(v)'
<1>1. WorkerAt(v) /\ Predecessors(my[v].task)' = Predecessors(my[v].task)
  BY Zenon DEF Inv, LocalInv, Predecessors, Given
<1>2. PICK t : t = my[v].task
  OBVIOUS
<1>3. my'[v].task = t /\ my'[v].inputs = my[v].inputs
  BY <1>2, Zenon
<1>4. CASE t = NoTask
  <2>1. pc[v] \in {"loop", "steal", "exit"}
    BY <1>1, <1>2, <1>4, Zenon DEF WorkerAt
  <2> QED BY <1>3, <1>4, <2>1 DEF WorkerAt
<1>5. CASE t # NoTask
  <2>1. executions'[t] = executions[t] /\ done'[t] = done[t]
    BY <1>2, <1>5, Zenon
  <2> QED BY <1>1, <1>2, <1>3, <1>5, <2>1, Zenon DEF WorkerAt
<1> QED BY <1>4, <1>5, Zenon

\* The same of a thread.
LEMMA ThreadStays ==
  ASSUME Inv, NEW u \in Thread, pc'[u] = pc[u], my'[u] = my[u],
         pc[u] \in {"push", "enqueue"} => pending'[my[u].job] = pending[my[u].job]
  PROVE  ThreadAt(u)'
BY Zenon DEF Inv, LocalInv, ThreadAt

\* A thread takes one of its tasks to schedule.
LEMMA ScheduleKeeps ==
  ASSUME Inv, NEW th \in Thread, Schedule(th), workload' = workload
  PROVE  Inv'
<1>t. Typed(th) /\ Fields(th) /\ Given
  BY Facts, Zenon DEF Thread
<1>1. PICK t \in my[th].todo, n \in Node :
        Becomes(th, [my[th] EXCEPT !.todo = @ \ {t}, !.job = t, !.node = n,
                                   !.priority = Priority[t], !.caller = "schedule"])
  <2>1. (IF th = Main THEN UsedNodes ELSE {NodeOf[th]}) \subseteq Node
    BY <1>t, Zenon DEF Thread, Given
  <2> QED BY <2>1, Zenon DEF Schedule
<1>2. t \in Task /\ Priority[t] \in Priorities /\ Priority[t] \in 0..4
  BY <1>t DEF Fields, Given, Priorities
<1>3. /\ pc[th] = "schedule" /\ pc' = [pc EXCEPT ![th] = "ready"]
      /\ UNCHANGED <<tasks, queues, num_finished>>
  BY Zenon DEF Schedule, Goto
<1>a. PICK r : r = [my[th] EXCEPT !.todo = @ \ {t}, !.job = t,
                         !.node = n, !.priority = Priority[t], !.caller = "schedule"]
  BY Zenon
<1>b. my' = [my EXCEPT ![th] = r]
  BY <1>1, <1>a, Zenon DEF Becomes
<1>c. r \in Locals
  BY <1>a, <1>t, LocalsUpdates, <1>2, Zenon DEF Typed, Fields
<1>d. /\ r.task = my[th].task /\ r.job = t /\ r.node = n /\ r.priority = Priority[t]
      /\ r.caller = "schedule" /\ r.inputs = my[th].inputs /\ r.next = my[th].next
  BY <1>a, <1>t, Zenon DEF Typed, Locals
<1>T. TypeInv'
  BY <1>t, <1>2, <1>3, <1>b, <1>c, <1>d, Zenon DEF Inv, Typed, Fields, TypeInv, Label, tasks
<1>L. LocalInv'
  BY <1>t, <1>2, <1>3, <1>b, <1>c, <1>d DEF Inv, Typed, Fields, Given, LocalInv, ThreadAt, WorkerAt, tasks
<1>N. NoNewPlace
  BY <1>t, <1>2, <1>3, <1>b, <1>c, <1>d, Zenon DEF Inv, Typed, Fields, NoNewPlace
<1>S. SameFinishing
  BY <1>t, <1>2, <1>3, <1>b, <1>c, <1>d, Zenon DEF Inv, Typed, Fields, SameFinishing, Finishing, LocalInv, ThreadAt, WorkerAt, tasks
<1>P. PlaceInv'
  BY <1>2, <1>3, <1>b, <1>c, <1>d, <1>N, PlacesStay, Zenon DEF Inv, tasks
<1>O. OnceInv'
  BY <1>2, <1>3, <1>b, <1>c, <1>d, <1>N, OnceStays, Zenon DEF Inv, tasks
<1>C. CallInv' /\ OutputInv'
  BY <1>2, <1>3, <1>b, <1>c, <1>d, <1>S, CallsStay, Zenon DEF Inv, tasks
<1> QED BY <1>T, <1>L, <1>P, <1>O, <1>C, Zenon DEF Inv

\* It goes on with the task if no predecessor is left.
LEMMA CheckReadyKeeps ==
  ASSUME Inv, NEW th \in Thread, CheckReady(th), workload' = workload
  PROVE  Inv'
<1>t. Typed(th) /\ Fields(th) /\ Given
  BY Facts, Zenon DEF Thread
<1>1. PICK l : l = IF pending[my[th].job] = 0 THEN "push" ELSE "schedule"
  BY Zenon
<1>2. l \in {"push", "schedule"} /\ (l = "push" => pending[my[th].job] = 0)
  BY <1>1, Zenon
<1>3. /\ pc[th] = "ready" /\ pc' = [pc EXCEPT ![th] = l]
      /\ UNCHANGED <<tasks, queues, num_finished, my>>
  BY <1>1, Zenon DEF CheckReady, Goto
<1>T. TypeInv'
  BY <1>t, <1>2, <1>3, Zenon DEF Inv, Typed, Fields, TypeInv, Label, tasks
<1>L. LocalInv'
  BY <1>t, <1>2, <1>3 DEF Inv, Typed, Fields, Given, LocalInv, ThreadAt, WorkerAt, tasks
<1>N. NoNewPlace
  BY <1>t, <1>2, <1>3, Zenon DEF Inv, Typed, Fields, NoNewPlace
<1>S. SameFinishing
  BY <1>t, <1>2, <1>3, Zenon DEF Inv, Typed, Fields, SameFinishing, Finishing, LocalInv, ThreadAt, WorkerAt, tasks
<1>P. PlaceInv'
  BY <1>2, <1>3, <1>N, PlacesStay, Zenon DEF Inv, tasks
<1>O. OnceInv'
  BY <1>2, <1>3, <1>N, OnceStays, Zenon DEF Inv, tasks
<1>C. CallInv' /\ OutputInv'
  BY <1>2, <1>3, <1>S, CallsStay, Zenon DEF Inv, tasks
<1> QED BY <1>T, <1>L, <1>P, <1>O, <1>C, Zenon DEF Inv

\* It counts the task it has put into a queue.
LEMMA CountTaskKeeps ==
  ASSUME Inv, NEW th \in Thread, CountTask(th), workload' = workload
  PROVE  Inv'
<1>t. Typed(th) /\ Fields(th) /\ Given
  BY Facts, Zenon DEF Thread
<1>1. PICK l : l = my[th].caller
  BY Zenon
<1>3. /\ pc[th] = "enqueued" /\ pc' = [pc EXCEPT ![th] = l]
      /\ UNCHANGED <<tasks, queues, num_finished, my>>
  BY <1>1, Zenon DEF CountTask, Goto
<1>T. TypeInv'
  BY <1>t, <1>1, <1>3, Zenon DEF Inv, Typed, Fields, TypeInv, Label, tasks
<1>L. LocalInv'
  BY <1>t, <1>1, <1>3 DEF Inv, Typed, Fields, Given, LocalInv, ThreadAt, WorkerAt, tasks
<1>N. NoNewPlace
  BY <1>t, <1>1, <1>3, Zenon DEF Inv, Typed, Fields, NoNewPlace
<1>S. SameFinishing
  BY <1>t, <1>1, <1>3, Zenon DEF Inv, Typed, Fields, SameFinishing, Finishing, LocalInv, ThreadAt, WorkerAt, tasks
<1>P. PlaceInv'
  BY <1>1, <1>3, <1>N, PlacesStay, Zenon DEF Inv, tasks
<1>O. OnceInv'
  BY <1>1, <1>3, <1>N, OnceStays, Zenon DEF Inv, tasks
<1>C. CallInv' /\ OutputInv'
  BY <1>1, <1>3, <1>S, CallsStay, Zenon DEF Inv, tasks
<1> QED BY <1>T, <1>L, <1>P, <1>O, <1>C, Zenon DEF Inv

\* It marks the task as enqueued, unless someone else has.
LEMMA MarkKeeps ==
  ASSUME Inv, NEW th \in Thread, MarkAsEnqueued(th), workload' = workload
  PROVE  Inv'
<1>t. Typed(th) /\ Fields(th) /\ Given
  BY Facts, Zenon DEF Thread
<1>1. PICK j : j = my[th].job
  BY Zenon
<1>2. /\ j \in Task /\ pending[j] = 0 /\ pc[th] = "push" /\ my[th].priority \in Priorities
      /\ enqueued \in [Task -> BOOLEAN]
  BY <1>1, <1>t, Zenon DEF Inv, TypeInv, LocalInv, ThreadAt, WorkerAt, Typed, MarkAsEnqueued, Goto
<1>3. /\ pc' = [pc EXCEPT ![th] = IF enqueued[j] THEN my[th].caller ELSE "enqueue"]
      /\ enqueued' = [enqueued EXCEPT ![j] = TRUE]
      /\ UNCHANGED <<pending, executions, output, done, queues, num_finished, my>>
  BY <1>1, Zenon DEF MarkAsEnqueued, Goto
<1>4. CASE enqueued[j]
  <2>1. enqueued' = enqueued
    BY <1>2, <1>3, <1>4, Zenon
  <2>2. PICK l : l = my[th].caller
    BY Zenon
  <2>3. /\ pc' = [pc EXCEPT ![th] = l]
        /\ UNCHANGED <<tasks, queues, num_finished, my>>
    BY <1>3, <1>4, <2>1, <2>2, Zenon DEF tasks
  <2>T. TypeInv'
    BY <1>t, <1>2, <2>2, <2>3, Zenon DEF Inv, Typed, Fields, TypeInv, Label, tasks
  <2>L. LocalInv'
    BY <1>t, <1>2, <2>2, <2>3 DEF Inv, Typed, Fields, Given, LocalInv, ThreadAt, WorkerAt, tasks
  <2>N. NoNewPlace
    BY <1>t, <1>2, <2>2, <2>3, Zenon DEF Inv, Typed, Fields, NoNewPlace
  <2>S. SameFinishing
    BY <1>t, <1>2, <2>2, <2>3, Zenon DEF Inv, Typed, Fields, SameFinishing, Finishing, LocalInv, ThreadAt, WorkerAt, tasks
  <2>P. PlaceInv'
    BY <1>2, <2>2, <2>3, <2>N, PlacesStay, Zenon DEF Inv, tasks
  <2>O. OnceInv'
    BY <1>2, <2>2, <2>3, <2>N, OnceStays, Zenon DEF Inv, tasks
  <2>C. CallInv' /\ OutputInv'
    BY <1>2, <2>2, <2>3, <2>S, CallsStay, Zenon DEF Inv, tasks
  <2> QED BY <2>T, <2>L, <2>P, <2>O, <2>C, Zenon DEF Inv
<1>5. CASE ~enqueued[j]
  <2>1. pc' = [pc EXCEPT ![th] = "enqueue"]
    BY <1>3, <1>5, Zenon
  <2>2. UNCHANGED <<pending, executions, output, done, queues, num_finished, my>>
    BY <1>3, Zenon
  <2>3. /\ enqueued' \in [Task -> BOOLEAN] /\ enqueued'[j]
        /\ \A t \in Task : enqueued'[t] <=> enqueued[t] \/ t = j
    BY <1>2, <1>3, Zenon
  <2>4. executions[j] = 0
    BY <1>2, <1>5 DEF Inv, OnceInv, TypeInv
  <2>5. /\ \A w \in Worker : my[w].task # j
        /\ \A u \in Thread : pc[u] = "enqueue" => my[u].job # j
        /\ \A n \in Node, p \in Priorities : j \notin Queued(n, p)
    BY <1>2, <1>5, <1>t DEF Inv, OnceInv, Typed
  <2>P. PlaceInv'
    <3>1. \A v, u \in Worker : my'[v].task = my'[u].task /\ my'[v].task # NoTask => v = u
      BY <2>2, Zenon DEF Inv, PlaceInv
    <3>2. \A x, u \in Thread :
            pc'[x] = "enqueue" /\ pc'[u] = "enqueue" /\ my'[x].job = my'[u].job => x = u
      BY <1>1, <1>t, <2>1, <2>2, <2>5, Zenon DEF Inv, PlaceInv, Typed
    <3>3. \A x \in Thread, v \in Worker :
            pc'[x] = "enqueue" /\ my'[v].task # NoTask => my'[v].task # my'[x].job
      BY <1>1, <1>t, <2>1, <2>2, <2>5, Zenon DEF Inv, PlaceInv, Typed
    <3>4. \A n, p : Queued(n, p)' = Queued(n, p)
      BY <2>2, Zenon DEF Queued
    <3>5. \A n \in Node, p \in Priorities, x \in Thread :
            pc'[x] = "enqueue" => my'[x].job \notin Queued(n, p)
      BY <1>1, <1>t, <2>1, <2>2, <2>5, Zenon DEF Inv, PlaceInv, Typed
    <3> QED BY <2>2, <3>1, <3>2, <3>3, <3>4, <3>5, Zenon DEF Inv, PlaceInv
  <2>O. OnceInv'
    <3>1. \A u \in Thread :
            pc'[u] = "enqueue" => enqueued'[my'[u].job] /\ executions[my'[u].job] = 0
      <4>1. \A u \in Thread : pc'[u] = "enqueue" => my[u].job = j \/ (pc[u] = "enqueue" /\ my[u].job \in Task)
        BY <1>1, <1>t, <2>1, Zenon DEF Typed, Inv, LocalInv, ThreadAt, WorkerAt
      <4> QED BY <4>1, <1>2, <2>2, <2>3, <2>4 DEF Inv, OnceInv
    <3>2. \A v \in Worker : my'[v].task # NoTask => enqueued'[my'[v].task]
      <4>1. \A v \in Worker : my[v].task \in Task \cup {NoTask}
        BY <1>t, Zenon DEF Typed, Locals
      <4> QED BY <4>1, <2>2, <2>3, Zenon DEF Inv, OnceInv
    <3>3. \A n \in Node, p \in Priorities : \A x \in Queued(n, p)' :
            enqueued'[x] /\ executions[x] = 0
      <4>1. \A n \in Node, p \in Priorities : Queued(n, p)' = Queued(n, p) /\ Queued(n, p) \subseteq Task
        BY <2>2, QueuedAreTasks, Zenon DEF Queued, Inv
      <4> QED BY <4>1, <2>3 DEF Inv, OnceInv
    <3>4. \A t \in Task :
            /\ executions[t] <= 1
            /\ executions[t] = 1 => enqueued'[t]
            /\ done[t] => executions[t] = 1
            /\ enqueued'[t] => pending[t] = 0
      BY <1>2, <2>3, Zenon DEF Inv, OnceInv
    <3> QED BY <2>2, <3>1, <3>2, <3>3, <3>4 DEF OnceInv
  <2>T. TypeInv'
    BY <1>t, <1>1, <1>2, <2>1, <2>2, <2>3, Zenon DEF Inv, Typed, Fields, TypeInv, Label, tasks
  <2>L. LocalInv'
    BY <1>t, <1>1, <1>2, <2>1, <2>2, <2>3 DEF Inv, Typed, Fields, Given, LocalInv, ThreadAt, WorkerAt, tasks
  <2>S. SameFinishing
    BY <1>t, <1>1, <1>2, <2>1, <2>2, <2>3 DEF Inv, Typed, Fields, SameFinishing, Finishing, LocalInv, ThreadAt, WorkerAt, tasks
  <2>C. CallInv' /\ OutputInv'
    BY <1>1, <1>2, <2>1, <2>2, <2>3, <2>S, CallsStay, Zenon DEF Inv, tasks
  <2> QED BY <2>T, <2>L, <2>P, <2>O, <2>C, Zenon DEF Inv
<1> QED BY <1>4, <1>5, Zenon

\* It puts the task into the queue of the node.
LEMMA EnqueueKeeps ==
  ASSUME Inv, NEW th \in Thread, Enqueue(th), workload' = workload
  PROVE  Inv'
<1>t. Typed(th) /\ Fields(th) /\ Given
  BY Facts, Zenon DEF Thread
<1>1. PICK j, n, p : j = my[th].job /\ n = my[th].node /\ p = my[th].priority
  BY Zenon
<1>2. /\ j \in Task /\ n \in Node /\ p \in Priorities
      /\ pc[th] = "enqueue" /\ pc' = [pc EXCEPT ![th] = "enqueued"]
      /\ UNCHANGED <<tasks, num_finished, my>>
  BY <1>1, <1>t, Zenon DEF Inv, LocalInv, ThreadAt, WorkerAt, Typed, Fields, Enqueue, Goto
<1>3. queues' = [queues EXCEPT ![n][p] = Append(@, j)]
  BY <1>1, Zenon DEF Enqueue
<1>N. NoNewPlace
  BY <1>t, <1>2, Zenon DEF NoNewPlace, Typed
<1>4. /\ enqueued[j] /\ executions[j] = 0
      /\ \A m \in Node, q \in Priorities : j \notin Queued(m, q)
      /\ \A v \in Worker : my'[v].task # j
      /\ \A u \in Thread : pc'[u] = "enqueue" => my'[u].job # j
  BY <1>1, <1>2, <1>t DEF Inv, PlaceInv, OnceInv, Typed
<1>5. queues' \in [Node -> [Priorities -> Seq(Task)]] /\ PlaceInv' /\ OnceInv'
  BY <1>N, <1>2, <1>3, <1>4, TaskPut, Zenon DEF tasks
<1>T. TypeInv'
  BY <1>t, <1>2, <1>5, Zenon DEF Inv, Typed, Fields, TypeInv, Label, tasks
<1>L. LocalInv'
  BY <1>t, <1>2, <1>5 DEF Inv, Typed, Fields, Given, LocalInv, ThreadAt, WorkerAt, tasks
<1>S. SameFinishing
  BY <1>t, <1>2, <1>5, Zenon DEF Inv, Typed, Fields, SameFinishing, Finishing, LocalInv, ThreadAt, WorkerAt, tasks
<1>C. CallInv' /\ OutputInv'
  BY <1>2, <1>5, <1>S, CallsStay, Zenon DEF Inv, tasks
<1> QED BY <1>T, <1>L, <1>5, <1>C, Zenon DEF Inv

\* A thief puts a task back that it may not steal.
LEMMA PushBackKeeps ==
  ASSUME Inv, NEW w \in Worker, PushBack(w), workload' = workload
  PROVE  Inv'
<1>t. Typed(w) /\ Fields(w) /\ Given
  BY Facts, Zenon DEF Thread
<1>1. PICK j, n, p : j = my[w].task /\ n = my[w].node /\ p = my[w].priority
  BY Zenon
<1>2. /\ j \in Task /\ n \in Node /\ p \in Priorities
      /\ pc[w] = "pushback" /\ pc' = [pc EXCEPT ![w] = "steal"] /\ executions[j] = 0
      /\ UNCHANGED <<tasks, num_finished>>
  BY <1>1, <1>t, Zenon DEF Inv, LocalInv, ThreadAt, WorkerAt, Typed, Fields, PushBack, Goto
<1>3. queues' = [queues EXCEPT ![n][p] = Append(@, j)]
  BY <1>1, Zenon DEF PushBack
<1>e. my[w].priority + 1 \in 0..4 /\ Becomes(w, [my[w] EXCEPT !.task = NoTask, !.priority = @ + 1])
  BY <1>1, <1>2 DEF PushBack, Priorities
<1>a. PICK r : r = [my[w] EXCEPT !.task = NoTask, !.priority = @ + 1]
  BY Zenon
<1>b. my' = [my EXCEPT ![w] = r]
  BY <1>e, <1>a, Zenon DEF Becomes
<1>c. r \in Locals
  BY <1>a, <1>t, LocalsUpdates, <1>e, Zenon DEF Typed, Fields
<1>d. /\ r.task = NoTask /\ r.job = my[w].job /\ r.node = my[w].node /\ r.priority = my[w].priority + 1
      /\ r.caller = my[w].caller /\ r.inputs = my[w].inputs /\ r.next = my[w].next
  BY <1>a, <1>t, Zenon DEF Typed, Locals
<1>N. NoNewPlace
  BY <1>t, <1>2, <1>b, <1>c, <1>d, Zenon DEF NoNewPlace, Typed
<1>4. /\ enqueued[j]
      /\ \A m \in Node, q \in Priorities : j \notin Queued(m, q)
      /\ \A v \in Worker : my'[v].task # j
      /\ \A u \in Thread : pc'[u] = "enqueue" => my'[u].job # j
  BY <1>1, <1>2, <1>b, <1>c, <1>d, <1>t DEF Inv, PlaceInv, OnceInv, Typed
<1>5. queues' \in [Node -> [Priorities -> Seq(Task)]] /\ PlaceInv' /\ OnceInv'
  BY <1>N, <1>2, <1>3, <1>4, TaskPut, Zenon DEF tasks
<1>T. TypeInv'
  BY <1>t, <1>2, <1>5, <1>b, <1>c, <1>d, Zenon DEF Inv, Typed, Fields, TypeInv, Label, tasks
<1>6. /\ my'[w] = r /\ pc'[w] = "steal"
      /\ \A v \in Thread \ {w} : my'[v] = my[v] /\ pc'[v] = pc[v]
  BY <1>t, <1>2, <1>b, Zenon DEF Typed
<1>L. LocalInv'
  <2>1. \A u \in Thread \ {w} : ThreadAt(u)'
    BY <1>2, <1>6, ThreadStays, Zenon DEF tasks
  <2>2. ThreadAt(w)'
    BY <1>6 DEF ThreadAt
  <2>3. \A v \in Worker \ {w} : WorkerAt(v)'
    BY <1>t, <1>2, <1>6, WorkerStays, Zenon DEF tasks, Thread
  <2>4. WorkerAt(w)'
    BY <1>d, <1>6 DEF WorkerAt
  <2> QED BY <2>1, <2>2, <2>3, <2>4, Zenon DEF LocalInv
<1>S. SameFinishing
  BY <1>t, <1>2, <1>5, <1>b, <1>c, <1>d DEF Inv, Typed, Fields, SameFinishing, Finishing, LocalInv, ThreadAt, WorkerAt, tasks
<1>C. CallInv' /\ OutputInv'
  BY <1>2, <1>5, <1>b, <1>c, <1>d, <1>S, CallsStay, Zenon DEF Inv, tasks
<1> QED BY <1>T, <1>L, <1>5, <1>C, Zenon DEF Inv

\* A worker uncounts the task it has taken.
LEMMA UncountTaskKeeps ==
  ASSUME Inv, NEW w \in Worker, UncountTask(w), workload' = workload
  PROVE  Inv'
<1>t. Typed(w) /\ Fields(w) /\ Given
  BY Facts, Zenon DEF Thread
<1>3. /\ pc[w] = "popped" /\ pc' = [pc EXCEPT ![w] = "execute"]
      /\ UNCHANGED <<tasks, queues, num_finished, my>>
  BY Zenon DEF UncountTask, Goto
<1>T. TypeInv'
  BY <1>t, <1>3, Zenon DEF Inv, Typed, Fields, TypeInv, Label, tasks
<1>L. LocalInv'
  BY <1>t, <1>3 DEF Inv, Typed, Fields, Given, LocalInv, ThreadAt, WorkerAt, tasks
<1>N. NoNewPlace
  BY <1>t, <1>3, Zenon DEF Inv, Typed, Fields, NoNewPlace
<1>S. SameFinishing
  BY <1>t, <1>3, Zenon DEF Inv, Typed, Fields, SameFinishing, Finishing, LocalInv, ThreadAt, WorkerAt, tasks
<1>P. PlaceInv'
  BY <1>3, <1>N, PlacesStay, Zenon DEF Inv, tasks
<1>O. OnceInv'
  BY <1>3, <1>N, OnceStays, Zenon DEF Inv, tasks
<1>C. CallInv' /\ OutputInv'
  BY <1>3, <1>S, CallsStay, Zenon DEF Inv, tasks
<1> QED BY <1>T, <1>L, <1>P, <1>O, <1>C, Zenon DEF Inv

\* A worker takes a task from the queue of its node, or goes to steal one.
LEMMA PullKeeps ==
  ASSUME Inv, NEW w \in Worker, Pull(w), workload' = workload
  PROVE  Inv'
<1>t. Typed(w) /\ Fields(w) /\ Given
  BY Facts, Zenon DEF Thread
<1>1. PICK n, p : n = NodeOf[w] /\ p = FirstLevel(n, 0)
  BY Zenon
<1>2. n \in Node /\ p \in 0..4 /\ (p # 4 => p \in Priorities /\ queues[n][p] # <<>>)
  <2>1. n \in Node
    BY <1>1, <1>t, Zenon DEF Given
  <2> QED BY <1>1, <2>1, FirstLevelFound
<1>3. pc[w] = "loop"
  BY Zenon DEF Pull
<1>4. UNCHANGED <<tasks, num_finished>>
  BY Zenon DEF Pull
<1>5. CASE p = 4
  <2>1. Becomes(w, [my[w] EXCEPT !.node = n, !.priority = 4, !.unread = UsedNodes \ {n}])
    BY <1>1, <1>5, Zenon DEF Pull
  <2>2. pc' = [pc EXCEPT ![w] = "steal"] /\ UNCHANGED queues
    BY <1>1, <1>5, Zenon DEF Pull
  <2>3. UsedNodes \ {n} \subseteq Node /\ 4 \in 0..4
    BY <1>t DEF Given
  <2>a. PICK r : r = [my[w] EXCEPT !.node = n, !.priority = 4, !.unread = UsedNodes \ {n}]
    BY Zenon
  <2>b. my' = [my EXCEPT ![w] = r]
    BY <2>1, <2>a, Zenon DEF Becomes
  <2>c. r \in Locals
    BY <2>a, <1>t, LocalsUpdates, <1>2, <2>3, Zenon DEF Typed, Fields
  <2>d. /\ r.task = my[w].task /\ r.job = my[w].job /\ r.node = n /\ r.priority = 4
        /\ r.caller = my[w].caller /\ r.inputs = my[w].inputs /\ r.next = my[w].next
    BY <2>a, <1>t, Zenon DEF Typed, Locals
  <2>T. TypeInv'
    BY <1>t, <1>3, <1>4, <2>2, <2>b, <2>c, <2>d, Zenon DEF Inv, Typed, Fields, TypeInv, Label, tasks
  <2>L. LocalInv'
    BY <1>t, <1>3, <1>4, <2>2, <2>b, <2>c, <2>d DEF Inv, Typed, Fields, Given, LocalInv, ThreadAt, WorkerAt, tasks
  <2>N. NoNewPlace
    BY <1>t, <1>3, <1>4, <2>2, <2>b, <2>c, <2>d, Zenon DEF Inv, Typed, Fields, NoNewPlace
  <2>S. SameFinishing
    BY <1>t, <1>3, <1>4, <2>2, <2>b, <2>c, <2>d DEF Inv, Typed, Fields, SameFinishing, Finishing, LocalInv, ThreadAt, WorkerAt, tasks
  <2>P. PlaceInv'
    BY <1>3, <1>4, <2>2, <2>b, <2>c, <2>d, <2>N, PlacesStay, Zenon DEF Inv, tasks
  <2>O. OnceInv'
    BY <1>3, <1>4, <2>2, <2>b, <2>c, <2>d, <2>N, OnceStays, Zenon DEF Inv, tasks
  <2>C. CallInv' /\ OutputInv'
    BY <1>3, <1>4, <2>2, <2>b, <2>c, <2>d, <2>S, CallsStay DEF Inv, tasks
  <2> QED BY <2>T, <2>L, <2>P, <2>O, <2>C, Zenon DEF Inv
<1>6. CASE p # 4
  <2>1. Becomes(w, [my[w] EXCEPT !.task = Head(queues[n][p]), !.node = n])
    BY <1>1, <1>6, Zenon DEF Pull
  <2>2. p \in Priorities /\ queues[n][p] # <<>> /\ queues' = [queues EXCEPT ![n][p] = Tail(@)]
    BY <1>1, <1>2, <1>6, Zenon DEF Pull
  <2>3. pc' = [pc EXCEPT ![w] = "popped"]
    BY <1>1, <1>6, Zenon DEF Pull
  <2>4. Head(queues[n][p]) \in Task
    BY <1>2, <2>2 DEF Inv, TypeInv
  <2>a. PICK r : r = [my[w] EXCEPT !.task = Head(queues[n][p]), !.node = n]
    BY Zenon
  <2>b. my' = [my EXCEPT ![w] = r]
    BY <2>1, <2>a, Zenon DEF Becomes
  <2>c. r \in Locals
    BY <2>a, <1>t, LocalsUpdates, <1>2, <2>4, Zenon DEF Typed, Fields
  <2>d. /\ r.task = Head(queues[n][p]) /\ r.job = my[w].job /\ r.node = n /\ r.priority = my[w].priority
        /\ r.caller = my[w].caller /\ r.inputs = my[w].inputs /\ r.next = my[w].next
    BY <2>a, <1>t, Zenon DEF Typed, Locals
  <2>P. /\ queues' \in [Node -> [Priorities -> Seq(Task)]]
        /\ my'[w].task \in Task /\ executions[my'[w].task] = 0 /\ ~done[my'[w].task]
        /\ PlaceInv' /\ OnceInv'
    <3>1. my[w].task = NoTask
      BY <1>3, Zenon DEF Inv, LocalInv, ThreadAt, WorkerAt
    <3>2. /\ my'[w].task = Head(queues[n][p])
          /\ \A v \in Worker \ {w} : my'[v].task = my[v].task
      BY <1>t, <2>b, <2>d, Zenon DEF Typed
    <3>3. \A th \in Thread :
            pc'[th] = "enqueue" => pc[th] = "enqueue" /\ my'[th].job = my[th].job
      BY <1>t, <2>3, <2>b, <2>d, Zenon DEF Typed
    <3> QED BY <1>2, <1>4, <2>2, <2>3, <3>1, <3>2, <3>3, TaskTaken, Zenon DEF tasks
  <2>T. TypeInv'
    BY <1>t, <1>3, <1>4, <2>3, <2>b, <2>c, <2>d, <2>P, Zenon DEF Inv, Typed, Fields, TypeInv, Label, tasks
  <2>L. LocalInv'
    BY <1>t, <1>3, <1>4, <2>3, <2>b, <2>c, <2>d, <2>P DEF Inv, Typed, Fields, Given, LocalInv, ThreadAt, WorkerAt, tasks
  <2>S. SameFinishing
    BY <1>t, <1>3, <1>4, <2>3, <2>b, <2>c, <2>d, <2>P DEF Inv, Typed, Fields, SameFinishing, Finishing, LocalInv, ThreadAt, WorkerAt, tasks
  <2>C. CallInv' /\ OutputInv'
    BY <1>3, <1>4, <2>3, <2>b, <2>c, <2>d, <2>P, <2>S, CallsStay, Zenon DEF Inv, tasks
  <2> QED BY <2>T, <2>L, <2>P, <2>C, Zenon DEF Inv
<1> QED BY <1>5, <1>6, Zenon

\* A worker takes a task from the queue of another node, or goes on to the next.
LEMMA StealKeeps ==
  ASSUME Inv, NEW w \in Worker, Steal(w), workload' = workload
  PROVE  Inv'
<1>t. Typed(w) /\ Fields(w) /\ Given
  BY Facts, Zenon DEF Thread
<1>1. PICK n, p : n = my[w].node /\ p = FirstLevel(n, my[w].priority)
  BY Zenon
<1>2. n \in Node /\ p \in 0..4 /\ (p # 4 => p \in Priorities /\ queues[n][p] # <<>>)
  <2>1. n \in Node /\ my[w].priority \in 0..4
    BY <1>1, <1>t, Zenon DEF Fields
  <2> QED BY <1>1, <2>1, FirstLevelFound
<1>3. pc[w] = "steal"
  BY Zenon DEF Steal
<1>4. UNCHANGED <<tasks, num_finished>>
  BY Zenon DEF Steal
<1>5. CASE p = 4
  <2>0. ~(p < 4)
    BY <1>5
  <2>1. UNCHANGED queues
    BY <1>1, <2>0, Zenon DEF Steal
  <2>2. CASE my[w].unread = {}
    <3>1. pc' = [pc EXCEPT ![w] = "loop"] /\ UNCHANGED my
      BY <1>1, <2>0, <2>2, Zenon DEF Steal
    <3>T. TypeInv'
      BY <1>t, <1>3, <1>4, <2>1, <3>1, Zenon DEF Inv, Typed, Fields, TypeInv, Label, tasks
    <3>L. LocalInv'
      BY <1>t, <1>3, <1>4, <2>1, <3>1 DEF Inv, Typed, Fields, Given, LocalInv, ThreadAt, WorkerAt, tasks
    <3>N. NoNewPlace
      BY <1>t, <1>3, <1>4, <2>1, <3>1, Zenon DEF Inv, Typed, Fields, NoNewPlace
    <3>S. SameFinishing
      BY <1>t, <1>3, <1>4, <2>1, <3>1, Zenon DEF Inv, Typed, Fields, SameFinishing, Finishing, LocalInv, ThreadAt, WorkerAt, tasks
    <3>P. PlaceInv'
      BY <1>3, <1>4, <2>1, <3>1, <3>N, PlacesStay, Zenon DEF Inv, tasks
    <3>O. OnceInv'
      BY <1>3, <1>4, <2>1, <3>1, <3>N, OnceStays, Zenon DEF Inv, tasks
    <3>C. CallInv' /\ OutputInv'
      BY <1>3, <1>4, <2>1, <3>1, <3>S, CallsStay, Zenon DEF Inv, tasks
    <3> QED BY <3>T, <3>L, <3>P, <3>O, <3>C, Zenon DEF Inv
  <2>3. CASE my[w].unread # {}
    <3>1. PICK m \in my[w].unread :
            Becomes(w, [my[w] EXCEPT !.node = m, !.priority = 0, !.unread = @ \ {m}])
      BY <1>1, <2>0, <2>3, Zenon DEF Steal
    <3>2. UNCHANGED pc
      BY <1>1, <2>0, <2>3, Zenon DEF Steal
    <3>3. m \in Node /\ 0 \in 0..4
      BY <1>t DEF Fields
    <3>a. PICK r : r = [my[w] EXCEPT !.node = m, !.priority = 0, !.unread = @ \ {m}]
      BY Zenon
    <3>b. my' = [my EXCEPT ![w] = r]
      BY <3>1, <3>a, Zenon DEF Becomes
    <3>c. r \in Locals
      BY <3>a, <1>t, LocalsUpdates, <3>3, Zenon DEF Typed, Fields
    <3>d. /\ r.task = my[w].task /\ r.job = my[w].job /\ r.node = m /\ r.priority = 0
          /\ r.caller = my[w].caller /\ r.inputs = my[w].inputs /\ r.next = my[w].next
      BY <3>a, <1>t, Zenon DEF Typed, Locals
    <3>T. TypeInv'
      BY <1>t, <1>3, <1>4, <2>1, <3>2, <3>b, <3>c, <3>d, Zenon DEF Inv, Typed, Fields, TypeInv, Label, tasks
    <3>L. LocalInv'
      BY <1>t, <1>3, <1>4, <2>1, <3>2, <3>b, <3>c, <3>d DEF Inv, Typed, Fields, Given, LocalInv, ThreadAt, WorkerAt, tasks
    <3>N. NoNewPlace
      BY <1>t, <1>3, <1>4, <2>1, <3>2, <3>b, <3>c, <3>d, Zenon DEF Inv, Typed, Fields, NoNewPlace
    <3>S. SameFinishing
      BY <1>t, <1>3, <1>4, <2>1, <3>2, <3>b, <3>c, <3>d, Zenon DEF Inv, Typed, Fields, SameFinishing, Finishing, LocalInv, ThreadAt, WorkerAt, tasks
    <3>P. PlaceInv'
      BY <1>3, <1>4, <2>1, <3>2, <3>b, <3>c, <3>d, <3>N, PlacesStay, Zenon DEF Inv, tasks
    <3>O. OnceInv'
      BY <1>3, <1>4, <2>1, <3>2, <3>b, <3>c, <3>d, <3>N, OnceStays, Zenon DEF Inv, tasks
    <3>C. CallInv' /\ OutputInv'
      BY <1>3, <1>4, <2>1, <3>2, <3>b, <3>c, <3>d, <3>S, CallsStay, Zenon DEF Inv, tasks
    <3> QED BY <3>T, <3>L, <3>P, <3>O, <3>C, Zenon DEF Inv
  <2> QED BY <2>2, <2>3, Zenon
<1>6. CASE p # 4
  <2>0. p < 4
    BY <1>2, <1>6
  <2>1. Becomes(w, [my[w] EXCEPT !.task = Head(queues[n][p]), !.priority = p])
    BY <1>1, <2>0, Zenon DEF Steal
  <2>2. p \in Priorities /\ queues[n][p] # <<>> /\ queues' = [queues EXCEPT ![n][p] = Tail(@)]
    BY <1>1, <1>2, <1>6, <2>0, Zenon DEF Steal
  <2>l. PICK l : l = IF Head(queues[n][p]) \in Stealable THEN "popped" ELSE "pushback"
    BY Zenon
  <2>3. l \in {"popped", "pushback"} /\ pc' = [pc EXCEPT ![w] = l]
    BY <1>1, <2>0, <2>l, Zenon DEF Steal
  <2>4. Head(queues[n][p]) \in Task
    BY <1>2, <2>2 DEF Inv, TypeInv
  <2>a. PICK r : r = [my[w] EXCEPT !.task = Head(queues[n][p]), !.priority = p]
    BY Zenon
  <2>b. my' = [my EXCEPT ![w] = r]
    BY <2>1, <2>a, Zenon DEF Becomes
  <2>c. r \in Locals
    BY <2>a, <1>t, LocalsUpdates, <1>2, <2>4, Zenon DEF Typed, Fields
  <2>d. /\ r.task = Head(queues[n][p]) /\ r.job = my[w].job /\ r.node = my[w].node /\ r.priority = p
        /\ r.caller = my[w].caller /\ r.inputs = my[w].inputs /\ r.next = my[w].next
    BY <2>a, <1>t, Zenon DEF Typed, Locals
  <2>P. /\ queues' \in [Node -> [Priorities -> Seq(Task)]]
        /\ my'[w].task \in Task /\ executions[my'[w].task] = 0 /\ ~done[my'[w].task]
        /\ PlaceInv' /\ OnceInv'
    <3>1. my[w].task = NoTask
      BY <1>3, Zenon DEF Inv, LocalInv, ThreadAt, WorkerAt
    <3>2. /\ my'[w].task = Head(queues[n][p])
          /\ \A v \in Worker \ {w} : my'[v].task = my[v].task
      BY <1>t, <2>b, <2>d, Zenon DEF Typed
    <3>3. \A th \in Thread :
            pc'[th] = "enqueue" => pc[th] = "enqueue" /\ my'[th].job = my[th].job
      BY <1>t, <2>3, <2>b, <2>d, Zenon DEF Typed
    <3> QED BY <1>2, <1>4, <2>2, <2>3, <3>1, <3>2, <3>3, TaskTaken, Zenon DEF tasks
  <2>T. TypeInv'
    BY <1>t, <1>3, <1>4, <2>2, <2>3, <2>b, <2>c, <2>d, <2>P, Zenon DEF Inv, Typed, Fields, TypeInv, Label, tasks
  <2>L. LocalInv'
    BY <1>t, <1>3, <1>4, <2>2, <2>3, <2>b, <2>c, <2>d, <2>P DEF Inv, Typed, Fields, Given, LocalInv, ThreadAt, WorkerAt, tasks
  <2>S. SameFinishing
    BY <1>t, <1>3, <1>4, <2>2, <2>3, <2>b, <2>c, <2>d, <2>P DEF Inv, Typed, Fields, SameFinishing, Finishing, LocalInv, ThreadAt, WorkerAt, tasks
  <2>C. CallInv' /\ OutputInv'
    BY <1>3, <1>4, <2>2, <2>3, <2>b, <2>c, <2>d, <2>P, <2>S, CallsStay, Zenon DEF Inv, tasks
  <2> QED BY <2>T, <2>L, <2>P, <2>C, Zenon DEF Inv
<1> QED BY <1>5, <1>6, Zenon

=============================================================================
