--------------------------- MODULE ProcessingUnit ---------------------------
(***************************************************************************)
(* The workers of one core.  One of them, the holder of the active worker  *)
(* token, pulls tasks; the others hibernate.  A worker whose task waits    *)
(* for other tasks gives the token away and wakes or creates another       *)
(* worker, up to MAX_WORKERS_PER_CORE workers for all tasks and            *)
(* MAX_WORKERS_PER_CORE_JOBTASKS more that only pull JobTasks.             *)
(*                                                                         *)
(* A task schedules the tasks it Spawns and waits for them, at most once.  *)
(* The queue is a set per priority.  (processing_unit.cpp, worker.cpp,     *)
(* worker.hpp.)                                                            *)
(***************************************************************************)
EXTENDS Integers, FiniteSets

CONSTANTS
  Task,
  Spawn,                          \* the set of tasks each task schedules and waits for
  Priority,                       \* the priority of each task in the queue
  MAX_WORKERS_PER_CORE,
  MAX_WORKERS_PER_CORE_JOBTASKS,
  NoTask

ASSUME ProcessingUnitAssumption ==
  MAX_WORKERS_PER_CORE \in Nat \ {0} /\ MAX_WORKERS_PER_CORE_JOBTASKS \in Nat

JobTask == 0
Lowest == 3
Priorities == JobTask..Lowest

MainTasks == Task \ UNION {Spawn[t] : t \in Task}

Worker == 1..(MAX_WORKERS_PER_CORE + MAX_WORKERS_PER_CORE_JOBTASKS)
INVALID_WORKER_ID == 0

VARIABLES
  token,            \* _active_worker_token
  created,          \* the size of _workers; worker k is the k-th created
  num_hibernated,   \* _num_hibernated_workers
  mutex,            \* the worker that holds _hibernation_mutex
  shutdown,         \* _shutdown_flag
  queue,            \* the tasks in the queue of each priority
  done,             \* the tasks that are done
  worker_pc,
  task,             \* the task each worker executes
  unsubmitted,      \* the tasks the main thread has still to schedule
  main              \* its progress through finish()

unit == <<token, created, num_hibernated, mutex, shutdown>>
unitVars == <<unit, queue, done, worker_pc, task, unsubmitted, main>>

\* begin() creates the first worker.
InitUnit ==
  /\ token = INVALID_WORKER_ID /\ created = 1
  /\ num_hibernated = 0 /\ mutex = INVALID_WORKER_ID
  /\ shutdown = FALSE
  /\ queue = [p \in Priorities |-> {}]
  /\ done = {}
  /\ worker_pc = [w \in Worker |-> IF w = 1 THEN "loop" ELSE "none"]
  /\ task = [w \in Worker |-> NoTask]
  /\ unsubmitted = MainTasks
  /\ main = "submit"

WorkerGoto(w, from, to) == worker_pc[w] = from /\ worker_pc' = [worker_pc EXCEPT ![w] = to]

-----------------------------------------------------------------------------
(* The token.                                                              *)

CheckShutdown(w) ==
  /\ WorkerGoto(w, "loop", IF shutdown THEN "exiting" ELSE "acquire")
  /\ UNCHANGED <<unit, queue, done, task, unsubmitted, main>>

\* The worker keeps the token or takes it from no one; else it hibernates.
TryAcquire(w) ==
  /\ WorkerGoto(w, "acquire", IF token \in {w, INVALID_WORKER_ID} THEN "pull" ELSE "hibernate")
  /\ token' = IF token = INVALID_WORKER_ID THEN w ELSE token
  /\ UNCHANGED <<created, num_hibernated, mutex, shutdown, queue, done, task,
                 unsubmitted, main>>

Yield(w) ==
  /\ WorkerGoto(w, "yield", "wake")
  /\ token' = IF token = w THEN INVALID_WORKER_ID ELSE token
  /\ UNCHANGED <<created, num_hibernated, mutex, shutdown, queue, done, task,
                 unsubmitted, main>>

Exit(w) ==
  /\ WorkerGoto(w, "exiting", "exit")
  /\ token' = IF token = w THEN INVALID_WORKER_ID ELSE token
  /\ UNCHANGED <<created, num_hibernated, mutex, shutdown, queue, done, task,
                 unsubmitted, main>>

-----------------------------------------------------------------------------
(* Hibernation.  The mutex is held from the increment to the wait.         *)

Hibernate(w) ==
  /\ WorkerGoto(w, "hibernate", "predicate")
  /\ mutex = INVALID_WORKER_ID /\ mutex' = w
  /\ num_hibernated' = num_hibernated + 1
  /\ UNCHANGED <<token, created, shutdown, queue, done, task, unsubmitted, main>>

\* The predicate of the wait; if it does not hold the worker waits, and only
\* then releases the mutex.
WaitPredicate(w) ==
  /\ worker_pc[w] = "predicate"
  /\ IF shutdown \/ token = INVALID_WORKER_ID
     THEN /\ worker_pc' = [worker_pc EXCEPT ![w] = "loop"]
          /\ mutex' = INVALID_WORKER_ID
          /\ num_hibernated' = num_hibernated - 1
     ELSE /\ worker_pc' = [worker_pc EXCEPT ![w] = "block"]
          /\ UNCHANGED <<mutex, num_hibernated>>
  /\ UNCHANGED <<token, created, shutdown, queue, done, task, unsubmitted, main>>

Block(w) ==
  /\ WorkerGoto(w, "block", "asleep")
  /\ mutex' = INVALID_WORKER_ID
  /\ UNCHANGED <<token, created, num_hibernated, shutdown, queue, done, task,
                 unsubmitted, main>>

\* A notified worker locks the mutex again and evaluates its predicate.
WakeUp(w) ==
  /\ WorkerGoto(w, "woken", "predicate")
  /\ mutex = INVALID_WORKER_ID /\ mutex' = w
  /\ UNCHANGED <<token, created, num_hibernated, shutdown, queue, done, task,
                 unsubmitted, main>>

\* wake_or_create_worker reads the number of hibernated workers without the
\* mutex.
WakeOrCreate(w) ==
  /\ WorkerGoto(w, "wake", IF num_hibernated = 0 THEN "create" ELSE "notify")
  /\ UNCHANGED <<unit, queue, done, task, unsubmitted, main>>

\* Where the worker goes on: a worker with a task waits, one without has just
\* found no JobTask.
Continue(w) == IF task[w] = NoTask THEN "loop" ELSE "wait"

CreateWorker(w) ==
  /\ worker_pc[w] = "create"
  /\ IF created + 1 \in Worker
     THEN /\ created' = created + 1
          /\ worker_pc' = [worker_pc EXCEPT ![w] = Continue(w), ![created + 1] = "loop"]
     ELSE /\ worker_pc' = [worker_pc EXCEPT ![w] = Continue(w)]
          /\ UNCHANGED created
  /\ UNCHANGED <<token, num_hibernated, mutex, shutdown, queue, done, task,
                 unsubmitted, main>>

Asleep == {w \in Worker : worker_pc[w] = "asleep"}

\* Mutant: the worker notifies without the mutex.
NotifyOneUnlocked(w) ==
  /\ worker_pc[w] = "notify"
  /\ \/ /\ Asleep = {}
        /\ worker_pc' = [worker_pc EXCEPT ![w] = Continue(w)]
     \/ \E v \in Asleep : worker_pc' = [worker_pc EXCEPT ![w] = Continue(w), ![v] = "woken"]
  /\ UNCHANGED <<unit, queue, done, task, unsubmitted, main>>

NotifyOne(w) ==
  /\ worker_pc[w] = "notify" /\ mutex = INVALID_WORKER_ID
  /\ \/ /\ Asleep = {}
        /\ worker_pc' = [worker_pc EXCEPT ![w] = Continue(w)]
     \/ \E v \in Asleep : worker_pc' = [worker_pc EXCEPT ![w] = Continue(w), ![v] = "woken"]
  /\ UNCHANGED <<unit, queue, done, task, unsubmitted, main>>

-----------------------------------------------------------------------------
(* Tasks.                                                                  *)

MinPriority(w) == IF w <= MAX_WORKERS_PER_CORE THEN Lowest ELSE JobTask

\* Mutant: a worker for JobTasks keeps the token too.
PullKeepsToken(w) ==
  /\ worker_pc[w] = "pull"
  /\ LET filled == {p \in Priorities : p <= MinPriority(w) /\ queue[p] # {}} IN
     IF filled = {}
     THEN /\ worker_pc' = [worker_pc EXCEPT ![w] = "loop"]
          /\ UNCHANGED <<queue, task>>
     ELSE LET p == CHOOSE p \in filled : \A q \in filled : p <= q IN
          \E t \in queue[p] :
            /\ queue' = [queue EXCEPT ![p] = @ \ {t}]
            /\ task' = [task EXCEPT ![w] = t]
            /\ worker_pc' = [worker_pc EXCEPT ![w] = "execute"]
  /\ UNCHANGED <<unit, done, unsubmitted, main>>

\* Without a task in reach a worker for JobTasks hands the token on; another
\* one would steal, sleeps, and keeps the token.
Pull(w) ==
  /\ worker_pc[w] = "pull"
  /\ LET filled == {p \in Priorities : p <= MinPriority(w) /\ queue[p] # {}} IN
     IF filled = {}
     THEN /\ worker_pc' = [worker_pc EXCEPT ![w] = IF MinPriority(w) < Lowest THEN "yield" ELSE "loop"]
          /\ UNCHANGED <<queue, task>>
     ELSE LET p == CHOOSE p \in filled : \A q \in filled : p <= q IN
          \E t \in queue[p] :
            /\ queue' = [queue EXCEPT ![p] = @ \ {t}]
            /\ task' = [task EXCEPT ![w] = t]
            /\ worker_pc' = [worker_pc EXCEPT ![w] = "execute"]
  /\ UNCHANGED <<unit, done, unsubmitted, main>>

Enqueued(S) == [p \in Priorities |-> queue[p] \cup {t \in S : Priority[t] = p}]

\* The task does its work, or schedules other tasks and waits for them.
Execute(w) ==
  /\ worker_pc[w] = "execute"
  /\ IF Spawn[task[w]] = {}
     THEN /\ done' = done \cup {task[w]}
          /\ task' = [task EXCEPT ![w] = NoTask]
          /\ worker_pc' = [worker_pc EXCEPT ![w] = "loop"]
          /\ UNCHANGED queue
     ELSE /\ queue' = Enqueued(Spawn[task[w]])
          /\ worker_pc' = [worker_pc EXCEPT ![w] = "yield"]
          /\ UNCHANGED <<done, task>>
  /\ UNCHANGED <<unit, unsubmitted, main>>

\* Having given the token away, the worker joins the tasks and completes its own.
WaitForTasks(w) ==
  /\ WorkerGoto(w, "wait", "loop")
  /\ Spawn[task[w]] \subseteq done
  /\ done' = done \cup {task[w]}
  /\ task' = [task EXCEPT ![w] = NoTask]
  /\ UNCHANGED <<unit, queue, unsubmitted, main>>

-----------------------------------------------------------------------------
(* The main thread.                                                        *)

Submit(t) ==
  /\ t \in unsubmitted
  /\ unsubmitted' = unsubmitted \ {t}
  /\ queue' = Enqueued({t})
  /\ UNCHANGED <<unit, done, worker_pc, task, main>>

\* finish() waits until all tasks are done and calls shutdown().
SetShutdown ==
  /\ main = "submit" /\ done = Task /\ mutex = INVALID_WORKER_ID
  /\ shutdown' = TRUE
  /\ main' = "notify"
  /\ UNCHANGED <<token, created, num_hibernated, mutex, queue, done, worker_pc, task, unsubmitted>>

NotifyAll ==
  /\ main = "notify" /\ main' = "join"
  /\ worker_pc' = [w \in Worker |-> IF worker_pc[w] = "asleep" THEN "woken" ELSE worker_pc[w]]
  /\ UNCHANGED <<unit, queue, done, task, unsubmitted>>

Join ==
  /\ main = "join" /\ main' = "down"
  /\ \A w \in 1..created : worker_pc[w] = "exit"
  /\ UNCHANGED <<unit, queue, done, worker_pc, task, unsubmitted>>

Terminated == main = "down" /\ UNCHANGED unitVars

WorkerStep(w) ==
  \/ CheckShutdown(w) \/ TryAcquire(w) \/ Yield(w) \/ Exit(w)
  \/ Hibernate(w) \/ WaitPredicate(w) \/ Block(w) \/ WakeUp(w)
  \/ WakeOrCreate(w) \/ CreateWorker(w) \/ NotifyOne(w)
  \/ Pull(w) \/ Execute(w) \/ WaitForTasks(w)

MainStep == (\E t \in Task : Submit(t)) \/ SetShutdown \/ NotifyAll \/ Join

NextUnit == (\E w \in Worker : WorkerStep(w)) \/ MainStep \/ Terminated

UnitSpec == InitUnit /\ [][NextUnit]_unitVars

\* The step with which a worker takes the mutex.
LockStep(w) == Hibernate(w) \/ WakeUp(w) \/ NotifyOne(w)

-----------------------------------------------------------------------------
\* No more workers are created than the limits allow, and the number of
\* hibernated workers, which decides between waking and creating one, counts
\* those between the increment and the decrement of hibernate_calling_worker.
WorkersAreCounted ==
  /\ created \in Worker
  /\ num_hibernated =
       Cardinality({w \in Worker : worker_pc[w] \in {"predicate", "block", "asleep", "woken"}})

\* While the token is free and a worker hibernates, some worker is about to take
\* the token or to wake another: giving the token away and waking a worker are
\* two steps, and so are counting oneself as hibernated and waiting.
NoWakeupIsLost ==
  token = INVALID_WORKER_ID /\ Asleep # {} =>
    \E w \in Worker : worker_pc[w] \in {"loop", "acquire", "wake", "create", "notify",
                                "hibernate", "predicate", "woken", "exiting"}
    \/ main = "notify"

\* No wakeup is lost: the number of hibernated workers is right whenever
\* wake_or_create_worker looks at it, and while the token is free and a worker
\* hibernates, some worker is about to take the token or to wake another.
TokenIsHandedOn == WorkersAreCounted /\ NoWakeupIsLost

\* The JobTask worker takes the token and returns it again and again.  A worker
\* that competes with it for ever gets the token at some time.
NeverAlwaysBeaten ==
  \A w \in Worker :
    []<>(worker_pc[w] \in {"acquire", "predicate"}) => []<>(worker_pc[w] = "pull" \/ shutdown)

\* Every task gets executed and finish() returns, if no worker always loses the
\* race for the token: a worker that waits "hands off the active worker token so
\* that another worker can execute tasks" (worker.hpp).
FinishReturns == NeverAlwaysBeaten => <>(main = "down")

=============================================================================
