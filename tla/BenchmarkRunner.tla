-------------------------- MODULE BenchmarkRunner --------------------------
(***************************************************************************)
(* The benchmark runner: simulated clients that run queries one by one or  *)
(* as permuted query sets, until a number of runs or a time is reached.    *)
(* The runner's loop is one thread.  With a scheduler the queries run on   *)
(* workers, and the callback of a query's last task counts it; without one *)
(* the runner executes each query itself and then calls its callback.      *)
(*                                                                         *)
(* A run of a query is a task: it is queued, then goes through the steps   *)
(* of its callback ("counted", "checked"), and is done.  Durations are not *)
(* modelled: the time limit may be noticed whenever the loop looks at it.  *)
(***************************************************************************)
EXTENDS Naturals, Sequences, FiniteSets

CONSTANTS
  Queries,             \* the names of the queries
  Modes, Schedulers,   \* benchmark modes, and whether there is a scheduler
  clients,
  max_num_query_runs,
  MaxTasks             \* bound: tasks in one benchmark

ASSUME BenchmarkAssumption == clients > 0 /\ max_num_query_runs > 0

VARIABLES
  mode, enable_scheduler,
  runner_at,          \* where the runner is
  remaining,   \* the queries still to be benchmarked, in individual mode
  to_schedule, \* the queries of the set that is being scheduled
  state,       \* BenchmarkState
  currently_running_clients, finished_query_set_runs, finished_queries_total,
  tasks,       \* the runs: query, set, step of the callback
  results,     \* for each query, its counter and its list of durations
  crashed      \* a division by zero in the report

runnerVars == <<mode, enable_scheduler, runner_at, remaining, to_schedule, state,
                currently_running_clients, finished_query_set_runs,
                finished_queries_total, tasks, results, crashed>>

number_of_queries == Cardinality(Queries)

Individual == mode = "IndividualQueries"

NoResult == [num_iterations |-> 0, iteration_durations |-> 0]

InitRunner ==
  /\ mode \in Modes /\ enable_scheduler \in Schedulers
  /\ runner_at = "start"
  /\ remaining = Queries /\ to_schedule = {}
  /\ state = "NotStarted"
  /\ currently_running_clients = 0
  /\ finished_query_set_runs = 0 /\ finished_queries_total = 0
  /\ tasks = <<>>
  /\ results = [q \in Queries |-> NoResult]
  /\ crashed = FALSE

(* The query being benchmarked in individual mode.                         *)
Current == CHOOSE q \in remaining : TRUE

(* _benchmark_individual_queries starts with fresh counters for each query. *)
StartBenchmark ==
  /\ runner_at = "start"
  /\ IF Individual /\ remaining = {}
     THEN runner_at' = "report" /\ UNCHANGED <<state, currently_running_clients, tasks>>
     ELSE /\ runner_at' = "loop"
          /\ state' = "NotStarted"
          /\ currently_running_clients' = 0
          /\ tasks' = <<>>
  /\ UNCHANGED <<mode, enable_scheduler, remaining, to_schedule, finished_query_set_runs,
                 finished_queries_total, results, crashed>>

(* keep_running of BenchmarkState, and the number of runs.                 *)
RunsLeft ==
  IF Individual
  THEN results[Current].num_iterations < max_num_query_runs
  ELSE finished_query_set_runs < max_num_query_runs

(* A query that the runner executes itself is called back before the loop   *)
(* goes on.                                                                 *)
Executed == enable_scheduler \/ \A i \in DOMAIN tasks : tasks[i].step = "done"

TimeIsUp ==
  /\ runner_at = "loop" /\ state # "Over" /\ Executed
  /\ state' = "Over"
  /\ UNCHANGED <<mode, enable_scheduler, runner_at, remaining, to_schedule, currently_running_clients,
                 finished_query_set_runs, finished_queries_total, tasks, results, crashed>>

(* A client that is not running gets a query, or a query set.              *)
ScheduleNext ==
  /\ runner_at = "loop" /\ state # "Over" /\ RunsLeft /\ Executed
  /\ Len(tasks) < MaxTasks
  /\ currently_running_clients < clients
  /\ state' = "Running"
  /\ currently_running_clients' = currently_running_clients + 1
  /\ to_schedule' = IF Individual THEN {Current} ELSE Queries
  /\ runner_at' = "schedule"
  /\ UNCHANGED <<mode, enable_scheduler, remaining, finished_query_set_runs,
                 finished_queries_total, tasks, results, crashed>>

SetNumber == IF Individual THEN Len(tasks) + 1 ELSE (Len(tasks) \div number_of_queries) + 1

(* The queries of a set are run in any order.                              *)
_schedule_or_execute_query(q) ==
  /\ runner_at = "schedule" /\ q \in to_schedule
  /\ Executed
  /\ tasks' = Append(tasks, [query |-> q, set |-> SetNumber, step |-> "queued"])
  /\ to_schedule' = to_schedule \ {q}
  /\ runner_at' = IF to_schedule = {q} THEN "loop" ELSE "schedule"
  /\ UNCHANGED <<mode, enable_scheduler, remaining, state, currently_running_clients,
                 finished_query_set_runs, finished_queries_total, results, crashed>>

Step(i, from, to) == tasks[i].step = from /\ tasks' = [tasks EXCEPT ![i].step = to]

(* on_query_done: in individual mode it releases the client; of the        *)
(* queries of a set, the first of every number_of_queries that finish does. *)
ReleaseClient(i) ==
  /\ Step(i, "queued", "counted")
  /\ IF Individual
     THEN /\ currently_running_clients' = currently_running_clients - 1
          /\ UNCHANGED <<finished_query_set_runs, finished_queries_total>>
     ELSE /\ finished_queries_total' = finished_queries_total + 1
          /\ IF finished_queries_total % number_of_queries = 0
             THEN /\ currently_running_clients' = currently_running_clients - 1
                  /\ finished_query_set_runs' = finished_query_set_runs + 1
             ELSE UNCHANGED <<currently_running_clients, finished_query_set_runs>>
  /\ UNCHANGED <<mode, enable_scheduler, runner_at, remaining, to_schedule, state, results, crashed>>

(* A query that finishes after the time is up does not count.              *)
CheckDone(i) ==
  /\ Step(i, "counted", IF state = "Over" THEN "done" ELSE "checked")
  /\ UNCHANGED <<mode, enable_scheduler, runner_at, remaining, to_schedule, state, currently_running_clients,
                 finished_query_set_runs, finished_queries_total, results, crashed>>

AddIteration(i) ==
  /\ Step(i, "checked", "done")
  /\ LET q == tasks[i].query IN
       results' = [results EXCEPT ![q].num_iterations = @ + 1, ![q].iteration_durations = @ + 1]
  /\ UNCHANGED <<mode, enable_scheduler, runner_at, remaining, to_schedule, state, currently_running_clients,
                 finished_query_set_runs, finished_queries_total, crashed>>


(* The loop ends, and the benchmark is set to be over.                     *)
EndLoop ==
  /\ runner_at = "loop" /\ Executed
  /\ state = "Over" \/ ~RunsLeft
  /\ state' = "Over"
  /\ runner_at' = "wait"
  /\ UNCHANGED <<mode, enable_scheduler, remaining, to_schedule, currently_running_clients,
                 finished_query_set_runs, finished_queries_total, tasks, results, crashed>>

wait_for_tasks ==
  /\ runner_at = "wait"
  /\ \A i \in DOMAIN tasks : tasks[i].step = "done"
  /\ IF Individual THEN runner_at' = "start" /\ remaining' = remaining \ {Current}
     ELSE runner_at' = "report" /\ UNCHANGED remaining
  /\ UNCHANGED <<mode, enable_scheduler, to_schedule, state, currently_running_clients,
                 finished_query_set_runs, finished_queries_total, tasks, results, crashed>>

(* The average divides by the number of iterations.                        *)
_create_report ==
  /\ runner_at = "report"
  /\ runner_at' = "done"
  /\ crashed' = (\E q \in Queries : results[q].num_iterations = 0)
  /\ UNCHANGED <<mode, enable_scheduler, remaining, to_schedule, state, currently_running_clients,
                 finished_query_set_runs, finished_queries_total, tasks, results>>

Callback(i) == ReleaseClient(i) \/ CheckDone(i) \/ AddIteration(i)

RunnerStep ==
  \/ StartBenchmark \/ ScheduleNext \/ EndLoop \/ wait_for_tasks \/ _create_report
  \/ \E q \in Queries : _schedule_or_execute_query(q)

NextRunner == RunnerStep \/ TimeIsUp \/ \E i \in DOMAIN tasks : Callback(i)

(* The runner's thread and the workers go on, and the time passes.         *)
FairRunner ==
  /\ WF_runnerVars(RunnerStep) /\ WF_runnerVars(TimeIsUp)
  /\ WF_runnerVars(\E i \in DOMAIN tasks : Callback(i))

RunnerSpec == InitRunner /\ [][NextRunner]_runnerVars /\ FairRunner

=============================================================================
