----------------------------- MODULE SQLPipeline -----------------------------
(***************************************************************************)
(* SQLPipeline and SQLPipelineStatement: from the text of a script to its  *)
(* result tables, with the query plan cache shared by all pipelines of the *)
(* process, keyed by statement text, and the prepared statements.          *)
(*                                                                         *)
(* A statement stands for its own text.  What matters of the database is   *)
(* which definition every view has; what matters of a physical plan is     *)
(* which definition it was translated from, whether it runs under MVCC,    *)
(* and how many of its placeholders have no value.  Plans hold operators   *)
(* by pointer: the plan in a cache and the plan being executed may be the  *)
(* same operators, so operators live in a heap.                            *)
(***************************************************************************)
EXTENDS Integers, Sequences, FiniteSets, FiniteSetsExt

CONSTANTS
  Clients,        \* who holds a pipeline: server sessions, or the console
  Nothing,        \* nullptr
  CacheCapacity   \* of the query plan cache

VARIABLES
  views,                \* StorageManager: the definition of every view
  query_cache,          \* SQLQueryCache<SQLQueryPlan>: text -> plan
  _prepared_statements, \* PreparedStatementCache: name -> plan
  operators,            \* the roots of all physical plans created so far
  contexts,             \* the phase of every transaction context handed to a pipeline
  pipeline              \* the pipeline of every client

pipelineVars == <<views, query_cache, _prepared_statements, operators, contexts, pipeline>>

Empty == [x \in {} |-> x]
Put(f, key, value) == [k \in DOMAIN f \union {key} |-> IF k = key THEN value ELSE f[k]]
Drop(f, key) == [k \in DOMAIN f \ {key} |-> f[k]]

\* AbstractCache::set: a full cache gives up one entry, which one depends on the strategy.
CacheSet(f, key, value) ==
  IF key \in DOMAIN f \/ Cardinality(DOMAIN f) < CacheCapacity
  THEN {Put(f, key, value)}
  ELSE {Put(Drop(f, evicted), key, value) : evicted \in DOMAIN f}

-----------------------------------------------------------------------------
(* Construction. *)

SQLPipelineStatement ==
  [unoptimized |-> Nothing, optimized |-> Nothing, parameter_ids |-> 0, query_plan |-> Nothing,
   cache_hit |-> FALSE, result |-> Nothing, has_output |-> TRUE]

\* If one of several statements alters the structure of the database, each has to run
\* before the next one is translated.
RequiresExecution(script) ==
  Len(script) > 1 /\ \E i \in DOMAIN script : script[i].type \in {"CreateView", "DropView"}

NewPipeline(script, use_mvcc, context, prepares) ==
  [script |-> script, use_mvcc |-> use_mvcc, context |-> context, prepares |-> prepares,
   statements |-> [i \in DOMAIN script |-> SQLPipelineStatement],
   query_plans |-> <<>>, result_tables |-> <<>>, was_executed |-> FALSE, failed |-> Nothing,
   goal |-> "None", step |-> "Idle", at |-> 1, outcome |-> "None"]

NoPipeline == NewPipeline(<<>>, TRUE, Nothing, FALSE)

-----------------------------------------------------------------------------
(* SQLPipelineStatement *)

\* get_unoptimized_logical_plan: the inner query of PREPARE, or the statement itself;
\* translating EXECUTE is not supported, and a missing view is an invalid input.
get_unoptimized_logical_plan(statement, memo, prepares) ==
  LET Plan(does, source, placeholders) ==
        [memo EXCEPT !.unoptimized = [does |-> does, source |-> source, placeholders |-> placeholders],
                     !.parameter_ids = placeholders]
      Failed(outcome) == [thrown |-> outcome, memo |-> memo]
      Done(m) == [thrown |-> "None", memo |-> m]
  IN  CASE memo.unoptimized # Nothing -> Done(memo)
        [] statement.type = "Prepare" /\ ~prepares -> Failed("Assert")
        [] statement.type \in {"Select", "Prepare"} /\ statement.view \notin DOMAIN views -> Failed("InvalidInput")
        [] statement.type \in {"Select", "Prepare"} /\ statement.view \in DOMAIN views ->
             Done(Plan("Read", views[statement.view], statement.placeholders))
        [] statement.type \in {"CreateView", "DropView", "Update"} -> Done(Plan(statement.type, statement, 0))
        [] statement.type = "Execute" -> Failed("InvalidInput")

\* get_optimized_logical_plan: the optimizer works in place, the unoptimized plan is given up.
get_optimized_logical_plan(statement, memo, prepares) ==
  LET unoptimized == get_unoptimized_logical_plan(statement, memo, prepares)
  IN  CASE memo.optimized # Nothing -> [thrown |-> "None", memo |-> memo]
        [] memo.optimized = Nothing /\ unoptimized.thrown # "None" -> unoptimized
        [] memo.optimized = Nothing /\ unoptimized.thrown = "None" ->
             [unoptimized EXCEPT !.memo.optimized = unoptimized.memo.unoptimized, !.memo.unoptimized = Nothing]

SQLQueryPlan(roots, parameter_ids) == [roots |-> roots, parameter_ids |-> parameter_ids]
Root(plan) == operators[plan.roots[1]]

\* What get_query_plan has found before it writes anything: an error, or a root and the
\* operators with it.
Thrown(memo, outcome) == [thrown |-> outcome, memo |-> memo, operators |-> operators, root |-> Nothing]
Compiled(memo, operators_with_root, root) ==
  [thrown |-> "None", memo |-> memo, operators |-> operators_with_root, root |-> root]

\* SQLQueryPlan::deep_copy: new operators, which have not run yet.
deep_copy(memo, plan) == Compiled(memo, Append(operators, [Root(plan) EXCEPT !.ran = FALSE]), Len(operators) + 1)

\* AbstractOperator::set_parameters
set_parameters(compiled, arguments) ==
  [compiled EXCEPT !.operators[compiled.root].unbound = @ - Len(arguments),
                   !.operators[compiled.root].arguments = @ \o arguments]

\* The plan is asked for in the mode it was built in.
assert_same_mvcc_mode(plan, use_mvcc) == Root(plan).mvcc = use_mvcc

\* translate_node: the operators of the optimized plan.
translate_node(lqp) ==
  [does |-> lqp.does, source |-> lqp.source, unbound |-> lqp.placeholders, arguments |-> <<>>,
   mvcc |-> FALSE, ran |-> FALSE]


FromCache(p, memo, plan) ==
  IF ~assert_same_mvcc_mode(plan, p.use_mvcc)
  THEN {Thrown(memo, "Assert")}
  ELSE {deep_copy([memo EXCEPT !.cache_hit = TRUE], plan)}

\* EXECUTE.  The plan's parameter ids are read before it is asserted that there is a plan:
\* an empty optional is dereferenced.
FromPrepared(p, statement, memo) ==
  IF ~p.prepares THEN {Thrown(memo, "Assert")}
  ELSE IF statement.name \notin DOMAIN _prepared_statements
  THEN {Thrown(memo, "InvalidInput"), Thrown(memo, "Undefined")}
  ELSE LET plan == _prepared_statements[statement.name]
           m == [memo EXCEPT !.parameter_ids = plan.parameter_ids]
           count == Len(statement.arguments)
       IN  CASE ~assert_same_mvcc_mode(plan, p.use_mvcc) \/ count > plan.parameter_ids -> {Thrown(m, "Assert")}
             [] assert_same_mvcc_mode(plan, p.use_mvcc) /\ count < plan.parameter_ids -> {Thrown(m, "InvalidInput")}
             [] assert_same_mvcc_mode(plan, p.use_mvcc) /\ count = plan.parameter_ids ->
                  {set_parameters(deep_copy(m, plan), statement.arguments)}

FromTranslation(p, statement, memo) ==
  LET lqp == get_optimized_logical_plan(statement, memo, p.prepares)
  IN  IF lqp.thrown # "None" THEN {Thrown(lqp.memo, lqp.thrown)}
                             ELSE {Compiled(lqp.memo, Append(operators, translate_node(lqp.memo.optimized)), Len(operators) + 1)}

QueryPlanOf(p, statement, memo) ==
  IF statement \in DOMAIN query_cache THEN FromCache(p, memo, query_cache[statement])
  ELSE IF statement.type = "Execute" THEN FromPrepared(p, statement, memo)
  ELSE FromTranslation(p, statement, memo)

-----------------------------------------------------------------------------
(* The calls of a client, in the steps between which another client may    *)
(* change the views or the cache.                                          *)

Begin(c, goal) ==
  pipeline' = [pipeline EXCEPT ![c].goal = goal, ![c].at = 1, ![c].step = "Statement", ![c].outcome = "None"]

\* SQLPipeline::get_result_tables
get_result_tables(c) ==
  /\ pipeline[c].step = "Idle" /\ pipeline[c].script # <<>>
  /\ IF pipeline[c].was_executed THEN pipeline' = [pipeline EXCEPT ![c].outcome = "Done"]
                                 ELSE Begin(c, "Tables")
  /\ UNCHANGED <<views, query_cache, _prepared_statements, operators, contexts>>

\* SQLPipeline::get_query_plans: what an earlier call has collected, if anything.
get_query_plans(c) ==
  LET p == pipeline[c]
  IN  /\ p.step = "Idle" /\ p.script # <<>>
      /\ IF p.query_plans # <<>> THEN pipeline' = [pipeline EXCEPT ![c].outcome = "Done"]
         ELSE IF RequiresExecution(p.script) /\ ~p.was_executed
         THEN pipeline' = [pipeline EXCEPT ![c].outcome = "Assert"]
         ELSE Begin(c, "Plans")
      /\ UNCHANGED <<views, query_cache, _prepared_statements, operators, contexts>>

\* SQLPipeline::get_unoptimized_logical_plans and get_optimized_logical_plans: statement by
\* statement until one throws.
LogicalPlans(p, Get(_, _, _)) ==
  LET got == [i \in DOMAIN p.script |-> Get(p.script[i], p.statements[i], p.prepares)]
      failing == {i \in DOMAIN p.script : got[i].thrown # "None"}
      reached == IF failing = {} THEN Len(p.script) ELSE Min(failing)
  IN  [p EXCEPT !.statements = [i \in DOMAIN p.script |-> IF i <= reached THEN got[i].memo ELSE @[i]],
                !.outcome = IF failing = {} THEN "Done" ELSE got[reached].thrown]

get_logical_plans(c, Get(_, _, _)) ==
  LET p == pipeline[c]
  IN  /\ p.step = "Idle" /\ p.script # <<>>
      /\ pipeline' = [pipeline EXCEPT ![c] = IF RequiresExecution(p.script) /\ ~p.was_executed
                                             THEN [p EXCEPT !.outcome = "Assert"]
                                             ELSE LogicalPlans(p, Get)]
      /\ UNCHANGED <<views, query_cache, _prepared_statements, operators, contexts>>

Finish(p, outcome) == [p EXCEPT !.step = "Idle", !.outcome = outcome]

\* The next statement of the loop, or the end of the call.
Advance(p) ==
  IF p.at < Len(p.script) THEN [p EXCEPT !.at = @ + 1, !.step = "Statement"]
  ELSE IF p.goal = "Tables" THEN [Finish(p, "Done") EXCEPT !.was_executed = TRUE]
  ELSE Finish(p, "Done")

\* After get_result_table: a given context that has been aborted ends the loop.
Phase(p) == IF p.context = Nothing THEN Nothing ELSE contexts[p.context]

AfterStatement(p, phase) ==
  IF p.goal = "Plans" THEN Advance([p EXCEPT !.query_plans = Append(@, p.statements[p.at].query_plan)])
  ELSE IF phase = "RolledBack" THEN [Finish(p, "Done") EXCEPT !.failed = p.at, !.result_tables = <<>>]
  ELSE Advance([p EXCEPT !.result_tables = Append(@, p.statements[p.at].result)])

\* A statement with a result, or without one to expect, is not looked at again; one whose
\* query plan has been asked for before keeps that plan, be it the empty one of a failure.
Recall(c) ==
  LET p == pipeline[c]
      memo == p.statements[p.at]
  IN  /\ p.step = "Statement"
      /\ \/ /\ p.goal = "Tables" /\ (memo.result # Nothing \/ ~memo.has_output)
            /\ pipeline' = [pipeline EXCEPT ![c] = AfterStatement(p, Phase(p))]
         \/ /\ p.goal = "Tables" /\ memo.result = Nothing /\ memo.has_output /\ memo.query_plan # Nothing
            /\ pipeline' = [pipeline EXCEPT ![c] = IF memo.query_plan.roots = <<>> THEN Finish(p, "Undefined")
                                                   ELSE [p EXCEPT !.step = "Run"]]
         \/ /\ p.goal = "Plans" /\ memo.query_plan # Nothing
            /\ pipeline' = [pipeline EXCEPT ![c] = AfterStatement(p, Phase(p))]
      /\ UNCHANGED <<views, query_cache, _prepared_statements, operators, contexts>>

\* get_query_plan up to line 214: look the text up, take the prepared plan, or translate.
\* _query_plan is set before anything can fail.
Compile(c) ==
  LET p == pipeline[c]
      memo == p.statements[p.at]
  IN  /\ p.step = "Statement" /\ memo.query_plan = Nothing
      /\ p.goal = "Tables" => memo.has_output
      /\ \E compiled \in QueryPlanOf(p, p.script[p.at], memo) :
           IF compiled.thrown # "None"
           THEN /\ pipeline' = [pipeline EXCEPT ![c] =
                     Finish([p EXCEPT !.statements[p.at] = [compiled.memo EXCEPT !.query_plan = SQLQueryPlan(<<>>, 0)]],
                            compiled.thrown)]
                /\ UNCHANGED operators
           ELSE /\ operators' = compiled.operators
                /\ pipeline' = [pipeline EXCEPT
                     ![c].statements[p.at] = [compiled.memo EXCEPT !.query_plan = SQLQueryPlan(<<compiled.root>>, 0)],
                     ![c].step = "Store"]
      /\ UNCHANGED <<views, query_cache, _prepared_statements, contexts>>

\* The rest of get_query_plan: parameter ids and transaction context are set, a prepared
\* plan is stored under its name, a plan that was not cached is cached.
Store(c) ==
  LET p == pipeline[c]
      statement == p.script[p.at]
      memo == p.statements[p.at]
      plan == [memo.query_plan EXCEPT !.parameter_ids = memo.parameter_ids]
  IN  /\ p.step = "Store"
      /\ operators' = [operators EXCEPT ![plan.roots[1]].mvcc = @ \/ p.use_mvcc]
      /\ _prepared_statements' = IF statement.type = "Prepare" THEN Put(_prepared_statements, statement.name, plan)
                                                               ELSE _prepared_statements
      /\ query_cache' \in IF memo.cache_hit THEN {query_cache} ELSE CacheSet(query_cache, statement, plan)
      /\ pipeline' = [pipeline EXCEPT ![c] =
           LET q == [p EXCEPT !.statements[p.at].query_plan = plan]
           IN  IF p.goal = "Plans" THEN AfterStatement(q, Phase(p)) ELSE [q EXCEPT !.step = "Run"]]
      /\ UNCHANGED <<views, contexts>>

\* get_result_table from the tasks on.  PREPARE is not executed; the tasks of a transaction
\* that was rolled back do nothing, those of a committed one fail.  conflict: the operator
\* of an UPDATE met a row of another transaction and its task rolled the transaction back;
\* a statement that commits by itself then has no result and no error.
Run(c, conflict) ==
  LET p == pipeline[c]
      root == p.statements[p.at].query_plan.roots[1]
      op == operators[root]
      prepare == p.script[p.at].type = "Prepare"
      aborted == conflict /\ p.context # Nothing
      Return(result, phase) ==
        /\ pipeline' = [pipeline EXCEPT ![c] =
             AfterStatement([p EXCEPT !.statements[p.at].result = result, !.statements[p.at].has_output = result # Nothing], phase)]
        /\ contexts' = IF phase = Nothing THEN contexts ELSE [contexts EXCEPT ![p.context] = phase]
      Throw == pipeline' = [pipeline EXCEPT ![c] = Finish(p, "Assert")] /\ UNCHANGED contexts
  IN  /\ p.step = "Run"
      /\ CASE prepare \/ Phase(p) = "RolledBack" ->
                /\ ~conflict /\ Return(Nothing, Phase(p))
                /\ UNCHANGED <<operators, views>>
           [] ~prepare /\ Phase(p) = "Committed" ->
                /\ ~conflict /\ Throw
                /\ UNCHANGED <<operators, views>>
           [] ~prepare /\ Phase(p) \in {"Active", Nothing} ->
                IF op.does \in {"CreateView", "DropView"} /\ (op.source.view \in DOMAIN views) = (op.does = "CreateView")
                THEN /\ ~conflict /\ Throw
                     /\ UNCHANGED <<operators, views>>
                ELSE /\ conflict => op.does = "Update"
                     /\ Return(IF op.does = "Update" THEN Nothing ELSE root, IF aborted THEN "RolledBack" ELSE Phase(p))
                     /\ operators' = [operators EXCEPT ![root].ran = TRUE]
                     /\ views' = CASE op.does = "CreateView" -> Put(views, op.source.view, op.source.definition)
                                   [] op.does = "DropView" -> Drop(views, op.source.view)
                                   [] op.does \in {"Read", "Update"} -> views
      /\ UNCHANGED <<query_cache, _prepared_statements>>

-----------------------------------------------------------------------------
(***************************************************************************)
(* The interactive console of src/bin/console: lines are collected until a *)
(* statement is complete, a pipeline runs it in the explicit transaction,  *)
(* if there is one, and SIGINT jumps back to the prompt from wherever the   *)
(* console is.                                                             *)
(*                                                                         *)
(* A line is a command or a sequence of tokens; a statement is two tokens, *)
(* so that it may be spread over lines.                                    *)
(***************************************************************************)

CONSTANTS
  console,       \* the only client
  MaxLines,      \* bound on the lines read
  MaxSignals     \* bound on the signals

VARIABLES
  _multiline_input,  \* the tokens of the lines before, or <<>>
  transaction,       \* _explicitly_created_transaction_context
  script_lines,      \* what is left of the script being executed
  doing,             \* where the console is between two steps of the pipeline
  return_code,
  abandoned,         \* the contexts, and Nothing for one of a single statement, whose operators SIGINT left running
  lines, signals     \* counters

consoleVars == <<_multiline_input, transaction, script_lines, doing, return_code, abandoned, lines, signals>>
allVars == <<pipelineVars, consoleVars>>

IsScript(tokens) ==
  /\ Len(tokens) % 2 = 0
  /\ \A k \in 1 .. Len(tokens) \div 2 : tokens[2 * k - 1][2] = 1 /\ tokens[2 * k] = <<tokens[2 * k - 1][1], 2>>
Statements(tokens) == [k \in 1 .. Len(tokens) \div 2 |-> tokens[2 * k - 1][1]]

ToPrompt(code) == doing' = [what |-> "Prompt"] /\ return_code' = code
Terminate == doing' = [what |-> "Terminated"] /\ UNCHANGED return_code
pipe == pipeline[console]

\* _initialize_pipeline: text that does not parse leaves the previous pipeline in place.
_initialize_pipeline(tokens, next) ==
  IF IsScript(tokens) /\ tokens # <<>>
  THEN /\ pipeline' = [pipeline EXCEPT ![console] = NewPipeline(Statements(tokens), TRUE, transaction, TRUE)]
       /\ doing' = next /\ UNCHANGED return_code
  ELSE UNCHANGED pipeline /\ ToPrompt("Error")

-----------------------------------------------------------------------------
(* The commands. *)

_begin_transaction ==
  /\ IF transaction # Nothing
     THEN UNCHANGED <<transaction, contexts>> /\ ToPrompt("Error")
     ELSE /\ contexts' = Append(contexts, "Active") /\ transaction' = Len(contexts')
          /\ ToPrompt("Ok")
  /\ UNCHANGED <<pipeline, query_cache>>

\* commit() and rollback() wait for the active operators of the transaction, and do nothing
\* but forget the context when it is no longer active.
EndTransaction(phase) ==
  /\ IF transaction = Nothing
     THEN UNCHANGED <<transaction, contexts>> /\ ToPrompt("Error")
     ELSE IF contexts[transaction] = "Active" /\ transaction \in abandoned
     THEN UNCHANGED <<transaction, contexts, return_code>> /\ doing' = [what |-> "Hung"]
     ELSE /\ contexts' = [contexts EXCEPT ![transaction] = IF @ = "Active" THEN phase ELSE @]
          /\ transaction' = Nothing
          /\ ToPrompt("Ok")
  /\ UNCHANGED <<pipeline, query_cache>>

_rollback_transaction == EndTransaction("RolledBack")
_commit_transaction == EndTransaction("Committed")

\* Plans of the plugin's making might not work without it: the cache is cleared.
_unload_plugin ==
  /\ query_cache' = Empty
  /\ ToPrompt("Ok")
  /\ UNCHANGED <<pipeline, transaction, contexts>>

\* visualize [exec | noexec] [lqp | unoptlqp | pqp] [SQL]; without SQL, the last pipeline.
_visualize(line) ==
  LET next == [what |-> "Visualize", exec |-> line.exec, plan |-> line.plan, asked |-> FALSE]
  IN  /\ IF line.tokens # <<>>
         THEN IF IsScript(line.tokens) /\ ~line.exec /\ RequiresExecution(Statements(line.tokens))
              THEN _initialize_pipeline(line.tokens, [what |-> "Prompt"])
              ELSE _initialize_pipeline(line.tokens, next)
         ELSE /\ UNCHANGED pipeline
              /\ IF pipe.script = <<>> THEN ToPrompt("Error") ELSE doing' = next /\ UNCHANGED return_code
      /\ UNCHANGED <<query_cache, transaction, contexts>>

_eval_command(line) ==
  CASE line.command = "begin" -> _begin_transaction
    [] line.command = "rollback" -> _rollback_transaction
    [] line.command = "commit" -> _commit_transaction
    [] line.command = "unload_plugin" -> _unload_plugin
    [] line.command = "visualize" -> _visualize(line)

-----------------------------------------------------------------------------
(* Reading and evaluating. *)

_eval_sql(tokens) ==
  /\ _initialize_pipeline(tokens, [what |-> "Evaluate", asked |-> FALSE])
  /\ UNCHANGED <<query_cache, transaction, contexts>>

\* Outside of a statement, commands and complete scripts are recognised; otherwise a line
\* that ends with a semicolon completes the statement and any other line continues it.
_eval(line) ==
  /\ CASE _multiline_input = <<>> /\ line.command # "" -> _eval_command(line) /\ UNCHANGED _multiline_input
       [] _multiline_input = <<>> /\ line.command = "" /\ line.tokens = <<>> ->
            ToPrompt("Ok") /\ UNCHANGED <<_multiline_input, pipeline, query_cache, transaction, contexts>>
       [] _multiline_input = <<>> /\ line.command = "" /\ line.tokens # <<>> /\ IsScript(line.tokens) ->
            _eval_sql(line.tokens) /\ UNCHANGED _multiline_input
       [] \/ _multiline_input # <<>>
          \/ line.command = "" /\ line.tokens # <<>> /\ ~IsScript(line.tokens) ->
            IF line.semicolon
            THEN _eval_sql(_multiline_input \o line.tokens) /\ _multiline_input' = <<>>
            ELSE /\ _multiline_input' = _multiline_input \o line.tokens
                 /\ ToPrompt("Multiline") /\ UNCHANGED <<pipeline, query_cache, transaction, contexts>>
  /\ UNCHANGED <<views, _prepared_statements, operators, abandoned, signals>>

\* The main loop, and the loop of _exec_script, which ends with the first error.
read(line) ==
  /\ doing.what = "Prompt" /\ script_lines = <<>> /\ lines < MaxLines
  /\ lines' = lines + 1
  /\ _eval(line)
  /\ UNCHANGED script_lines

StartScript(script) ==
  /\ doing.what = "Prompt" /\ script_lines = <<>> /\ lines < MaxLines /\ _multiline_input = <<>>
  /\ lines' = lines + 1 /\ script_lines' = script /\ return_code' = "Ok"
  /\ UNCHANGED <<pipelineVars, _multiline_input, transaction, doing, abandoned, signals>>

_exec_script ==
  /\ doing.what = "Prompt" /\ script_lines # <<>>
  /\ IF return_code = "Error"
     THEN /\ script_lines' = <<>>
          /\ UNCHANGED <<pipelineVars, _multiline_input, transaction, doing, return_code, abandoned, signals>>
     ELSE _eval(script_lines[1]) /\ script_lines' = Tail(script_lines)
  /\ UNCHANGED lines

\* The call of _eval_sql or _visualize that is due: get_result_table(s) first, unless noexec
\* was given, and then the plans to visualize.
Ask ==
  /\ doing.what \in {"Evaluate", "Visualize"} /\ ~doing.asked /\ pipe.step = "Idle"
  /\ CASE doing.what = "Evaluate" \/ doing.exec -> get_result_tables(console)
       [] doing.what = "Visualize" /\ ~doing.exec /\ doing.plan = "pqp" -> get_query_plans(console)
       [] doing.what = "Visualize" /\ ~doing.exec /\ doing.plan = "lqp" -> get_logical_plans(console, get_optimized_logical_plan)
       [] doing.what = "Visualize" /\ ~doing.exec /\ doing.plan = "unoptlqp" -> get_logical_plans(console, get_unoptimized_logical_plan)
  /\ doing' = [doing EXCEPT !.asked = TRUE]
  /\ UNCHANGED <<_multiline_input, transaction, script_lines, return_code, abandoned, lines, signals>>

\* A pipeline that is locked out by an update SIGINT interrupted finds the rows of that
\* update locked.
PipelineStep ==
  /\ doing.what \in {"Evaluate", "Visualize"} /\ doing.asked
  /\ \/ Recall(console)
     \/ Compile(console)
     \/ Store(console)
     \/ Run(console, FALSE) /\ (operators[pipe.statements[pipe.at].query_plan.roots[1]].does = "Update" => abandoned \ {transaction} = {})
     \/ Run(console, TRUE) /\ abandoned \ {transaction} # {}
  /\ UNCHANGED consoleVars

\* Only a given context that was rolled back by a statement of the pipeline is given up.
_handle_rollback == transaction' = IF pipe.failed # Nothing /\ pipe.context # Nothing THEN Nothing ELSE transaction

\* The end of a call.  _eval_sql catches invalid input only: the failed assertion that no
\* statement has aborted the transaction ends the console.
Answer ==
  /\ doing.what \in {"Evaluate", "Visualize"} /\ doing.asked /\ pipe.step = "Idle"
  /\ CASE pipe.outcome = "Undefined" -> Terminate /\ UNCHANGED transaction
       [] doing.what = "Evaluate" /\ pipe.outcome = "Done" /\ pipe.failed = Nothing -> ToPrompt("Ok") /\ UNCHANGED transaction
       [] doing.what = "Evaluate" /\ (pipe.outcome = "Assert" \/ (pipe.outcome = "Done" /\ pipe.failed # Nothing)) ->
            Terminate /\ UNCHANGED transaction
       [] \/ doing.what = "Evaluate" /\ pipe.outcome = "InvalidInput"
          \/ doing.what = "Visualize" /\ pipe.outcome \in {"Assert", "InvalidInput"}
          \/ doing.what = "Visualize" /\ doing.exec /\ pipe.outcome = "Done" /\ pipe.result_tables = <<>> ->
            _handle_rollback /\ ToPrompt("Error")
       [] doing.what = "Visualize" /\ doing.exec /\ pipe.outcome = "Done" /\ pipe.result_tables # <<>> ->
            doing' = [doing EXCEPT !.exec = FALSE, !.asked = FALSE] /\ UNCHANGED <<transaction, return_code>>
       [] doing.what = "Visualize" /\ ~doing.exec /\ pipe.outcome = "Done" -> ToPrompt("Ok") /\ UNCHANGED transaction
  /\ UNCHANGED <<pipelineVars, _multiline_input, script_lines, abandoned, lines, signals>>

\* handle_signal: back to the prompt.  An update that was running has locked its rows and
\* counts as an active operator of its transaction from now on.
handle_signal ==
  /\ doing.what \in {"Prompt", "Evaluate", "Visualize"} /\ signals < MaxSignals
  /\ signals' = signals + 1
  /\ _multiline_input' = <<>> /\ script_lines' = <<>>
  /\ doing' = [what |-> "Prompt"]
  /\ pipeline' = [pipeline EXCEPT ![console].step = "Idle", ![console].outcome = "None"]
  /\ \/ UNCHANGED abandoned
     \/ /\ pipe.step = "Run" /\ Phase(pipe) \in {"Active", Nothing}
        /\ operators[pipe.statements[pipe.at].query_plan.roots[1]].does = "Update"
        /\ abandoned' = abandoned \union {pipe.context}
  /\ UNCHANGED <<views, query_cache, _prepared_statements, operators, contexts, transaction, return_code, lines>>

=============================================================================
