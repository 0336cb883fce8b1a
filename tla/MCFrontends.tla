---------------------------- MODULE MCFrontends ----------------------------
(***************************************************************************)
(* What stands between a user and the query engine, on small instances: a  *)
(* connection of the server, the console and its SQL pipelines, the        *)
(* catalog with its plugins, the thread that plugins run in a loop, and    *)
(* the benchmark runner.  They share no state here; a behaviour is one of  *)
(* the one that is its subject.                                            *)
(***************************************************************************)
EXTENDS ClientConnection, SQLPipeline, StorageManager, PausableLoopThread, BenchmarkRunner

VARIABLE subject \* "connection", "console", "catalog", "loop" or "benchmark"

vars == <<subject, connectionVars, allVars, catalogVars, pluginVars, loopVars, runnerVars>>

-----------------------------------------------------------------------------
(* The connection: packets of the protocol, with one character for a text.  *)

TheStartups == {<<2, SslVersion>>, <<3, 196608, 117>>}

Message(type, body) == <<type, Len(body) + 1>> \o body

TheRequests ==
  {Message(SimpleQueryCommand, <<97, 0>>),
   Message(ParseCommand, <<0, 98, 0, htons(0)>>),
   Message(ParseCommand, <<0, 98, 0, htons(1), 23>>),
   Message(BindCommand, <<0, 0, htons(0), htons(1), 1, 120, htons(0)>>),
   Message(DescribeCommand, <<80, 0>>),
   Message(ExecuteCommand, <<0, 0>>), Message(SyncCommand, <<>>), Message(FlushCommand, <<>>),
   <<TerminateCommand, 1>>}

\* Two rows in two chunks, one of them NULL.
TheTable == [columns |-> <<[name |-> <<99>>, type |-> "int"]>>,
             chunks |-> <<<<<< <<<<55>>>> >>>>, <<<< <<>> >>>>>>]

TheResults == {[type |-> "Select", table |-> <<TheTable>>], [type |-> "Insert", table |-> <<>>],
               [type |-> "Drop", table |-> <<>>]}
TheNoTable == <<>>
TheNullText == <<78, 85>>

-----------------------------------------------------------------------------
(* The console: the lines a user may type.                                  *)

Select(view) == [type |-> "Select", view |-> view, placeholders |-> 0, name |-> "", definition |-> 0,
                 arguments |-> <<>>]
CreateViewAs(view, definition) == [Select(view) EXCEPT !.type = "CreateView", !.definition = definition]
DropViewOf(view) == [Select(view) EXCEPT !.type = "DropView"]
Update == [Select("") EXCEPT !.type = "Update"]
Prepare(name, view) == [Select(view) EXCEPT !.type = "Prepare", !.name = name, !.placeholders = 1]
Execute(name, arguments) == [Select("") EXCEPT !.type = "Execute", !.name = name, !.arguments = arguments]

Tokens(statements) == FlattenSeq([i \in DOMAIN statements |-> <<<<statements[i], 1>>, <<statements[i], 2>>>>])
Line(command, tokens, semicolon) ==
  [command |-> command, tokens |-> tokens, semicolon |-> semicolon, exec |-> FALSE, plan |-> "pqp"]
Sql(statements) == Line("", Tokens(statements), TRUE)
Visualize(exec, plan, statements) ==
  [Line("visualize", Tokens(statements), FALSE) EXCEPT !.exec = exec, !.plan = plan]

Redefine == <<DropViewOf("v"), CreateViewAs("v", 2)>>

TheLines ==
  {Line(command, <<>>, FALSE) : command \in {"begin", "rollback", "commit", "unload_plugin", ""}}
  \cup {Sql(s) : s \in {<<Select("v")>>, <<Update>>, <<Prepare("p", "v")>>, <<Execute("p", <<7>>)>>,
                        Redefine, <<Select("v"), Select("w")>>}}
  \cup {Line("", <<<<Select("v"), 1>>>>, FALSE), Line("", <<<<Select("v"), 2>>>>, TRUE)}
  \cup {Visualize(TRUE, "pqp", <<>>), Visualize(FALSE, "lqp", <<>>), Visualize(FALSE, "unoptlqp", <<>>),
        Visualize(FALSE, "pqp", <<Select("v")>>), Visualize(TRUE, "pqp", <<Update>>)}

TheScripts == {<<Sql(<<Select("w")>>), Sql(<<Update>>)>>, <<Sql(Redefine), Sql(<<Select("v")>>)>>}

InitConsole ==
  /\ views = [v \in {"v"} |-> 1] /\ query_cache = Empty /\ _prepared_statements = Empty
  /\ operators = <<>> /\ contexts = <<>>
  /\ pipeline = [c \in Clients |-> NoPipeline]
  /\ _multiline_input = <<>> /\ transaction = Nothing /\ script_lines = <<>>
  /\ doing = [what |-> "Prompt"] /\ return_code = "Ok" /\ abandoned = {}
  /\ lines = 0 /\ signals = 0

NextConsole ==
  \/ \E line \in TheLines : read(line)
  \/ \E script \in TheScripts : StartScript(script)
  \/ _exec_script \/ Ask \/ PipelineStep \/ Answer \/ handle_signal

-----------------------------------------------------------------------------
(* The catalog: two plugins share a library, another exports no factory.    *)

Library(file, exports) == [file |-> file, exports |-> exports]
TheLibraries == {Library(1, TRUE), Library(2, FALSE)}
ThePaths == {[name |-> "A", library |-> Library(1, TRUE)], [name |-> "B", library |-> Library(1, TRUE)],
             [name |-> "C", library |-> Library(2, FALSE)]}

Statement(s) ==
  \/ \E n \in Names : \/ ImportCsv(s, n) \/ _load_table(s, n) \/ CreateView(s, n) \/ DropView(s, n)
                      \/ get_view(s, n) \/ get_table(s, n)
  \/ add_table(s) \/ Rewrite(s) \/ EndScan(s)

PluginStep ==
  \/ \E path \in Paths : load_plugin(path)
  \/ \E path \in Paths : unload_plugin(path.name)
  \/ _clean_up \/ reset

NextCatalog == (\E s \in Sessions : Statement(s) /\ UNCHANGED pluginVars) \/ PluginStep

-----------------------------------------------------------------------------
(* A subject with several initial states starts in one of them only when it *)
(* is the subject.                                                          *)
Init ==
  /\ subject \in {"connection", "console", "catalog", "loop", "benchmark"}
  /\ InitConnection /\ InitConsole /\ InitCatalog /\ InitPlugins /\ InitLoop /\ InitRunner
  /\ subject # "connection" => Len(incoming) = 2
  /\ subject # "loop" => _loop_sleep_time = 0
  /\ subject # "benchmark" => Individual /\ enable_scheduler

ConnectionAction ==
  /\ subject = "connection" /\ NextConnection
  /\ UNCHANGED <<subject, allVars, catalogVars, pluginVars, loopVars, runnerVars>>

ConsoleAction ==
  /\ subject = "console" /\ NextConsole
  /\ UNCHANGED <<subject, connectionVars, catalogVars, pluginVars, loopVars, runnerVars>>

CatalogAction ==
  /\ subject = "catalog" /\ NextCatalog
  /\ UNCHANGED <<subject, connectionVars, allVars, loopVars, runnerVars>>

OthersThanLoop == <<subject, connectionVars, allVars, catalogVars, pluginVars, runnerVars>>
OthersThanRunner == <<subject, connectionVars, allVars, catalogVars, pluginVars, loopVars>>

LoopAction == subject = "loop" /\ NextLoop /\ UNCHANGED OthersThanLoop
RunnerAction == subject = "benchmark" /\ NextRunner /\ UNCHANGED OthersThanRunner

Next == ConnectionAction \/ ConsoleAction \/ CatalogAction \/ LoopAction \/ RunnerAction

(* FairLoop and FairRunner, each for the behaviours it is about.            *)
Fairness ==
  /\ WF_vars(subject = "loop" /\ LoopStep /\ UNCHANGED OthersThanLoop)
  /\ SF_vars(subject = "loop" /\ Timeout /\ UNCHANGED OthersThanLoop)
  /\ WF_vars(subject = "loop" /\ OwnerStep /\ UNCHANGED OthersThanLoop)
  /\ WF_vars(subject = "benchmark" /\ RunnerStep /\ UNCHANGED OthersThanRunner)
  /\ WF_vars(subject = "benchmark" /\ TimeIsUp /\ UNCHANGED OthersThanRunner)
  /\ WF_vars(subject = "benchmark" /\ (\E i \in DOMAIN tasks : Callback(i)) /\ UNCHANGED OthersThanRunner)

Spec == Init /\ [][Next]_vars /\ Fairness

-----------------------------------------------------------------------------
(* The connection                                                           *)

RECURSIVE IsWholeMessages(_)
IsWholeMessages(data) ==
  data = <<>> \/ \E message \in Requests \cup Startups :
                   IsPrefix(message, data) /\ IsWholeMessages(SubSeq(data, Len(message) + 1, Len(data)))

(* Unless a read was cut short, the session is between two messages of the  *)
(* client whenever it is about to read a header: header and body together   *)
(* take exactly one message off the socket, also when the body could not be *)
(* taken apart (ClientConnection::receive_packet_header and its siblings).  *)
Framing == ~misread /\ stage \in {"header", "startup"} => IsWholeMessages(incoming)

\* How a client splits what it receives: single characters deny SSL as long as
\* nothing else has come, then every packet says how long it is.
RECURSIVE Split(_, _)
Split(data, started) ==
  IF data = <<>> THEN <<>>
  ELSE IF ~started /\ data[1] = SslNo THEN <<<<SslNo>>>> \o Split(Tail(data), FALSE)
  ELSE IF Len(data) < 2 \/ Len(data) < data[2] + 1 THEN <<data>>
  ELSE <<SubSeq(data, 1, data[2] + 1)>> \o Split(SubSeq(data, data[2] + 2, Len(data)), TRUE)

(* Unless a send was cut short, the client that follows the lengths finds   *)
(* exactly the packets the session sent, in their order, whatever was       *)
(* buffered, flushed because the buffer was full, or answered by an error   *)
(* half way (ClientConnection::_send_bytes_async, _flush_async).            *)
AnswersArriveWhole == ~torn => Split(received \o _response_buffer, FALSE) = sent

(* The response buffer never outgrows the size it was made for, although a  *)
(* packet is only known to fit once the buffer is flushed.                  *)
BufferIsBounded == Len(_response_buffer) <= _max_response_size

(* When the session waits for the next message, everything up to the last   *)
(* ReadyForQuery is with the client, which waits for it in turn.            *)
ReadyIsFlushed == stage = "header" /\ sent # <<>> /\ Last(sent)[1] = ReadyForQuery => _response_buffer = <<>>

-----------------------------------------------------------------------------
(* The console and the SQL pipeline                                         *)

AboutToRun == pipe.step = "Run"
RunOperator == operators[pipe.statements[pipe.at].query_plan.roots[1]]

(* No operator is executed twice: a plan from the query cache or from the   *)
(* prepared statements is executed as a copy, even if a statement is asked  *)
(* for again (SQLPipelineStatement::get_query_plan).                        *)
RunsOnce == AboutToRun => ~RunOperator.ran

(* The values of an EXECUTE go into its copy only: the prepared plan keeps  *)
(* its placeholders for the next one.                                       *)
PreparedStaysUnbound ==
  \A name \in DOMAIN _prepared_statements : operators[_prepared_statements[name].roots[1]].arguments = <<>>

(* A plan runs with exactly the values its statement gives, also when it    *)
(* comes out of the cache, where the text of an EXECUTE is the key.         *)
ArgumentsApplied == AboutToRun => RunOperator.arguments = pipe.script[pipe.at].arguments

(* What is in the query cache can be executed by any pipeline that finds it *)
(* there: it has a root and was built for MVCC, even if the pipeline that   *)
(* cached it only wanted to show its plan.                                  *)
CachedPlansUsable ==
  \A text \in DOMAIN query_cache : query_cache[text].roots # <<>> /\ assert_same_mvcc_mode(query_cache[text], TRUE)

(* At the prompt, the transaction of the console is an active one: when a   *)
(* statement was rolled back, the console has given the transaction up      *)
(* (Console::_handle_rollback).  A second SIGINT can prevent that: the      *)
(* first one leaves rows locked, the second one strikes after the conflict. *)
TransactionIsActive ==
  doing.what = "Prompt" /\ transaction # Nothing /\ signals < 2 => contexts[transaction] = "Active"

(* A pipeline that was executed has one result table per statement, those   *)
(* without output included, unless SIGINT left it half way and it is asked  *)
(* again (SQLPipeline::get_result_tables).                                  *)
OneResultPerStatement == signals = 0 /\ pipe.was_executed => Len(pipe.result_tables) = Len(pipe.script)

-----------------------------------------------------------------------------
(* The catalog and the plugins                                              *)

(* No name is both a table's and a view's, whichever of the import          *)
(* operators, the console, CREATE VIEW and the plugins made it, with a      *)
(* check that may be older than the insertion.                              *)
NamesAreDisjoint == DOMAIN _tables \cap DOMAIN _views = {}

(* The plan of a view is what CREATE VIEW made, however many statements     *)
(* used it: the optimizer rewrites their copies (StorageManager::get_view). *)
ViewsStayAsDefined == \A name \in DOMAIN _views : plans[_views[name]] = 0

(* The library of a loaded and of a running plugin is open, after any       *)
(* number of loads of the same library, failed unloads and resets.          *)
PluginsAreOpen ==
  /\ \A name \in DOMAIN _plugins : handles[_plugins[name]] > 0
  /\ \A library \in running : handles[library] > 0

-----------------------------------------------------------------------------
(* The loop thread                                                          *)

(* Once pause() has returned the procedure is not running and does not      *)
(* start until the next call, unless pause() was called when the loop had   *)
(* not noticed the last resume() yet: then _is_paused is still set from     *)
(* before (PausableLoopThread::pause).                                      *)
PauseHolds == held /\ ~premature => position # "loop_func"

(* The loop neither waits with a lock it does not own nor unlocks one,      *)
(* unless it is paused again before it noticed the last resume().           *)
LoopStaysDefined == position \in {"undefined", "terminated"} => premature \/ unseen

(* pause() returns, although it spins on a flag only the loop sets.         *)
PauseReturns == owner = "pausing" ~> (owner # "pausing" \/ ~Alive)

(* The destructor returns unless its notification came between the loop's   *)
(* test of the flags and its wait: the flags are set without the mutex.     *)
Finishes == (owner = "joining" /\ ~missed /\ Alive) ~> (owner = "gone")

(* A resumed loop runs again unless the notification was lost or another    *)
(* pause() comes first.                                                     *)
Resumes == (owner = "idle" /\ unseen /\ ~missed) ~> (~unseen \/ _pause_requested \/ ~Alive)

-----------------------------------------------------------------------------
(* The benchmark runner                                                     *)

(* No client is counted as running when the report is written: all tasks    *)
(* were waited for, in both modes (BenchmarkRunner::_benchmark_query_sets). *)
ClientsReleased == runner_at \in {"report", "done"} => currently_running_clients = 0

Waiting == {tasks[i].set : i \in {j \in DOMAIN tasks : tasks[j].step = "queued"}}

(* In individual mode no more runs of a query wait or execute at a time     *)
(* than there are clients.                                                  *)
AtMostClients == Individual => Cardinality(Waiting) <= clients

(* Every iteration the report averages over has its duration, although      *)
(* queries finish while the benchmark is being ended.                       *)
IterationsHaveDurations ==
  runner_at = "report" => \A q \in Queries : results[q].num_iterations = results[q].iteration_durations

(* The unsigned counter of running clients never wraps and never exceeds    *)
(* their number, whichever query of a set finishes first.                   *)
ClientCountInRange == currently_running_clients \in 0..clients

(* A benchmark ends, by the number of runs or by the time.                  *)
BenchmarkEnds == subject = "benchmark" => <>(runner_at = "done")

-----------------------------------------------------------------------------
(* Client and session stay in step: requests are read one by one, answers   *)
(* arrive whole and in order through a bounded buffer, and nobody waits for *)
(* what is still in it (client_connection.cpp).                             *)
AnswersKeepProtocol == Framing /\ AnswersArriveWhole /\ BufferIsBounded /\ ReadyIsFlushed



(* The loop does what its owner asks for: it pauses, resumes and ends       *)
(* (pausable_loop_thread.cpp), but for the races named above.               *)
LoopObeysOwner == [](PauseHolds /\ LoopStaysDefined) /\ PauseReturns /\ Finishes /\ Resumes


=============================================================================
