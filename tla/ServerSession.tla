--------------------------- MODULE ServerSession ---------------------------
(***************************************************************************)
(* The sessions of the server: one state machine per client, which handles *)
(* one message of the PostgreSQL protocol after the other and passes SQL   *)
(* to tasks on the workers.  A simple query runs its statements through an *)
(* SQLPipeline, each in a transaction of its own that commits by itself.   *)
(* Parse, Bind and Execute run prepared statements in the transaction of   *)
(* the session, which the first Execute opens and Sync commits.  An        *)
(* exception in a handler rolls that transaction back.                     *)
(*                                                                         *)
(* A statement is an UPDATE of one row, named by the row, or a SELECT on a *)
(* table that is there only once a client has LOADed it.  The transactions *)
(* are as Mvcc shows them to be: an UPDATE locks the row, and conflicts    *)
(* with a lock of another transaction and with a commit since its own      *)
(* snapshot.  Creating a pipeline and binding touch nothing that other     *)
(* sessions change twice, so they are part of the step that handles the    *)
(* message.  Describe and Flush are ignored by the code, an SSL request is *)
(* denied: they change no state and have no action.  The build is a        *)
(* release build, in which DebugAssert is empty.                           *)
(***************************************************************************)
EXTENDS Naturals, Sequences

CONSTANTS
  Session,
  Row,          \* the rows, standing for the UPDATE statements on them
  SelectNew,    \* a SELECT on the table that LOAD adds
  SyntaxError,  \* a text the SQL parser refuses
  Name,         \* the names of prepared statements and portals
  Unnamed,      \* the empty name
  Scripts,      \* the texts of simple queries, as sequences of statements
  Loading,      \* the sessions whose clients use LOAD
  Batch,        \* the sessions that use Parse, Bind, Execute and Sync
  MaxMessages   \* bound: messages each session receives

Statement == Row \cup {SelectNew}

ASSUME ServerSessionAssumption ==
  /\ Unnamed \in Name
  /\ SelectNew \notin Row /\ SyntaxError \notin Statement
  /\ Scripts \subseteq Seq(Statement) \ {<<>>}
  /\ Loading \subseteq Session /\ Batch \subseteq Session
  /\ MaxMessages \in [Session -> Nat]

VARIABLES
  crashed,    \* an exception has left a worker thread: the process is gone
  loaded,     \* whether the StorageManager has the table that LOAD adds
  lock,       \* the transaction that has locked each row, or Free
  txn,        \* the transactions: phase, rows written, rows that others have
              \* committed since the snapshot
  pc,         \* where each session is
  messages,   \* messages each session has received
  prepared,   \* _prepared_statements: statement and state of its query plan
  portals,    \* _portals: statement and whether its operators were executed
  script,     \* the text of a simple query and the statement it is at
  running,    \* the name and portal an Execute runs
  reply,      \* what the handler answers to the client
  owed,       \* rows whose UPDATE Execute has reported complete to the client
              \* in the transaction of the session
  durable     \* rows committed for the message being handled

clientVars == <<messages, prepared, portals>>
dataVars == <<lock, txn, durable>>
vars == <<crashed, loaded, dataVars, pc, clientVars, script, running, reply, owed>>

Free == <<>>
None == <<>>
NoScript == [text |-> <<>>, at |-> 1]

(* _transaction of a session, and the transaction of the SQLPipelineStatement *)
(* that a simple query is running.                                         *)
Batched(s) == <<s, "batched">>
Single(s) == <<s, "single">>
Owner == Session \X {"batched", "single"}

NoTxn == [phase |-> "None", writes |-> {}, stale |-> {}]

Init ==
  /\ crashed = FALSE
  /\ loaded = FALSE
  /\ lock = [r \in Row |-> Free]
  /\ txn = [o \in Owner |-> NoTxn]
  /\ pc = [s \in Session |-> "Startup"]
  /\ messages = [s \in Session |-> 0]
  /\ prepared = [s \in Session |-> [n \in Name |-> None]]
  /\ portals = [s \in Session |-> [n \in Name |-> None]]
  /\ script = [s \in Session |-> NoScript]
  /\ running = [s \in Session |-> None]
  /\ reply = [s \in Session |-> "none"]
  /\ owed = [s \in Session |-> {}]
  /\ durable = [s \in Session |-> {}]

-----------------------------------------------------------------------------
(* Transactions, as functions from the lock and txn of a state to the next. *)

NewTransaction(o) == [txn EXCEPT ![o] = [NoTxn EXCEPT !.phase = "Active"]]

Conflicts(o, r) == lock[r] \notin {Free, o} \/ r \in txn[o].stale

Unlocked(o) == [r \in Row |-> IF lock[r] = o THEN Free ELSE lock[r]]

(* Mutant: the conflicting UPDATE fails and the earlier ones keep their locks. *)
UpdateRowKeepsLocks(o, r) ==
  IF Conflicts(o, r)
  THEN /\ UNCHANGED lock
       /\ txn' = [txn EXCEPT ![o] = [NoTxn EXCEPT !.phase = "RolledBack"]]
  ELSE /\ lock' = [lock EXCEPT ![r] = o]
       /\ txn' = [txn EXCEPT ![o].writes = @ \cup {r}]

(* OperatorTask rolls the transaction of a conflicting UPDATE back.        *)
UpdateRow(o, r) ==
  IF Conflicts(o, r)
  THEN /\ lock' = Unlocked(o)
       /\ txn' = [txn EXCEPT ![o] = [NoTxn EXCEPT !.phase = "RolledBack"]]
  ELSE /\ lock' = [lock EXCEPT ![r] = o]
       /\ txn' = [txn EXCEPT ![o].writes = @ \cup {r}]

CommitOf(s, o) ==
  /\ lock' = Unlocked(o)
  /\ txn' = [p \in Owner |->
               IF p = o THEN NoTxn
               ELSE IF txn[p].phase = "Active"
                    THEN [txn[p] EXCEPT !.stale = @ \cup txn[o].writes]
                    ELSE txn[p]]
  /\ durable' = [durable EXCEPT ![s] = @ \cup txn[o].writes]

(* Mutant: the transaction is dropped without being rolled back.           *)
AbortBatchedDrops(s) ==
  /\ lock' = lock
  /\ txn' = [txn EXCEPT ![Batched(s)] = NoTxn]
  /\ owed' = [owed EXCEPT ![s] = {}]

(* What the request loop does to _transaction when a handler has thrown.   *)
AbortBatched(s) ==
  /\ lock' = Unlocked(Batched(s))
  /\ txn' = [txn EXCEPT ![Batched(s)] = NoTxn]
  /\ owed' = [owed EXCEPT ![s] = {}]

-----------------------------------------------------------------------------
(* The request loop.                                                       *)

Goto(s, from, to) == pc[s] = from /\ pc' = [pc EXCEPT ![s] = to]

Startup(s) ==
  /\ Goto(s, "Startup", "Idle")
  /\ UNCHANGED <<crashed, loaded, dataVars, clientVars, script, running, reply, owed>>

(* A message has arrived; its handler goes on at `to`.                     *)
Receive(s, to) ==
  /\ Goto(s, "Idle", to)
  /\ messages[s] < MaxMessages[s]
  /\ messages' = [messages EXCEPT ![s] = @ + 1]

Answers(s, what) == reply' = [reply EXCEPT ![s] = what]

(* The handler has thrown: roll back, answer with the error.               *)
Throw(s) == Answers(s, "error") /\ AbortBatched(s)

HandlerEnds(s) ==
  /\ reply' = [reply EXCEPT ![s] = "none"]
  /\ script' = [script EXCEPT ![s] = NoScript]
  /\ running' = [running EXCEPT ![s] = None]
  /\ durable' = [durable EXCEPT ![s] = {}]

(* The answer has been sent, and the loop receives the next message.       *)
AnswerSent(s) ==
  /\ Goto(s, "Answer", "Idle")
  /\ HandlerEnds(s)
  /\ owed' = [owed EXCEPT ![s] = IF reply[s] = "synced" THEN {} ELSE @]
  /\ UNCHANGED <<crashed, loaded, lock, txn, clientVars>>

(* The connection breaks while the answer is sent: that exception, too,    *)
(* rolls back; sending the error fails as well and ends the session.       *)
AnswerLost(s) ==
  /\ Goto(s, "Answer", "Ended")
  /\ AbortBatched(s)
  /\ HandlerEnds(s)
  /\ UNCHANGED <<crashed, loaded, clientVars>>

(* Terminate, an unsupported message type, or a connection that breaks     *)
(* between two messages: none of them reaches the handler of exceptions.   *)
End(s) ==
  /\ Goto(s, "Idle", "Ended")
  /\ UNCHANGED <<crashed, loaded, dataVars, clientVars, script, running, reply, owed>>

-----------------------------------------------------------------------------
(* Simple queries.                                                         *)

ForgetUnnamed(s) ==
  /\ prepared' = [prepared EXCEPT ![s][Unnamed] = None]
  /\ portals' = [portals EXCEPT ![s][Unnamed] = None]

SimpleQuery(s, text) ==
  /\ Receive(s, "Translate")
  /\ ForgetUnnamed(s)
  /\ script' = [script EXCEPT ![s] = [text |-> text, at |-> 1]]
  /\ UNCHANGED <<crashed, loaded, dataVars, running, reply, owed>>

(* A text that is no SQL and not a LOAD command.                           *)
SimpleQueryInvalid(s) ==
  /\ Receive(s, "Answer")
  /\ ForgetUnnamed(s)
  /\ Throw(s)
  /\ UNCHANGED <<crashed, loaded, durable, script, running>>

SimpleQueryLoad(s) ==
  /\ Receive(s, "Load")
  /\ ForgetUnnamed(s)
  /\ UNCHANGED <<crashed, loaded, dataVars, script, running, reply, owed>>

(* LoadServerFileTask: a table of that name must not exist.                *)
LoadTable(s) ==
  /\ Goto(s, "Load", "Answer")
  /\ IF loaded
     THEN Throw(s) /\ UNCHANGED loaded
     ELSE loaded' = TRUE /\ Answers(s, "loaded") /\ UNCHANGED <<lock, txn, owed>>
  /\ UNCHANGED <<crashed, durable, clientVars, script, running>>

CurrentStatement(s) == script[s].text[script[s].at]

Translatable(statement) == statement = SelectNew => loaded

(* Mutant: the exception is not passed on through the promise of the task. *)
TranslateSilently(s) ==
  /\ pc[s] = "Translate"
  /\ Translatable(CurrentStatement(s))
  /\ txn' = NewTransaction(Single(s))
  /\ pc' = [pc EXCEPT ![s] = "Execute"]
  /\ UNCHANGED <<crashed, loaded, lock, durable, clientVars, script, running, reply, owed>>

(* get_query_plan creates the transaction of the statement, then its plan. *)
Translate(s) ==
  /\ pc[s] = "Translate"
  /\ IF Translatable(CurrentStatement(s))
     THEN /\ txn' = NewTransaction(Single(s))
          /\ pc' = [pc EXCEPT ![s] = "Execute"]
          /\ UNCHANGED <<lock, reply, owed>>
     ELSE /\ pc' = [pc EXCEPT ![s] = "Answer"]
          /\ Throw(s)
  /\ UNCHANGED <<crashed, loaded, durable, clientVars, script, running>>

ExecuteTasks(s) ==
  /\ Goto(s, "Execute", "Commit")
  /\ IF CurrentStatement(s) \in Row
     THEN UpdateRow(Single(s), CurrentStatement(s))
     ELSE UNCHANGED <<lock, txn>>
  /\ UNCHANGED <<crashed, loaded, durable, clientVars, script, running, reply, owed>>

(* get_result_table commits; the commit of a transaction that was rolled   *)
(* back throws, and the statements after it are not run.                   *)
CommitStatement(s) ==
  /\ pc[s] = "Commit"
  /\ txn[Single(s)].phase = "Active"
  /\ CommitOf(s, Single(s))
  /\ IF script[s].at = Len(script[s].text)
     THEN /\ pc' = [pc EXCEPT ![s] = "Answer"]
          /\ Answers(s, "result")
          /\ UNCHANGED script
     ELSE /\ pc' = [pc EXCEPT ![s] = "Translate"]
          /\ script' = [script EXCEPT ![s].at = @ + 1]
          /\ UNCHANGED reply
  /\ UNCHANGED <<crashed, loaded, clientVars, running, owed>>

CommitThrows(s) ==
  /\ Goto(s, "Commit", "Answer")
  /\ txn[Single(s)].phase = "RolledBack"
  /\ Answers(s, "error")
  /\ lock' = Unlocked(Batched(s))
  /\ txn' = [txn EXCEPT ![Batched(s)] = NoTxn, ![Single(s)] = NoTxn]
  /\ owed' = [owed EXCEPT ![s] = {}]
  /\ UNCHANGED <<crashed, loaded, durable, clientVars, script, running>>

-----------------------------------------------------------------------------
(* Prepared statements.  A name that is in use must not be defined again,  *)
(* and no message takes a name back; the empty name is free again whenever *)
(* it has been used.                                                       *)

Pipeline(statement) == [statement |-> statement, plan |-> "none"]

(* The pipeline is created after the old one of the empty name has gone.   *)
Parse(s, n, text) ==
  /\ Receive(s, "Answer")
  /\ IF prepared[s][n] # None /\ n # Unnamed
     THEN Throw(s) /\ UNCHANGED prepared
     ELSE /\ prepared' = [prepared EXCEPT ![s][n] =
                            IF text = SyntaxError THEN None ELSE Pipeline(text)]
          /\ IF text = SyntaxError
             THEN Throw(s)
             ELSE Answers(s, "parsed") /\ UNCHANGED <<lock, txn, owed>>
  /\ UNCHANGED <<crashed, loaded, durable, portals, script, running>>

(* get_query_plan sets _query_plan before it translates, and returns it at *)
(* every later call: a plan whose translation has thrown stays empty.      *)
get_query_plan(pipeline) ==
  CASE pipeline.plan # "none" -> pipeline
    [] pipeline.plan = "none" /\ Translatable(pipeline.statement) ->
         [pipeline EXCEPT !.plan = "complete"]
    [] OTHER -> [pipeline EXCEPT !.plan = "empty"]

(* What is left of the prepared statements when Bind has looked one up.    *)
TakeStatement(s, n, pipeline) ==
  [prepared EXCEPT ![s][n] = IF n = Unnamed THEN None ELSE pipeline]

BindUnknown(s, n) ==
  /\ Receive(s, "Answer")
  /\ prepared[s][n] = None
  /\ Throw(s)
  /\ UNCHANGED <<crashed, loaded, durable, prepared, portals, script, running>>

BindTwice(s, n, p) ==
  /\ Receive(s, "Answer")
  /\ prepared[s][n] # None /\ portals[s][p] # None /\ p # Unnamed
  /\ prepared' = TakeStatement(s, n, prepared[s][n])
  /\ Throw(s)
  /\ UNCHANGED <<crashed, loaded, durable, portals, script, running>>

Bind(s, n, p) ==
  /\ Receive(s, "Answer")
  /\ prepared[s][n] # None
  /\ portals[s][p] = None \/ p = Unnamed
  /\ LET pipeline == get_query_plan(prepared[s][n]) IN
       /\ prepared' = TakeStatement(s, n, pipeline)
       /\ portals' = [portals EXCEPT ![s][p] =
                        IF pipeline.plan = "complete"
                        THEN [statement |-> pipeline.statement, executed |-> FALSE]
                        ELSE None]
       /\ IF pipeline.plan = "complete"
          THEN Answers(s, "bound") /\ UNCHANGED <<lock, txn, owed>>
          ELSE Throw(s)
  /\ UNCHANGED <<crashed, loaded, durable, script, running>>

(* Execute looks the portal up and opens the transaction, before the task  *)
(* runs the plan.                                                          *)
Execute(s, p) ==
  /\ Receive(s, "RunPortal")
  /\ portals[s][p] # None
  /\ portals' = [portals EXCEPT ![s][p] =
                   IF p = Unnamed THEN None ELSE [@ EXCEPT !.executed = TRUE]]
  /\ running' = [running EXCEPT ![s] = portals[s][p]]
  /\ txn' = IF txn[Batched(s)].phase = "None" THEN NewTransaction(Batched(s)) ELSE txn
  /\ UNCHANGED <<crashed, loaded, lock, durable, prepared, script, reply, owed>>

ExecuteUnknown(s, p) ==
  /\ Receive(s, "Answer")
  /\ portals[s][p] = None
  /\ Throw(s)
  /\ UNCHANGED <<crashed, loaded, durable, prepared, portals, script, running>>

(* ExecuteServerPreparedStatementTask waits for the operators and does not *)
(* look at the transaction: a conflict is answered like a success.         *)
RunPortal(s) ==
  /\ Goto(s, "RunPortal", "Answer")
  /\ LET statement == running[s].statement IN
       IF statement \in Row
       THEN /\ ~running[s].executed /\ txn[Batched(s)].phase = "Active"
            /\ UpdateRow(Batched(s), statement)
            /\ owed' = [owed EXCEPT ![s] = @ \cup {statement}]
       ELSE UNCHANGED <<lock, txn, owed>>
  /\ Answers(s, "complete")
  /\ UNCHANGED <<crashed, loaded, durable, clientVars, script, running>>

(* An UPDATE that is executed a second time is not Pending, one that is    *)
(* skipped because the transaction was rolled back is neither Failed nor   *)
(* Executed: the assertion throws in the worker that runs the OperatorTask. *)
AssertionFailsInWorker(s) ==
  /\ pc[s] = "RunPortal"
  /\ running[s].statement \in Row
  /\ running[s].executed \/ txn[Batched(s)].phase = "RolledBack"
  /\ crashed' = TRUE
  /\ UNCHANGED <<loaded, dataVars, pc, clientVars, script, running, reply, owed>>

(* Mutant: the commit of a transaction that was rolled back does nothing.  *)
SyncIgnoresRollback(s) ==
  /\ Receive(s, "Answer")
  /\ CASE txn[Batched(s)].phase = "Active" -> CommitOf(s, Batched(s)) /\ UNCHANGED owed
       [] txn[Batched(s)].phase = "None" -> UNCHANGED <<dataVars, owed>>
       [] OTHER -> txn' = [txn EXCEPT ![Batched(s)] = NoTxn] /\ UNCHANGED <<lock, durable, owed>>
  /\ Answers(s, "synced")
  /\ UNCHANGED <<crashed, loaded, prepared, portals, script, running>>

(* Sync commits; committing a transaction that was rolled back throws.     *)
Sync(s) ==
  /\ Receive(s, "Answer")
  /\ CASE txn[Batched(s)].phase = "Active" -> CommitOf(s, Batched(s)) /\ UNCHANGED owed
       [] txn[Batched(s)].phase = "None" -> UNCHANGED <<dataVars, owed>>
       [] txn[Batched(s)].phase = "RolledBack" -> AbortBatched(s) /\ UNCHANGED durable
  /\ Answers(s, IF txn[Batched(s)].phase = "RolledBack" THEN "error" ELSE "synced")
  /\ UNCHANGED <<crashed, loaded, prepared, portals, script, running>>

-----------------------------------------------------------------------------
Task(s) ==
  \/ LoadTable(s) \/ Translate(s) \/ ExecuteTasks(s)
  \/ CommitStatement(s) \/ CommitThrows(s)
  \/ RunPortal(s) \/ AssertionFailsInWorker(s)

Answer(s) == AnswerSent(s) \/ AnswerLost(s)

SimpleMessage(s) ==
  \/ \E text \in Scripts : SimpleQuery(s, text)
  \/ SimpleQueryInvalid(s)
  \/ s \in Loading /\ SimpleQueryLoad(s)

BatchMessage(s) ==
  \/ \E n \in Name, text \in Statement \cup {SyntaxError} : Parse(s, n, text)
  \/ \E n \in Name : BindUnknown(s, n)
  \/ \E n, p \in Name : Bind(s, n, p) \/ BindTwice(s, n, p)
  \/ \E p \in Name : Execute(s, p) \/ ExecuteUnknown(s, p)
  \/ Sync(s)

Next ==
  /\ ~crashed
  /\ \E s \in Session :
       \/ Startup(s) \/ Task(s) \/ Answer(s) \/ End(s)
       \/ SimpleMessage(s)
       \/ s \in Batch /\ BatchMessage(s)

(* The workers run the tasks, and the thread of the io_service sends the   *)
(* answers or notices that it cannot.  Clients need not send anything.     *)
Fairness == \A s \in Session : WF_vars(~crashed /\ (Task(s) \/ Answer(s)))

Spec == Init /\ [][Next]_vars /\ Fairness

-----------------------------------------------------------------------------
RowsUpTo(s, i) == {script[s].text[j] : j \in 1..i} \cap Row

(* When Sync or a simple query is answered without an error, exactly the   *)
(* UPDATEs the client was told of are committed: Execute reports a         *)
(* conflict as complete, so it is the commit in Sync that has to fail for  *)
(* the whole transaction (_handle_execute_command, _handle_sync_command).  *)
AnsweredIsDurable ==
  \A s \in Session :
    /\ reply[s] = "synced" => durable[s] = owed[s]
    /\ reply[s] = "result" => durable[s] = RowsUpTo(s, Len(script[s].text))

(* An error answer means that the session has no transaction and no lock   *)
(* left, and that of a simple query exactly the statements before the one  *)
(* that failed are committed: each statement commits by itself             *)
(* (_handle_client_requests, SQLPipeline::get_result_tables).              *)
ErrorUndoesTheRest ==
  \A s \in Session : reply[s] = "error" =>
    /\ durable[s] = RowsUpTo(s, script[s].at - 1)
    /\ txn[Batched(s)] = NoTxn /\ txn[Single(s)].phase # "Active"
    /\ \A r \in Row : lock[r] \notin {Batched(s), Single(s)}

(* A row is locked exactly by the active transaction that has updated it,  *)
(* also after conflicts, errors and broken connections.  (The transaction  *)
(* of a client that left between Execute and Sync stays active.)           *)
LockedByActive ==
  \A r \in Row, o \in Owner :
    lock[r] = o <=> txn[o].phase = "Active" /\ r \in txn[o].writes

(* No transaction, of Sync or of a simple query, is about to commit an     *)
(* UPDATE of a row that another session has committed since its snapshot:  *)
(* the snapshot is taken when Execute or get_query_plan creates the        *)
(* context, before the task of the UPDATE is scheduled.                    *)
NoLostUpdate ==
  \A o \in Owner : txn[o].phase = "Active" => txn[o].writes \cap txn[o].stale = {}

(* The rows a transaction has written are locked for it alone, and not     *)
(* written by another since its snapshot (update.cpp, delete.cpp).         *)
LocksProtectUpdates == LockedByActive /\ NoLostUpdate

(* Every message is answered, or the connection or the server has ended:   *)
(* the tasks of the server pass their exceptions on through their promises. *)
EveryRequestAnswered ==
  \A s \in Session :
    pc[s] \notin {"Startup", "Idle", "Ended"} ~> pc[s] \in {"Idle", "Ended"} \/ crashed

=============================================================================
