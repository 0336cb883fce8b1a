------------------------- MODULE TransactionManager -------------------------
(***************************************************************************)
(* concurrency/transaction_manager.cpp, commit_context.cpp and the commit  *)
(* path of transaction_context.cpp: the lock-free list of commit contexts  *)
(* that orders the commits.                                                *)
(*                                                                         *)
(* Every transaction is committed by a thread of its own; a step is one    *)
(* access to shared memory.  All of them are sequentially consistent       *)
(* atomics, except a context's callback, which its owner writes before it  *)
(* makes the context pending.  A transaction creates a fresh context in    *)
(* every round of _new_commit_context and drops the ones it failed to      *)
(* link, so its current context is named by the transaction itself.        *)
(***************************************************************************)
EXTENDS Naturals

CONSTANTS
  Txn,                      \* the transactions, one thread each
  Root,                     \* the context TransactionManager() creates
  NoContext,                \* a null shared_ptr<CommitContext>
  INITIAL_TRANSACTION_ID,
  INITIAL_COMMIT_ID

ASSUME ContextAssumption ==
  /\ Root \notin Txn
  /\ NoContext \notin Txn \cup {Root}
ASSUME InitialIdsAssumption ==
  /\ INITIAL_TRANSACTION_ID \in Nat \ {0}
  /\ INITIAL_COMMIT_ID \in Nat \ {0}

Context == Txn \cup {Root}

VARIABLES
  next_transaction_id,      \* TransactionManager::_next_transaction_id
  last_commit_id,           \* TransactionManager::_last_commit_id
  last_commit_context,      \* TransactionManager::_last_commit_context
  commit_id,                \* CommitContext::_commit_id of each context
  pending,                  \* CommitContext::_pending
  next,                     \* CommitContext::_next
  callback,                 \* CommitContext::_callback is set
  transaction_id,           \* TransactionContext::_transaction_id
  snapshot_commit_id,       \* TransactionContext::_snapshot_commit_id
  recorded,                 \* commit_records has run for all the operators
  fired,                    \* how often the callback of the context ran
  current,                  \* the local variable current_context
  pc                        \* where the thread is

managerVars == <<next_transaction_id, last_commit_id, last_commit_context>>
contextVars == <<commit_id, pending, next, callback>>
txnVars == <<transaction_id, snapshot_commit_id, recorded, fired>>
vars == <<managerVars, contextVars, txnVars, current, pc>>

NoId == 0

Init ==
  /\ next_transaction_id = INITIAL_TRANSACTION_ID
  /\ last_commit_id = INITIAL_COMMIT_ID
  /\ last_commit_context = Root
  /\ commit_id = [c \in Context |-> IF c = Root THEN INITIAL_COMMIT_ID ELSE NoId]
  /\ pending = [c \in Context |-> FALSE]
  /\ next = [c \in Context |-> NoContext]
  /\ callback = [c \in Context |-> FALSE]
  /\ transaction_id = [t \in Txn |-> NoId]
  /\ snapshot_commit_id = [t \in Txn |-> NoId]
  /\ recorded = [t \in Txn |-> FALSE]
  /\ fired = [t \in Txn |-> 0]
  /\ current = [t \in Txn |-> NoContext]
  /\ pc = [t \in Txn |-> "begin"]

Goto(t, from, to) ==
  /\ pc[t] = from
  /\ pc' = [pc EXCEPT ![t] = to]

-----------------------------------------------------------------------------
(* TransactionManager::new_transaction_context *)

(* Its two loads are one step: no other thread can tell when the            *)
(* transaction id was taken.                                                *)
NewTransactionContext(t) ==
  /\ Goto(t, "begin", "load_last")
  /\ transaction_id' = [transaction_id EXCEPT ![t] = next_transaction_id]
  /\ next_transaction_id' = next_transaction_id + 1
  /\ snapshot_commit_id' = [snapshot_commit_id EXCEPT ![t] = last_commit_id]
  /\ UNCHANGED <<last_commit_id, last_commit_context, contextVars, recorded,
                 fired, current>>

-----------------------------------------------------------------------------
(* TransactionManager::_new_commit_context *)

LoadLastContext(t) ==
  /\ Goto(t, "load_last", "check_next")
  /\ current' = [current EXCEPT ![t] = last_commit_context]
  /\ UNCHANGED <<managerVars, contextVars, txnVars>>

(* Mutant: the inner loop does not load the last context again. *)
ReloadNever(t) ==
  /\ pc[t] = "check_next"
  /\ next[current[t]] # NoContext
  /\ UNCHANGED vars

(* The inner loop leaves a context that has a successor. *)
ReloadLastContext(t) ==
  /\ Goto(t, "check_next", "load_last")
  /\ next[current[t]] # NoContext
  /\ UNCHANGED <<managerVars, contextVars, txnVars, current>>

CreateContext(t) ==
  /\ Goto(t, "check_next", "try_set_next")
  /\ next[current[t]] = NoContext
  /\ commit_id' = [commit_id EXCEPT ![t] = commit_id[current[t]] + 1]
  /\ pending' = [pending EXCEPT ![t] = FALSE]
  /\ next' = [next EXCEPT ![t] = NoContext]
  /\ callback' = [callback EXCEPT ![t] = FALSE]
  /\ UNCHANGED <<managerVars, txnVars, current>>

(* Mutant: a plain store instead of the compare-and-swap. *)
SetNextWithoutCas(t) ==
  /\ Goto(t, "try_set_next", "publish")
  /\ next' = [next EXCEPT ![current[t]] = t]
  /\ UNCHANGED <<managerVars, commit_id, pending, callback, txnVars, current>>

(* CommitContext::try_set_next: the compare-and-swap decides, the has_next *)
(* before it only fails earlier.                                           *)
SetNext(t) ==
  /\ Goto(t, "try_set_next", "publish")
  /\ next[current[t]] = NoContext
  /\ next' = [next EXCEPT ![current[t]] = t]
  /\ UNCHANGED <<managerVars, commit_id, pending, callback, txnVars, current>>

SetNextFails(t) ==
  /\ Goto(t, "try_set_next", "check_next")
  /\ next[current[t]] # NoContext
  /\ UNCHANGED <<managerVars, contextVars, txnVars, current>>

(* Assert(success, "Invariant violated.") throws if the exchange fails. *)
PublishContext(t) ==
  /\ Goto(t, "publish",
          IF last_commit_context = current[t] THEN "commit_records"
                                              ELSE "invariant_violated")
  /\ last_commit_context' =
       IF last_commit_context = current[t] THEN t ELSE last_commit_context
  /\ UNCHANGED <<next_transaction_id, last_commit_id, contextVars, txnVars, current>>

-----------------------------------------------------------------------------
(* TransactionContext::commit_async after _prepare_commit *)

(* Mutant: the context becomes pending before the records are written. *)
CommitRecordsLate(t) ==
  /\ Goto(t, "commit_records", "set_callback")
  /\ UNCHANGED <<managerVars, contextVars, txnVars, current>>

CommitRecords(t) ==
  /\ Goto(t, "commit_records", "set_callback")
  /\ recorded' = [recorded EXCEPT ![t] = TRUE]
  /\ UNCHANGED <<managerVars, contextVars, transaction_id, snapshot_commit_id,
                 fired, current>>

(* CommitContext::make_pending: the callback first, then the flag. *)
SetCallback(t) ==
  /\ Goto(t, "set_callback", "set_pending")
  /\ callback' = [callback EXCEPT ![t] = TRUE]
  /\ UNCHANGED <<managerVars, commit_id, pending, next, txnVars, current>>

SetPending(t) ==
  /\ Goto(t, "set_pending", "check_pending")
  /\ pending' = [pending EXCEPT ![t] = TRUE]
  /\ current' = [current EXCEPT ![t] = t]
  /\ UNCHANGED <<managerVars, commit_id, next, callback, txnVars>>

-----------------------------------------------------------------------------
(* TransactionManager::_try_increment_last_commit_id *)

CheckPending(t) ==
  /\ Goto(t, "check_pending", IF pending[current[t]] THEN "increment" ELSE "wait")
  /\ UNCHANGED <<managerVars, contextVars, txnVars, current>>

(* Mutant: the id is stored without a look at its old value. *)
IncrementWithoutCas(t) ==
  /\ Goto(t, "increment", "fire")
  /\ last_commit_id' = commit_id[current[t]]
  /\ UNCHANGED <<next_transaction_id, last_commit_context, contextVars, txnVars, current>>

IncrementLastCommitId(t) ==
  /\ Goto(t, "increment", "fire")
  /\ last_commit_id = commit_id[current[t]] - 1
  /\ last_commit_id' = commit_id[current[t]]
  /\ UNCHANGED <<next_transaction_id, last_commit_context, contextVars, txnVars, current>>

(* Mutant: no return when the exchange fails. *)
IncrementFailsAndFires(t) ==
  /\ Goto(t, "increment", "fire")
  /\ last_commit_id # commit_id[current[t]] - 1
  /\ UNCHANGED <<managerVars, contextVars, txnVars, current>>

IncrementFails(t) ==
  /\ Goto(t, "increment", "wait")
  /\ last_commit_id # commit_id[current[t]] - 1
  /\ UNCHANGED <<managerVars, contextVars, txnVars, current>>

FireCallback(t) ==
  /\ Goto(t, "fire", "follow_next")
  /\ fired' = [fired EXCEPT ![current[t]] = IF callback[current[t]] THEN @ + 1 ELSE @]
  /\ UNCHANGED <<managerVars, contextVars, transaction_id, snapshot_commit_id,
                 recorded, current>>

FollowNext(t) ==
  /\ Goto(t, "follow_next",
          IF next[current[t]] = NoContext THEN "wait" ELSE "check_pending")
  /\ current' = [current EXCEPT ![t] =
                   IF next[@] = NoContext THEN @ ELSE next[@]]
  /\ UNCHANGED <<managerVars, contextVars, txnVars>>

(* TransactionContext::commit returns when its callback has set the promise. *)
CommitReturns(t) ==
  /\ Goto(t, "wait", "done")
  /\ fired[t] > 0
  /\ UNCHANGED <<managerVars, contextVars, txnVars, current>>

-----------------------------------------------------------------------------

Thread(t) ==
  \/ NewTransactionContext(t)
  \/ LoadLastContext(t) \/ ReloadLastContext(t) \/ CreateContext(t)
  \/ SetNext(t) \/ SetNextFails(t) \/ PublishContext(t)
  \/ CommitRecords(t) \/ SetCallback(t) \/ SetPending(t)
  \/ CheckPending(t) \/ IncrementLastCommitId(t) \/ IncrementFails(t)
  \/ FireCallback(t) \/ FollowNext(t) \/ CommitReturns(t)

(* All transactions have committed; new ones are not modelled. *)
Finished ==
  /\ \A t \in Txn : pc[t] = "done"
  /\ UNCHANGED vars

Next == (\E t \in Txn : Thread(t)) \/ Finished

(* The operating system schedules every runnable thread. *)
Fairness == \A t \in Txn : WF_vars(Thread(t))

Spec == Init /\ [][Next]_vars
FairSpec == Spec /\ Fairness

-----------------------------------------------------------------------------
(* The list of contexts *)

PreparingPc == {"begin", "load_last", "check_next", "try_set_next"}
LinkedPc == {"publish", "commit_records", "set_callback", "set_pending",
             "check_pending", "increment", "fire", "follow_next", "wait", "done"}

Linked == {t \in Txn : pc[t] \in LinkedPc}

(* The context that has no successor is the published one, or the one its  *)
(* creator is about to publish.                                            *)
newest_id ==
  IF next[last_commit_context] = NoContext
  THEN commit_id[last_commit_context]
  ELSE commit_id[last_commit_context] + 1

Order == INSTANCE CommitOrder WITH
  cid <- [t \in Txn |-> IF t \in Linked THEN commit_id[t] ELSE NoId],
  ready <- {t \in Txn : recorded[t]},
  committed <- {t \in Txn : fired[t] > 0}

-----------------------------------------------------------------------------
(* Properties *)

TypeOK ==
  /\ next_transaction_id \in Nat
  /\ last_commit_id \in Nat
  /\ last_commit_context \in Context
  /\ commit_id \in [Context -> Nat]
  /\ pending \in [Context -> BOOLEAN]
  /\ next \in [Context -> Txn \cup {NoContext}]
  /\ callback \in [Context -> BOOLEAN]
  /\ transaction_id \in [Txn -> Nat]
  /\ snapshot_commit_id \in [Txn -> Nat]
  /\ recorded \in [Txn -> BOOLEAN]
  /\ fired \in [Txn -> Nat]
  /\ current \in [Txn -> Context \cup {NoContext}]
  /\ pc \in [Txn -> PreparingPc \cup LinkedPc \cup {"invariant_violated"}]

(* The assertion of _new_commit_context never fails: whoever links a        *)
(* context behind the last one is also the only one to publish its own.     *)
InvariantNotViolated == \A t \in Txn : pc[t] # "invariant_violated"

(* The callback of a context runs at most once, however many threads walk   *)
(* the list at the same time (commit sets its promise there, and setting it *)
(* twice throws).                                                           *)
CallbackFiresOnce == \A t \in Txn : fired[t] <= 1

(* The lock-free list implements CommitOrder: ids without a gap, records    *)
(* before visibility, visibility in the order of the ids.                   *)
ImplementsCommitOrder == Order!Spec

(* Whatever a snapshot taken now can see is completely written, although    *)
(* the thread that advances _last_commit_id is often not the one that wrote *)
(* the records; and a commit is acknowledged only once it is visible.       *)
VisibleIsComplete == Order!VisibleIsComplete

(* A transaction that begins after a commit returned sees that commit.      *)
ReturnedIsVisible ==
  [][\A t, u \in Txn :
        pc[t] = "done" /\ pc[u] = "begin" /\ pc'[u] # pc[u]
        => snapshot_commit_id'[u] >= commit_id[t]]_vars

(* Every transaction that starts to commit is eventually told that it did:  *)
(* a thread that gives up in _try_increment_last_commit_id has left its     *)
(* pending context to another thread that will get to it.                   *)
EveryCommitReturns == \A t \in Txn : pc[t] = "load_last" ~> pc[t] = "done"

-----------------------------------------------------------------------------
(* The inductive invariant: what the threads know about the list of         *)
(* contexts at each of their steps.                                         *)

Chain == Linked \cup {Root}

(* Commit ids grow by one along the list, and only its newest context has   *)
(* no successor.                                                            *)
ListInv ==
  /\ last_commit_context \in Chain
  /\ commit_id[Root] = INITIAL_COMMIT_ID
  /\ \A c \in Chain :
       /\ commit_id[c] \in INITIAL_COMMIT_ID..newest_id
       /\ next[c] = NoContext => commit_id[c] = newest_id
       /\ next[c] # NoContext => /\ next[c] \in Linked
                                 /\ commit_id[next[c]] = commit_id[c] + 1
  /\ \A c, d \in Chain : commit_id[c] = commit_id[d] => c = d

(* At most one thread is between linking and publishing its context. *)
PublisherInv ==
  /\ \A t \in Txn :
       pc[t] = "publish" => /\ current[t] = last_commit_context
                            /\ next[last_commit_context] = t
  /\ \A t \in Txn : next[last_commit_context] = t => pc[t] = "publish"

(* A thread that looks for the end of the list holds a published context. *)
SearcherInv ==
  \A t \in Txn :
    /\ t \notin Linked => next[t] = NoContext
    /\ pc[t] \in {"check_next", "try_set_next"} =>
         /\ current[t] \in Chain
         /\ commit_id[current[t]] <= commit_id[last_commit_context]
    /\ pc[t] = "try_set_next" => commit_id[t] = commit_id[current[t]] + 1

RecordedPc == LinkedPc \ {"publish", "commit_records"}
CallbackPc == RecordedPc \ {"set_callback"}
PendingPc == CallbackPc \ {"set_pending"}

(* What a context tells the others agrees with where its owner is. *)
OwnerInv ==
  /\ ~pending[Root]
  /\ \A t \in Txn :
       /\ recorded[t] <=> pc[t] \in RecordedPc
       /\ callback[t] <=> pc[t] \in CallbackPc
       /\ pending[t] <=> pc[t] \in PendingPc

(* Visible ids are pending ones, and the one thread that made an id visible *)
(* fires its callback.                                                      *)
VisibilityInv ==
  /\ last_commit_id \in INITIAL_COMMIT_ID..newest_id
  /\ \A t \in Linked : commit_id[t] <= last_commit_id => pending[t]
  /\ \A t \in Txn :
       /\ pc[t] \in {"check_pending", "increment", "fire", "follow_next"} =>
            current[t] \in Linked
       /\ pc[t] \in {"increment", "fire", "follow_next"} => pending[current[t]]
       /\ pc[t] = "fire" => /\ commit_id[current[t]] <= last_commit_id
                            /\ fired[current[t]] = 0
       /\ fired[t] <= 1
       /\ fired[t] > 0 => t \in Linked /\ commit_id[t] <= last_commit_id
       /\ pc[t] = "done" => fired[t] > 0
  /\ \A t, u \in Txn :
       pc[t] = "fire" /\ pc[u] = "fire" /\ current[t] = current[u] => t = u

Inv ==
  /\ TypeOK
  /\ InvariantNotViolated
  /\ ListInv
  /\ PublisherInv
  /\ SearcherInv
  /\ OwnerInv
  /\ VisibilityInv

=============================================================================
