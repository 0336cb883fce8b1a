---------------------------- MODULE CommitOrder ----------------------------
(***************************************************************************)
(* What the concurrency module promises about committing: commit ids are   *)
(* handed out one after the other, the records of a transaction are        *)
(* written before its id becomes globally visible, ids become visible in   *)
(* their order without a gap, and a transaction is told that it committed  *)
(* once its id is visible.  (The MVCC overview of transaction_manager.hpp  *)
(* and the class comment of commit_context.hpp.)                           *)
(*                                                                         *)
(* TransactionManager implements this specification without a lock.        *)
(***************************************************************************)
EXTENDS Naturals

CONSTANTS
  Txn,                \* the transactions that commit
  INITIAL_COMMIT_ID   \* the commit id of the data the database starts with

VARIABLES
  last_commit_id,     \* every transaction up to this id is visible
  newest_id,          \* the last commit id that was handed out
  cid,                \* the commit id of each transaction, NoId before it has one
  ready,              \* the transactions whose records are all written
  committed           \* the transactions that have been told so

orderVars == <<last_commit_id, newest_id, cid, ready, committed>>

NoId == 0

HasId(t) == cid[t] # NoId

Visible(t) == HasId(t) /\ cid[t] <= last_commit_id

Init ==
  /\ last_commit_id = INITIAL_COMMIT_ID
  /\ newest_id = INITIAL_COMMIT_ID
  /\ cid = [t \in Txn |-> NoId]
  /\ ready = {}
  /\ committed = {}

(* A transaction that starts to commit receives the next commit id. *)
AssignId(t) ==
  /\ ~HasId(t)
  /\ newest_id' = newest_id + 1
  /\ cid' = [cid EXCEPT ![t] = newest_id + 1]
  /\ UNCHANGED <<last_commit_id, ready, committed>>

(* It has written the id to all the rows it inserted or deleted. *)
MakeReady(t) ==
  /\ HasId(t)
  /\ t \notin ready
  /\ ready' = ready \cup {t}
  /\ UNCHANGED <<last_commit_id, newest_id, cid, committed>>

(* The next id becomes visible to the transactions that begin from now on. *)
Advance(t) ==
  /\ t \in ready
  /\ cid[t] = last_commit_id + 1
  /\ last_commit_id' = last_commit_id + 1
  /\ UNCHANGED <<newest_id, cid, ready, committed>>

Notify(t) ==
  /\ Visible(t)
  /\ t \notin committed
  /\ committed' = committed \cup {t}
  /\ UNCHANGED <<last_commit_id, newest_id, cid, ready>>

Next == \E t \in Txn : AssignId(t) \/ MakeReady(t) \/ Advance(t) \/ Notify(t)

Spec == Init /\ [][Next]_orderVars

-----------------------------------------------------------------------------

(* Whatever a snapshot taken now can see is completely written: a           *)
(* transaction's id is covered by _last_commit_id only after every record   *)
(* of it carries the id, and it is told so only after that.                 *)
VisibleIsComplete ==
  /\ \A t \in Txn : Visible(t) => t \in ready
  /\ \A t \in committed : Visible(t)

=============================================================================
