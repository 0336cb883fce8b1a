---------------------- MODULE TransactionManagerProofs ----------------------
(***************************************************************************)
(* Proofs about the lock-free commit list, for any set of transactions.    *)
(*                                                                         *)
(* Inv is inductive.  Its core is ListInv and PublisherInv: a thread that  *)
(* links its context behind the last one finds _last_commit_context        *)
(* unchanged when it publishes, because nobody else can link anything      *)
(* until it has.  VisibilityInv adds that the thread which makes an id     *)
(* visible is the only one that fires its callback.                        *)
(***************************************************************************)
EXTENDS TransactionManager, TLAPS

LEMMA InitInv == Init => Inv
<1> SUFFICES ASSUME Init PROVE Inv
  OBVIOUS
<1> USE ContextAssumption, InitialIdsAssumption DEF Init, Context, PreparingPc, LinkedPc
<1>1. TypeOK /\ InvariantNotViolated
  BY DEF TypeOK, InvariantNotViolated, NoId
<1>2. Chain = {Root} /\ Linked = {}
  BY DEF Chain, Linked
<1>3. ListInv /\ PublisherInv /\ SearcherInv
  BY <1>2 DEF ListInv, PublisherInv, SearcherInv, newest_id
<1>4. OwnerInv /\ VisibilityInv
  BY <1>2 DEF OwnerInv, VisibilityInv, newest_id, RecordedPc, CallbackPc, PendingPc
<1> QED
  BY <1>1, <1>3, <1>4 DEF Inv

(* What SetNext needs: a context without a successor that is not newer than *)
(* the published one is the published one.                                  *)
LEMMA EndOfList ==
  ASSUME Inv, NEW c \in Chain,
         next[c] = NoContext, commit_id[c] <= commit_id[last_commit_context]
  PROVE  c = last_commit_context /\ newest_id = commit_id[c]
<1>1. Chain \subseteq Context
  BY DEF Chain, Linked, Context
<1>2. commit_id[c] = newest_id
  BY DEF Inv, ListInv
<1>3. newest_id = commit_id[last_commit_context]
  BY <1>1, <1>2 DEF Inv, TypeOK, ListInv, newest_id
<1> QED
  BY <1>2, <1>3 DEF Inv, ListInv

(* Linking: the new context is the end of the list, and its owner is the    *)
(* only one that has something to publish.                                  *)
LEMMA SetNextStep ==
  ASSUME Inv, NEW t \in Txn, SetNext(t)
  PROVE  Inv'
<1> USE ContextAssumption, InitialIdsAssumption
<1> USE DEF SetNext, Goto, managerVars, txnVars, Context, PreparingPc, LinkedPc
<1>1. /\ current[t] \in Chain
      /\ commit_id[t] = commit_id[current[t]] + 1
      /\ t \notin Linked /\ next[t] = NoContext
  BY DEF Inv, SearcherInv, Linked
<1>2. current[t] = last_commit_context /\ newest_id = commit_id[current[t]]
  BY <1>1, EndOfList DEF Inv, SearcherInv
<1>3. TypeOK' /\ InvariantNotViolated'
  BY <1>2 DEF Inv, TypeOK, InvariantNotViolated
<1>4. Linked' = Linked \cup {t} /\ Chain' = Chain \cup {t}
  BY DEF Inv, TypeOK, Linked, Chain
<1>5. newest_id' = commit_id[t] /\ newest_id' = newest_id + 1
  BY <1>1, <1>2 DEF Inv, TypeOK, newest_id
<1>6. ListInv'
  BY <1>1, <1>2, <1>4, <1>5 DEF Inv, TypeOK, ListInv, Chain, Linked
<1>7. PublisherInv'
  BY <1>1, <1>2 DEF Inv, TypeOK, PublisherInv
<1>8. SearcherInv' /\ OwnerInv'
  BY <1>1, <1>2, <1>4
     DEF Inv, TypeOK, SearcherInv, OwnerInv, Chain, RecordedPc, CallbackPc, PendingPc
<1>9. VisibilityInv'
  BY <1>1, <1>2, <1>4, <1>5 DEF Inv, TypeOK, ListInv, VisibilityInv, Linked
<1> QED
  BY <1>3, <1>6, <1>7, <1>8, <1>9 DEF Inv

(* Publishing: the exchange succeeds because _last_commit_context has not   *)
(* moved since its owner linked the context behind it.                      *)
LEMMA PublishContextStep ==
  ASSUME Inv, NEW t \in Txn, PublishContext(t)
  PROVE  Inv'
<1> USE ContextAssumption, InitialIdsAssumption
<1> USE DEF PublishContext, Goto, contextVars, txnVars, Context, PreparingPc, LinkedPc
<1>1. /\ last_commit_context = current[t]
      /\ next[last_commit_context] = t
  BY DEF Inv, PublisherInv
<1>2. last_commit_context' = t /\ pc' = [pc EXCEPT ![t] = "commit_records"]
  BY <1>1
<1>3. Linked' = Linked /\ Chain' = Chain /\ t \in Linked
  BY <1>2 DEF Inv, TypeOK, Linked, Chain
<1>4. TypeOK' /\ InvariantNotViolated'
  BY <1>2 DEF Inv, TypeOK, InvariantNotViolated
<1>5. commit_id[t] = newest_id
  BY <1>1 DEF Inv, TypeOK, ListInv, newest_id
<1>6. next[t] = NoContext
  BY <1>3, <1>5 DEF Inv, TypeOK, ListInv, Chain, Linked
<1>7. newest_id' = newest_id
  BY <1>2, <1>5, <1>6 DEF newest_id
<1>8. ListInv' /\ PublisherInv'
  BY <1>1, <1>2, <1>3, <1>6, <1>7
     DEF Inv, TypeOK, ListInv, PublisherInv, Chain, Linked
<1>9. SearcherInv' /\ OwnerInv'
  BY <1>1, <1>2, <1>3
     DEF Inv, TypeOK, ListInv, SearcherInv, OwnerInv, Linked, Chain, RecordedPc,
         CallbackPc, PendingPc
<1>10. VisibilityInv'
  BY <1>2, <1>3, <1>7 DEF Inv, TypeOK, VisibilityInv, Linked
<1> QED
  BY <1>4, <1>8, <1>9, <1>10 DEF Inv

(* Making an id visible: the ids up to it were visible before, nobody has   *)
(* fired its callback, and nobody else is about to.                         *)
LEMMA IncrementStep ==
  ASSUME Inv, NEW t \in Txn, IncrementLastCommitId(t)
  PROVE  Inv'
<1> USE ContextAssumption, InitialIdsAssumption
<1> USE DEF IncrementLastCommitId, Goto, contextVars, txnVars, Context, PreparingPc, LinkedPc
<1>1. current[t] \in Linked /\ pending[current[t]]
  BY DEF Inv, VisibilityInv
<1>2. /\ Linked' = Linked /\ Chain' = Chain
      /\ newest_id' = newest_id
      /\ Linked \subseteq Txn
  BY DEF Inv, TypeOK, Linked, Chain, newest_id
<1>3. /\ TypeOK' /\ InvariantNotViolated' /\ ListInv'
      /\ PublisherInv' /\ SearcherInv' /\ OwnerInv'
  <2>1. TypeOK' /\ InvariantNotViolated'
    BY <1>1, <1>2 DEF Inv, TypeOK, InvariantNotViolated
  <2>2. ListInv' /\ PublisherInv' /\ SearcherInv'
    BY <1>2 DEF Inv, TypeOK, ListInv, PublisherInv, SearcherInv
  <2>3. OwnerInv'
    BY DEF Inv, TypeOK, OwnerInv, RecordedPc, CallbackPc, PendingPc
  <2> QED
    BY <2>1, <2>2, <2>3
<1>4. last_commit_id' = last_commit_id + 1 /\ last_commit_id' = commit_id[current[t]]
  BY <1>1, <1>2 DEF Inv, TypeOK
<1>5. last_commit_id' \in INITIAL_COMMIT_ID..newest_id
  BY <1>1, <1>2, <1>4 DEF Inv, TypeOK, ListInv, VisibilityInv, Chain
<1>6. \A u \in Linked : commit_id[u] <= last_commit_id' => pending[u]
  <2> SUFFICES ASSUME NEW u \in Linked, commit_id[u] <= last_commit_id + 1
               PROVE  pending[u]
    BY <1>4
  <2>1. CASE commit_id[u] <= last_commit_id
    BY <2>1 DEF Inv, VisibilityInv
  <2>2. CASE commit_id[u] = last_commit_id + 1
    BY <1>1, <1>4, <2>2 DEF Inv, ListInv, Chain
  <2> QED
    BY <1>2, <2>1, <2>2 DEF Inv, TypeOK
<1>7. fired[current[t]] = 0
  BY <1>1, <1>2, <1>4 DEF Inv, TypeOK, VisibilityInv
<1>8. \A u \in Txn : pc[u] = "fire" => current[u] # current[t]
  BY <1>1, <1>2, <1>4 DEF Inv, TypeOK, VisibilityInv
<1>9. VisibilityInv'
  BY <1>1, <1>2, <1>4, <1>5, <1>6, <1>7, <1>8 DEF Inv, TypeOK, VisibilityInv
<1> QED
  BY <1>3, <1>9 DEF Inv

(* Firing: the one thread at this step for its context runs the callback,   *)
(* which make_pending set before the context became visible to others.      *)
LEMMA FireCallbackStep ==
  ASSUME Inv, NEW t \in Txn, FireCallback(t)
  PROVE  Inv' /\ fired' = [fired EXCEPT ![current[t]] = 1]
<1> USE ContextAssumption, InitialIdsAssumption
<1> USE DEF FireCallback, Goto, managerVars, contextVars, Context, PreparingPc, LinkedPc
<1>1. /\ current[t] \in Linked /\ pending[current[t]]
      /\ fired[current[t]] = 0 /\ commit_id[current[t]] <= last_commit_id
  BY DEF Inv, VisibilityInv
<1>2. callback[current[t]]
  BY <1>1 DEF Inv, OwnerInv, Linked, PendingPc, CallbackPc
<1>3. fired' = [fired EXCEPT ![current[t]] = 1]
  BY <1>1, <1>2 DEF Inv, TypeOK, Linked
<1>4. Linked' = Linked /\ Chain' = Chain /\ newest_id' = newest_id
  BY DEF Inv, TypeOK, Linked, Chain, newest_id
<1>5. /\ TypeOK' /\ InvariantNotViolated' /\ ListInv'
      /\ PublisherInv' /\ SearcherInv' /\ OwnerInv'
  <2>1. TypeOK' /\ InvariantNotViolated'
    BY <1>1, <1>3 DEF Inv, TypeOK, InvariantNotViolated, Linked
  <2>2. ListInv' /\ PublisherInv' /\ SearcherInv'
    BY <1>4 DEF Inv, TypeOK, ListInv, PublisherInv, SearcherInv
  <2>3. OwnerInv'
    BY DEF Inv, TypeOK, OwnerInv, RecordedPc, CallbackPc, PendingPc
  <2> QED
    BY <2>1, <2>2, <2>3
<1>6. VisibilityInv'
  BY <1>1, <1>3, <1>4 DEF Inv, TypeOK, VisibilityInv, Linked
<1> QED
  BY <1>3, <1>5, <1>6 DEF Inv

(* Walking on: the successor of a linked context is linked.                 *)
LEMMA FollowNextStep ==
  ASSUME Inv, NEW t \in Txn, FollowNext(t)
  PROVE  Inv'
<1> USE ContextAssumption, InitialIdsAssumption
<1> USE DEF FollowNext, Goto, managerVars, contextVars, txnVars, Context, PreparingPc, LinkedPc
<1>1. /\ current[t] \in Linked
      /\ next[current[t]] # NoContext => next[current[t]] \in Linked
  BY DEF Inv, TypeOK, ListInv, VisibilityInv, Chain, Linked
<1>2. Linked' = Linked /\ Chain' = Chain /\ newest_id' = newest_id
  BY DEF Inv, TypeOK, Linked, Chain, newest_id
<1>3. TypeOK' /\ InvariantNotViolated'
  BY <1>1 DEF Inv, TypeOK, InvariantNotViolated, Linked
<1>4. ListInv' /\ PublisherInv'
  BY <1>2 DEF Inv, TypeOK, ListInv, PublisherInv
<1>5. SearcherInv' /\ OwnerInv'
  BY <1>2 DEF Inv, TypeOK, SearcherInv, OwnerInv, RecordedPc, CallbackPc, PendingPc
<1>6. VisibilityInv'
  BY <1>1, <1>2 DEF Inv, TypeOK, VisibilityInv
<1> QED
  BY <1>3, <1>4, <1>5, <1>6 DEF Inv

(* The steps that neither link a context nor move the thread that owns it   *)
(* into or out of the list leave the list as it is.                         *)
LEMMA ListKept ==
  ASSUME Inv, Linked' = Linked, UNCHANGED <<last_commit_context, commit_id, next>>
  PROVE  Chain' = Chain /\ newest_id' = newest_id /\ ListInv'
<1>1. Chain' = Chain /\ newest_id' = newest_id
  BY DEF Chain, newest_id
<1> QED
  BY <1>1 DEF Inv, ListInv

(* A new context is not in the list yet, whatever its id.                   *)
LEMMA CreateContextStep ==
  ASSUME Inv, NEW t \in Txn, CreateContext(t)
  PROVE  Inv'
<1> USE ContextAssumption, InitialIdsAssumption
<1> USE DEF CreateContext, Goto, managerVars, txnVars, Context, PreparingPc, LinkedPc
<1>1. t \notin Chain /\ current[t] \in Chain /\ Chain \subseteq Context
  BY DEF Inv, SearcherInv, Chain, Linked
<1>2. Linked' = Linked /\ Chain' = Chain
  BY DEF Inv, TypeOK, Linked, Chain
<1>3. TypeOK' /\ InvariantNotViolated'
  BY <1>1 DEF Inv, TypeOK, InvariantNotViolated
<1>4. \A c \in Chain : commit_id'[c] = commit_id[c] /\ next'[c] = next[c]
  BY <1>1 DEF Inv, TypeOK
<1>5. newest_id' = newest_id
  BY <1>1, <1>4 DEF Inv, TypeOK, ListInv, newest_id, Chain
<1>6. ListInv'
  BY <1>2, <1>4, <1>5 DEF Inv, ListInv, Chain
<1>7. PublisherInv'
  BY <1>1, <1>4 DEF Inv, TypeOK, ListInv, PublisherInv
<1>8. SearcherInv'
  BY <1>1, <1>2, <1>4 DEF Inv, TypeOK, ListInv, SearcherInv, Linked
<1>9. OwnerInv'
  BY DEF Inv, TypeOK, OwnerInv, RecordedPc, CallbackPc, PendingPc
<1>10. VisibilityInv'
  BY <1>1, <1>2, <1>4, <1>5 DEF Inv, TypeOK, VisibilityInv, Chain, Linked
<1> QED
  BY <1>3, <1>6, <1>7, <1>8, <1>9, <1>10 DEF Inv

LEMMA InvStep == Inv /\ [Next]_vars => Inv'
<1> SUFFICES ASSUME Inv, [Next]_vars PROVE Inv'
  OBVIOUS
<1> USE ContextAssumption, InitialIdsAssumption
<1> USE DEF Context, PreparingPc, LinkedPc, Goto, managerVars, contextVars, txnVars
<1>1. ASSUME NEW t \in Txn, NewTransactionContext(t) PROVE Inv'
  <2>1. Linked' = Linked
    BY <1>1 DEF Inv, TypeOK, Linked, NewTransactionContext
  <2>2. Chain' = Chain /\ newest_id' = newest_id /\ ListInv'
    BY <1>1, <2>1, ListKept DEF NewTransactionContext
  <2>3. TypeOK' /\ InvariantNotViolated'
    BY <1>1 DEF Inv, TypeOK, InvariantNotViolated, NewTransactionContext
  <2>4. PublisherInv' /\ SearcherInv'
    BY <1>1, <2>1, <2>2 DEF Inv, TypeOK, ListInv, PublisherInv, SearcherInv, NewTransactionContext
  <2>5. OwnerInv'
    BY <1>1 DEF Inv, TypeOK, OwnerInv, RecordedPc, CallbackPc, PendingPc, NewTransactionContext
  <2>6. VisibilityInv'
    BY <1>1, <2>1, <2>2 DEF Inv, TypeOK, VisibilityInv, Linked, NewTransactionContext
  <2> QED
    BY <2>2, <2>3, <2>4, <2>5, <2>6 DEF Inv
<1>2. ASSUME NEW t \in Txn, LoadLastContext(t) PROVE Inv'
  <2>1. Linked' = Linked
    BY <1>2 DEF Inv, TypeOK, Linked, LoadLastContext
  <2>2. Chain' = Chain /\ newest_id' = newest_id /\ ListInv'
    BY <1>2, <2>1, ListKept DEF LoadLastContext
  <2>3. TypeOK' /\ InvariantNotViolated'
    BY <1>2 DEF Inv, TypeOK, InvariantNotViolated, LoadLastContext
  <2>4. PublisherInv' /\ SearcherInv'
    BY <1>2, <2>1, <2>2 DEF Inv, TypeOK, ListInv, PublisherInv, SearcherInv, LoadLastContext
  <2>5. OwnerInv'
    BY <1>2 DEF Inv, TypeOK, OwnerInv, RecordedPc, CallbackPc, PendingPc, LoadLastContext
  <2>6. VisibilityInv'
    BY <1>2, <2>1, <2>2 DEF Inv, TypeOK, VisibilityInv, Linked, LoadLastContext
  <2> QED
    BY <2>2, <2>3, <2>4, <2>5, <2>6 DEF Inv
<1>3. ASSUME NEW t \in Txn, ReloadLastContext(t) PROVE Inv'
  <2>1. Linked' = Linked
    BY <1>3 DEF Inv, TypeOK, Linked, ReloadLastContext
  <2>2. Chain' = Chain /\ newest_id' = newest_id /\ ListInv'
    BY <1>3, <2>1, ListKept DEF ReloadLastContext
  <2>3. TypeOK' /\ InvariantNotViolated'
    BY <1>3 DEF Inv, TypeOK, InvariantNotViolated, ReloadLastContext
  <2>4. PublisherInv' /\ SearcherInv'
    BY <1>3, <2>1, <2>2 DEF Inv, TypeOK, ListInv, PublisherInv, SearcherInv, ReloadLastContext
  <2>5. OwnerInv'
    BY <1>3 DEF Inv, TypeOK, OwnerInv, RecordedPc, CallbackPc, PendingPc, ReloadLastContext
  <2>6. VisibilityInv'
    BY <1>3, <2>1, <2>2 DEF Inv, TypeOK, VisibilityInv, Linked, ReloadLastContext
  <2> QED
    BY <2>2, <2>3, <2>4, <2>5, <2>6 DEF Inv
<1>4. ASSUME NEW t \in Txn, CreateContext(t) PROVE Inv'
  BY <1>4, CreateContextStep
<1>5. ASSUME NEW t \in Txn, SetNext(t) PROVE Inv'
  BY <1>5, SetNextStep
<1>6. ASSUME NEW t \in Txn, SetNextFails(t) PROVE Inv'
  <2>1. Linked' = Linked
    BY <1>6 DEF Inv, TypeOK, Linked, SetNextFails
  <2>2. Chain' = Chain /\ newest_id' = newest_id /\ ListInv'
    BY <1>6, <2>1, ListKept DEF SetNextFails
  <2>3. TypeOK' /\ InvariantNotViolated'
    BY <1>6 DEF Inv, TypeOK, InvariantNotViolated, SetNextFails
  <2>4. PublisherInv' /\ SearcherInv'
    BY <1>6, <2>1, <2>2 DEF Inv, TypeOK, ListInv, PublisherInv, SearcherInv, SetNextFails
  <2>5. OwnerInv'
    BY <1>6 DEF Inv, TypeOK, OwnerInv, RecordedPc, CallbackPc, PendingPc, SetNextFails
  <2>6. VisibilityInv'
    BY <1>6, <2>1, <2>2 DEF Inv, TypeOK, VisibilityInv, Linked, SetNextFails
  <2> QED
    BY <2>2, <2>3, <2>4, <2>5, <2>6 DEF Inv
<1>7. ASSUME NEW t \in Txn, PublishContext(t) PROVE Inv'
  BY <1>7, PublishContextStep
<1>8. ASSUME NEW t \in Txn, CommitRecords(t) PROVE Inv'
  <2>1. Linked' = Linked
    BY <1>8 DEF Inv, TypeOK, Linked, CommitRecords
  <2>2. Chain' = Chain /\ newest_id' = newest_id /\ ListInv'
    BY <1>8, <2>1, ListKept DEF CommitRecords
  <2>3. TypeOK' /\ InvariantNotViolated'
    BY <1>8 DEF Inv, TypeOK, InvariantNotViolated, CommitRecords
  <2>4. PublisherInv' /\ SearcherInv'
    BY <1>8, <2>1, <2>2 DEF Inv, TypeOK, ListInv, PublisherInv, SearcherInv, CommitRecords
  <2>5. OwnerInv'
    BY <1>8 DEF Inv, TypeOK, OwnerInv, RecordedPc, CallbackPc, PendingPc, CommitRecords
  <2>6. VisibilityInv'
    BY <1>8, <2>1, <2>2 DEF Inv, TypeOK, VisibilityInv, Linked, CommitRecords
  <2> QED
    BY <2>2, <2>3, <2>4, <2>5, <2>6 DEF Inv
<1>9. ASSUME NEW t \in Txn, SetCallback(t) PROVE Inv'
  <2>1. Linked' = Linked
    BY <1>9 DEF Inv, TypeOK, Linked, SetCallback
  <2>2. Chain' = Chain /\ newest_id' = newest_id /\ ListInv'
    BY <1>9, <2>1, ListKept DEF SetCallback
  <2>3. TypeOK' /\ InvariantNotViolated'
    BY <1>9 DEF Inv, TypeOK, InvariantNotViolated, SetCallback
  <2>4. PublisherInv' /\ SearcherInv'
    BY <1>9, <2>1, <2>2 DEF Inv, TypeOK, ListInv, PublisherInv, SearcherInv, SetCallback
  <2>5. OwnerInv'
    BY <1>9 DEF Inv, TypeOK, OwnerInv, RecordedPc, CallbackPc, PendingPc, SetCallback
  <2>6. VisibilityInv'
    BY <1>9, <2>1, <2>2 DEF Inv, TypeOK, VisibilityInv, Linked, SetCallback
  <2> QED
    BY <2>2, <2>3, <2>4, <2>5, <2>6 DEF Inv
<1>10. ASSUME NEW t \in Txn, SetPending(t) PROVE Inv'
  <2>1. Linked' = Linked
    BY <1>10 DEF Inv, TypeOK, Linked, SetPending
  <2>2. Chain' = Chain /\ newest_id' = newest_id /\ ListInv'
    BY <1>10, <2>1, ListKept DEF SetPending
  <2>3. TypeOK' /\ InvariantNotViolated'
    BY <1>10 DEF Inv, TypeOK, InvariantNotViolated, SetPending
  <2>4. PublisherInv' /\ SearcherInv'
    BY <1>10, <2>1, <2>2 DEF Inv, TypeOK, ListInv, PublisherInv, SearcherInv, SetPending
  <2>5. OwnerInv'
    BY <1>10 DEF Inv, TypeOK, OwnerInv, RecordedPc, CallbackPc, PendingPc, SetPending
  <2>6. VisibilityInv'
    BY <1>10, <2>1, <2>2 DEF Inv, TypeOK, VisibilityInv, Linked, SetPending
  <2> QED
    BY <2>2, <2>3, <2>4, <2>5, <2>6 DEF Inv
<1>11. ASSUME NEW t \in Txn, CheckPending(t) PROVE Inv'
  <2>1. Linked' = Linked
    BY <1>11 DEF Inv, TypeOK, Linked, CheckPending
  <2>2. Chain' = Chain /\ newest_id' = newest_id /\ ListInv'
    BY <1>11, <2>1, ListKept DEF CheckPending
  <2>3. TypeOK' /\ InvariantNotViolated'
    BY <1>11 DEF Inv, TypeOK, InvariantNotViolated, CheckPending
  <2>4. PublisherInv' /\ SearcherInv'
    BY <1>11, <2>1, <2>2 DEF Inv, TypeOK, ListInv, PublisherInv, SearcherInv, CheckPending
  <2>5. OwnerInv'
    BY <1>11 DEF Inv, TypeOK, OwnerInv, RecordedPc, CallbackPc, PendingPc, CheckPending
  <2>6. VisibilityInv'
    BY <1>11, <2>1, <2>2 DEF Inv, TypeOK, VisibilityInv, Linked, CheckPending
  <2> QED
    BY <2>2, <2>3, <2>4, <2>5, <2>6 DEF Inv
<1>12. ASSUME NEW t \in Txn, IncrementLastCommitId(t) PROVE Inv'
  BY <1>12, IncrementStep
<1>13. ASSUME NEW t \in Txn, IncrementFails(t) PROVE Inv'
  <2>1. Linked' = Linked
    BY <1>13 DEF Inv, TypeOK, Linked, IncrementFails
  <2>2. Chain' = Chain /\ newest_id' = newest_id /\ ListInv'
    BY <1>13, <2>1, ListKept DEF IncrementFails
  <2>3. TypeOK' /\ InvariantNotViolated'
    BY <1>13 DEF Inv, TypeOK, InvariantNotViolated, IncrementFails
  <2>4. PublisherInv' /\ SearcherInv'
    BY <1>13, <2>1, <2>2 DEF Inv, TypeOK, ListInv, PublisherInv, SearcherInv, IncrementFails
  <2>5. OwnerInv'
    BY <1>13 DEF Inv, TypeOK, OwnerInv, RecordedPc, CallbackPc, PendingPc, IncrementFails
  <2>6. VisibilityInv'
    BY <1>13, <2>1, <2>2 DEF Inv, TypeOK, VisibilityInv, Linked, IncrementFails
  <2> QED
    BY <2>2, <2>3, <2>4, <2>5, <2>6 DEF Inv
<1>14. ASSUME NEW t \in Txn, FireCallback(t) PROVE Inv'
  BY <1>14, FireCallbackStep
<1>15. ASSUME NEW t \in Txn, FollowNext(t) PROVE Inv'
  BY <1>15, FollowNextStep
<1>16. ASSUME NEW t \in Txn, CommitReturns(t) PROVE Inv'
  <2>1. Linked' = Linked
    BY <1>16 DEF Inv, TypeOK, Linked, CommitReturns
  <2>2. Chain' = Chain /\ newest_id' = newest_id /\ ListInv'
    BY <1>16, <2>1, ListKept DEF CommitReturns
  <2>3. TypeOK' /\ InvariantNotViolated'
    BY <1>16 DEF Inv, TypeOK, InvariantNotViolated, CommitReturns
  <2>4. PublisherInv' /\ SearcherInv'
    BY <1>16, <2>1, <2>2 DEF Inv, TypeOK, ListInv, PublisherInv, SearcherInv, CommitReturns
  <2>5. OwnerInv'
    BY <1>16 DEF Inv, TypeOK, OwnerInv, RecordedPc, CallbackPc, PendingPc, CommitReturns
  <2>6. VisibilityInv'
    BY <1>16, <2>1, <2>2 DEF Inv, TypeOK, VisibilityInv, Linked, CommitReturns
  <2> QED
    BY <2>2, <2>3, <2>4, <2>5, <2>6 DEF Inv
<1>17. CASE UNCHANGED vars
  <2>1. Linked' = Linked
    BY <1>17 DEF Linked, vars
  <2>2. Chain' = Chain /\ newest_id' = newest_id /\ ListInv'
    BY <1>17, <2>1, ListKept DEF vars
  <2>3. TypeOK' /\ InvariantNotViolated' /\ OwnerInv'
    BY <1>17 DEF Inv, TypeOK, InvariantNotViolated, OwnerInv, vars
  <2>4. PublisherInv' /\ SearcherInv' /\ VisibilityInv'
    BY <1>17, <2>1, <2>2 DEF Inv, PublisherInv, SearcherInv, VisibilityInv, vars
  <2> QED
    BY <2>2, <2>3, <2>4 DEF Inv
<1> QED
  BY <1>1, <1>2, <1>3, <1>4, <1>5, <1>6, <1>7, <1>8, <1>9, <1>10, <1>11, <1>12,
     <1>13, <1>14, <1>15, <1>16, <1>17 DEF Next, Thread, Finished

(* The invariant holds throughout: in particular the types, the assertion   *)
(* of _new_commit_context and the single firing of every callback.          *)
THEOREM Invariance == Spec => []Inv
<1>1. Init => Inv
  BY InitInv
<1>2. Inv /\ [Next]_vars => Inv'
  BY InvStep
<1> QED
  BY <1>1, <1>2, PTL DEF Spec

(* The shared variables and the threads' locals keep their types; in        *)
(* particular _last_commit_context always points to a context.              *)
THEOREM TypeCorrect == Spec => []TypeOK
<1>1. Inv => TypeOK
  BY DEF Inv
<1> QED
  BY <1>1, Invariance, PTL

(* Assert(success, "Invariant violated.") in _new_commit_context never      *)
(* fails, for any number of committing threads.                             *)
THEOREM AssertionHolds == Spec => []InvariantNotViolated
<1>1. Inv => InvariantNotViolated
  BY DEF Inv
<1> QED
  BY <1>1, Invariance, PTL

(* No callback runs twice, for any number of threads that walk the list.    *)
THEOREM CallbackOnce == Spec => []CallbackFiresOnce
<1>1. Inv => CallbackFiresOnce
  BY DEF Inv, VisibilityInv, CallbackFiresOnce
<1> QED
  BY <1>1, Invariance, PTL

(* A snapshot sees only transactions whose records are all written, and     *)
(* commit() returns only for visible ones: advancing _last_commit_id skips  *)
(* no context that is not pending.                                          *)
THEOREM SnapshotsAreComplete == Spec => []VisibleIsComplete
<1> USE ContextAssumption, InitialIdsAssumption
<1>1. Inv => VisibleIsComplete
  <2> SUFFICES ASSUME Inv PROVE VisibleIsComplete
    OBVIOUS
  <2>1. ASSUME NEW t \in Txn, t \in Linked, commit_id[t] <= last_commit_id PROVE recorded[t]
    BY <2>1 DEF Inv, VisibilityInv, OwnerInv, PendingPc, CallbackPc
  <2>2. ASSUME NEW t \in Txn, fired[t] > 0
        PROVE  t \in Linked /\ commit_id[t] <= last_commit_id /\ commit_id[t] # NoId
    BY <2>2 DEF Inv, TypeOK, VisibilityInv, ListInv, Chain, NoId
  <2> QED
    BY <2>1, <2>2 DEF VisibleIsComplete, Order!VisibleIsComplete, Order!Visible,
      Order!HasId, Order!NoId, NoId
<1> QED
  BY <1>1, Invariance, PTL

(* A transaction created after a commit returned has a snapshot that        *)
(* includes that commit.                                                    *)
THEOREM ReturnedCommitsAreSeen == Spec => ReturnedIsVisible
<1> DEFINE Seen ==
      \A t, u \in Txn :
        pc[t] = "done" /\ pc[u] = "begin" /\ pc'[u] # pc[u]
        => snapshot_commit_id'[u] >= commit_id[t]
<1>1. Inv /\ [Next]_vars => [Seen]_vars
  <2> SUFFICES ASSUME Inv, Next, NEW t \in Txn, NEW u \in Txn,
                      pc[t] = "done", pc[u] = "begin", pc'[u] # pc[u]
               PROVE  snapshot_commit_id'[u] >= commit_id[t]
    OBVIOUS
  <2>1. commit_id[t] <= last_commit_id
    BY DEF Inv, VisibilityInv
  <2>2. PICK v \in Txn : Thread(v)
    BY DEF Next, Finished, vars
  <2>3. v = u
    BY <2>2 DEF Inv, TypeOK, Thread, Goto, NewTransactionContext, LoadLastContext,
      ReloadLastContext, CreateContext, SetNext, SetNextFails, PublishContext,
      CommitRecords, SetCallback, SetPending, CheckPending, IncrementLastCommitId,
      IncrementFails, FireCallback, FollowNext, CommitReturns
  <2>4. NewTransactionContext(u)
    BY <2>2, <2>3 DEF Thread, Goto, LoadLastContext,
      ReloadLastContext, CreateContext, SetNext, SetNextFails, PublishContext,
      CommitRecords, SetCallback, SetPending, CheckPending, IncrementLastCommitId,
      IncrementFails, FireCallback, FollowNext, CommitReturns
  <2>5. snapshot_commit_id'[u] = last_commit_id
    BY <2>4 DEF NewTransactionContext, Inv, TypeOK
  <2> QED
    BY <2>1, <2>5 DEF Inv, TypeOK, Context
<1> QED
  BY <1>1, Invariance, PTL DEF Spec, ReturnedIsVisible

-----------------------------------------------------------------------------
(* Refinement.  cid, ready and committed name the state functions that      *)
(* INSTANCE CommitOrder substitutes.                                        *)

cid == [t \in Txn |-> IF t \in Linked THEN commit_id[t] ELSE NoId]
ready == {t \in Txn : recorded[t]}
committed == {t \in Txn : fired[t] > 0}

(* SetNext hands out the next commit id. *)
LEMMA SetNextAssignsId ==
  ASSUME Inv, NEW t \in Txn, SetNext(t)
  PROVE  Order!AssignId(t)
<1> USE ContextAssumption, InitialIdsAssumption
<1> USE DEF SetNext, Goto, managerVars, txnVars, Context, PreparingPc, LinkedPc
<1>1. /\ current[t] \in Chain
      /\ commit_id[t] = commit_id[current[t]] + 1
      /\ t \notin Linked /\ next[t] = NoContext
  BY DEF Inv, SearcherInv, Linked
<1>2. current[t] = last_commit_context /\ newest_id = commit_id[current[t]]
  BY <1>1, EndOfList DEF Inv, SearcherInv
<1>3. newest_id' = newest_id + 1 /\ commit_id[t] = newest_id + 1
  BY <1>1, <1>2 DEF Inv, TypeOK, newest_id
<1>4. Linked' = Linked \cup {t}
  BY DEF Inv, TypeOK, Linked
<1>5. cid' = [cid EXCEPT ![t] = newest_id + 1]
  BY <1>3, <1>4 DEF cid
<1>6. cid[t] = NoId /\ ready' = ready /\ committed' = committed
  BY <1>1 DEF cid, ready, committed
<1> QED
  BY <1>3, <1>5, <1>6
     DEF Order!AssignId, Order!HasId, Order!NoId, NoId, cid, ready, committed

(* A step that leaves the list, the records, the callbacks and              *)
(* _last_commit_id alone is invisible to CommitOrder.                       *)
LEMMA QuietStep ==
  ASSUME Linked' = Linked, \A t \in Linked : commit_id'[t] = commit_id[t],
         newest_id' = newest_id,
         UNCHANGED <<last_commit_id, recorded, fired>>
  PROVE  UNCHANGED Order!orderVars
<1>1. cid' = cid /\ ready' = ready /\ committed' = committed
  BY DEF cid, ready, committed
<1> QED
  BY <1>1 DEF Order!orderVars, cid, ready, committed

(* The lock-free list implements CommitOrder, for every set of              *)
(* transactions.                                                            *)
THEOREM Refinement == Spec => ImplementsCommitOrder
<1> USE ContextAssumption, InitialIdsAssumption
<1>1. Init => Order!Init
  <2> SUFFICES ASSUME Init PROVE Order!Init
    OBVIOUS
  <2>1. Linked = {}
    BY DEF Init, Linked, LinkedPc
  <2>2. cid = [t \in Txn |-> NoId] /\ ready = {} /\ committed = {}
    BY <2>1 DEF Init, cid, ready, committed
  <2>3. newest_id = INITIAL_COMMIT_ID
    BY DEF Init, newest_id, Context
  <2> QED
    BY <2>2, <2>3 DEF Init, Order!Init, Order!NoId, NoId, cid, ready, committed
<1>2. Inv /\ [Next]_vars => [Order!Next]_(Order!orderVars)
  <2> SUFFICES ASSUME Inv, [Next]_vars PROVE [Order!Next]_(Order!orderVars)
    OBVIOUS
  <2> USE DEF Goto, managerVars, contextVars, txnVars, Context, PreparingPc, LinkedPc
  <2>1. ASSUME NEW t \in Txn, SetNext(t) PROVE Order!Next
    BY <2>1, SetNextAssignsId DEF Order!Next
  <2>2. ASSUME NEW t \in Txn, CommitRecords(t) PROVE Order!Next
    <3> USE <2>2 DEF CommitRecords
    <3>1. t \in Linked /\ Linked' = Linked /\ newest_id' = newest_id
      BY DEF Inv, TypeOK, Linked, newest_id
    <3>2. cid[t] # NoId
      BY <3>1 DEF Inv, TypeOK, ListInv, Chain, cid, NoId
    <3>3. t \notin ready /\ ready' = ready \cup {t}
      BY DEF Inv, TypeOK, OwnerInv, RecordedPc, ready
    <3>4. cid' = cid /\ committed' = committed
      BY <3>1 DEF cid, committed
    <3>5. Order!MakeReady(t)
      BY <3>1, <3>2, <3>3, <3>4
         DEF Order!MakeReady, Order!HasId, Order!NoId, NoId, cid, ready, committed
    <3> QED
      BY <3>5 DEF Order!Next
  <2>3. ASSUME NEW t \in Txn, IncrementLastCommitId(t) PROVE Order!Next
    <3> USE <2>3 DEF IncrementLastCommitId
    <3>1. PICK u \in Linked : u = current[t] /\ pending[u] /\ u \in Txn
      BY DEF Inv, VisibilityInv, Linked
    <3>2. u \in ready
      BY <3>1 DEF Inv, OwnerInv, PendingPc, CallbackPc, RecordedPc, ready
    <3>3. cid[u] = last_commit_id + 1 /\ last_commit_id' = last_commit_id + 1
      BY <3>1 DEF Inv, TypeOK, cid
    <3>4. cid' = cid /\ ready' = ready /\ committed' = committed /\ newest_id' = newest_id
      BY DEF Inv, TypeOK, Linked, newest_id, cid, ready, committed
    <3>5. Order!Advance(u)
      BY <3>2, <3>3, <3>4 DEF Order!Advance, cid, ready, committed
    <3> QED
      BY <3>1, <3>5 DEF Order!Next
  <2>4. ASSUME NEW t \in Txn, FireCallback(t) PROVE Order!Next
    <3> USE <2>4 DEF FireCallback
    <3>1. PICK u \in Linked : u = current[t] /\ u \in Txn /\ fired[u] = 0
                               /\ commit_id[u] <= last_commit_id
      BY DEF Inv, VisibilityInv, Linked
    <3>2. fired' = [fired EXCEPT ![u] = 1]
      BY <3>1, FireCallbackStep
    <3>3. u \notin committed /\ committed' = committed \cup {u}
      BY <3>1, <3>2 DEF Inv, TypeOK, committed
    <3>4. cid[u] # NoId /\ cid[u] <= last_commit_id
      BY <3>1 DEF Inv, TypeOK, ListInv, Chain, cid, NoId
    <3>5. cid' = cid /\ ready' = ready /\ newest_id' = newest_id
      BY DEF Inv, TypeOK, Linked, newest_id, cid, ready
    <3>6. Order!Notify(u)
      BY <3>3, <3>4, <3>5
         DEF Order!Notify, Order!Visible, Order!HasId, Order!NoId, NoId, cid, ready, committed
    <3> QED
      BY <3>1, <3>6 DEF Order!Next
  <2>5. ASSUME NEW t \in Txn, PublishContext(t) PROVE UNCHANGED Order!orderVars
    <3> USE <2>5 DEF PublishContext
    <3>1. last_commit_context' = t /\ next[last_commit_context] = t /\ Linked' = Linked /\ t \in Linked
      BY DEF Inv, TypeOK, PublisherInv, Linked
    <3>2. newest_id' = newest_id
      BY <3>1 DEF Inv, TypeOK, ListInv, newest_id, Chain
    <3> QED
      BY <3>1, <3>2, QuietStep
  <2>6. ASSUME NEW t \in Txn, CreateContext(t) PROVE UNCHANGED Order!orderVars
    <3> USE <2>6 DEF CreateContext
    <3>1. t \notin Linked /\ Linked' = Linked /\ Linked \subseteq Txn
      BY DEF Inv, TypeOK, Linked
    <3>2. last_commit_context # t
      BY <3>1 DEF Inv, ListInv, Chain
    <3>3. newest_id' = newest_id
      BY <3>2 DEF Inv, TypeOK, newest_id
    <3>4. \A u \in Linked : commit_id'[u] = commit_id[u]
      BY <3>1 DEF Inv, TypeOK
    <3> QED
      BY <3>1, <3>3, <3>4, QuietStep
  <2>7. ASSUME NEW t \in Txn,
               \/ NewTransactionContext(t) \/ LoadLastContext(t) \/ ReloadLastContext(t)
               \/ SetNextFails(t) \/ SetCallback(t) \/ SetPending(t) \/ CheckPending(t)
               \/ IncrementFails(t) \/ FollowNext(t) \/ CommitReturns(t)
        PROVE  UNCHANGED Order!orderVars
    <3>1. Linked' = Linked
      BY <2>7 DEF Inv, TypeOK, Linked, NewTransactionContext, LoadLastContext,
        ReloadLastContext, SetNextFails, SetCallback, SetPending, CheckPending,
        IncrementFails, FollowNext, CommitReturns
    <3>2. UNCHANGED <<commit_id, next, last_commit_context, last_commit_id, recorded, fired>>
      BY <2>7 DEF NewTransactionContext, LoadLastContext, ReloadLastContext,
        SetNextFails, SetCallback, SetPending, CheckPending, IncrementFails,
        FollowNext, CommitReturns
    <3> QED
      BY <3>1, <3>2, QuietStep DEF newest_id
  <2>8. CASE UNCHANGED vars
    BY <2>8, QuietStep DEF vars, Linked, newest_id
  <2> QED
    BY <2>1, <2>2, <2>3, <2>4, <2>5, <2>6, <2>7, <2>8 DEF Next, Thread, Finished
<1> QED
  BY <1>1, <1>2, Invariance, PTL DEF Spec, ImplementsCommitOrder, Order!Spec

=============================================================================
