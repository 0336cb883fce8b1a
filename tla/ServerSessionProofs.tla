------------------------ MODULE ServerSessionProofs ------------------------
(***************************************************************************)
(* Proofs about the sessions of the server, for any clients, rows, names   *)
(* and scripts and any number of messages.                                 *)
(*                                                                         *)
(* The properties of the answers are not inductive: what a session has     *)
(* committed, reported and locked has to be known at every place of the    *)
(* state machine between two answers.  SessionAt says so for each place,   *)
(* DataInv for the transactions of all sessions; a step of one session     *)
(* changes only the stale rows of the others, which SessionAt leaves out.  *)
(***************************************************************************)
EXTENDS ServerSession, TLAPS

Phase == {"None", "Active", "RolledBack"}
Label == {"Startup", "Idle", "Load", "Translate", "Execute", "Commit", "RunPortal",
          "Answer", "Ended"}
Reply == {"none", "error", "loaded", "result", "parsed", "bound", "complete", "synced"}

Transaction == [phase : Phase, writes : SUBSET Row, stale : SUBSET Row]

TypeInv ==
  /\ lock \in [Row -> Owner \cup {Free}]
  /\ txn \in [Owner -> Transaction]
  /\ pc \in [Session -> Label]
  /\ script \in [Session -> [text : Seq(Statement), at : Nat \ {0}]]
  /\ reply \in [Session -> Reply]
  /\ owed \in [Session -> SUBSET Row]
  /\ durable \in [Session -> SUBSET Row]

\* Only an active transaction has written or misses anything.
IdleIsEmpty ==
  \A o \in Owner : txn[o].phase # "Active" => txn[o].writes = {} /\ txn[o].stale = {}

DataInv == LockedByActive /\ NoLostUpdate /\ IdleIsEmpty

\* A simple query has committed the statements before the current one, whose
\* transaction is there from its translation to its commit.
InScript(s) ==
  /\ script[s].at <= Len(script[s].text)
  /\ durable[s] = RowsUpTo(s, script[s].at - 1)
  /\ CASE pc[s] = "Translate" -> txn[Single(s)].phase = "None"
       [] pc[s] = "Execute" -> txn[Single(s)].phase = "Active" /\ txn[Single(s)].writes = {}
       [] pc[s] = "Commit" ->
            /\ txn[Single(s)].phase # "None"
            /\ txn[Single(s)].phase = "Active" =>
                 txn[Single(s)].writes = {CurrentStatement(s)} \cap Row

\* Outside of a simple query nothing is committed, but for the answer to Sync.
OutsideScript(s) ==
  /\ txn[Single(s)].phase = "None"
  /\ pc[s] # "Answer" => script[s] = NoScript /\ durable[s] = {}
  /\ reply[s] = "error" =>
       durable[s] = RowsUpTo(s, script[s].at - 1) /\ txn[Batched(s)].phase = "None"
  /\ reply[s] = "result" => durable[s] = RowsUpTo(s, Len(script[s].text))

\* The rows reported to the client are those written in the transaction of the
\* session, or just committed for Sync.
OwedAt(s) ==
  IF reply[s] = "synced"
  THEN txn[Batched(s)].phase = "None" /\ durable[s] = owed[s]
  ELSE txn[Batched(s)].phase # "RolledBack" => owed[s] = txn[Batched(s)].writes

SessionAt(s) ==
  /\ pc[s] # "Answer" => reply[s] = "none"
  /\ IF pc[s] \in {"Translate", "Execute", "Commit"} THEN InScript(s) ELSE OutsideScript(s)
  /\ OwedAt(s)

Inv == TypeInv /\ DataInv /\ \A s \in Session : SessionAt(s)

-----------------------------------------------------------------------------
(* The transactions.                                                       *)

Mine(s) == {Batched(s), Single(s)}

\* The transactions of two sessions, and the two of a session, are different.
LEMMA Owners ==
  ASSUME NEW s \in Session
  PROVE  /\ Batched(s) \in Owner /\ Single(s) \in Owner /\ Batched(s) # Single(s)
         /\ \A u \in Session : u # s => Batched(u) \notin Mine(s) /\ Single(u) \notin Mine(s)
BY Zenon DEF Owner, Batched, Single, Mine

\* No transaction is the mark of a row that is not locked.
LEMMA FreeIsNobody == Free \notin Owner
BY DEF Free, Owner

\* A step on the transactions of session s: it keeps what holds for all of them,
\* and changes at most the stale rows of the other sessions.
DataStep(s) ==
  /\ lock' \in [Row -> Owner \cup {Free}]
  /\ txn' \in [Owner -> Transaction]
  /\ DataInv'
  /\ \A p \in Owner \ Mine(s) : txn'[p].phase = txn[p].phase /\ txn'[p].writes = txn[p].writes

\* The context of a transaction is created.
LEMMA NewTransactionStep ==
  ASSUME TypeInv, DataInv, NEW s \in Session, NEW o \in Mine(s),
         txn[o].phase # "Active", lock' = lock, txn' = NewTransaction(o)
  PROVE  /\ DataStep(s)
         /\ txn'[o].phase = "Active" /\ txn'[o].writes = {}
         /\ \A p \in Owner \ {o} : txn'[p] = txn[p]
<1>1. o \in Owner
  BY Owners, Zenon DEF Mine
<1>2. txn' = [txn EXCEPT ![o] = [phase |-> "Active", writes |-> {}, stale |-> {}]]
  <2>1. [NoTxn EXCEPT !.phase = "Active"] = [phase |-> "Active", writes |-> {}, stale |-> {}]
    BY DEF NoTxn
  <2> QED BY <2>1, Zenon DEF NewTransaction
<1>3. txn' \in [Owner -> Transaction] /\ lock' \in [Row -> Owner \cup {Free}]
  BY <1>1, <1>2 DEF TypeInv, Transaction, Phase
<1>4. /\ txn'[o].phase = "Active" /\ txn'[o].writes = {} /\ txn'[o].stale = {}
      /\ \A p \in Owner \ {o} : txn'[p] = txn[p]
  BY <1>1, <1>2 DEF TypeInv
<1>5. LockedByActive'
  BY <1>1, <1>4 DEF DataInv, LockedByActive, IdleIsEmpty
<1>6. NoLostUpdate' /\ IdleIsEmpty'
  BY <1>1, <1>4, Zenon DEF DataInv, NoLostUpdate, IdleIsEmpty
<1> QED BY <1>1, <1>3, <1>4, <1>5, <1>6, Zenon DEF DataStep, DataInv, Mine

\* A transaction ends without a commit, unlocking its rows; it has no rows left.
LEMMA EndStep ==
  ASSUME TypeInv, DataInv, NEW s \in Session, NEW o \in Mine(s),
         NEW phase \in {"None", "RolledBack"},
         lock' = Unlocked(o),
         txn' = [txn EXCEPT ![o] = [phase |-> phase, writes |-> {}, stale |-> {}]]
  PROVE  /\ DataStep(s)
         /\ txn'[o].phase = phase /\ txn'[o].writes = {}
         /\ \A p \in Owner \ {o} : txn'[p] = txn[p]
<1>1. o \in Owner
  BY Owners, Zenon DEF Mine
<1>3. txn' \in [Owner -> Transaction] /\ lock' \in [Row -> Owner \cup {Free}]
  BY <1>1, Zenon DEF TypeInv, Transaction, Phase, Unlocked
<1>4. /\ txn'[o].phase = phase /\ txn'[o].writes = {} /\ txn'[o].stale = {}
      /\ \A p \in Owner \ {o} : txn'[p] = txn[p]
  BY <1>1, Zenon DEF TypeInv
<1>5. LockedByActive'
  <2>1. \A r \in Row : lock'[r] = IF lock[r] = o THEN Free ELSE lock[r]
    BY Zenon DEF Unlocked
  <2>2. \A r \in Row : lock'[r] # o
    BY <1>1, <2>1, FreeIsNobody, Zenon
  <2>3. \A r \in Row, p \in Owner \ {o} : lock'[r] = p <=> lock[r] = p
    BY <1>1, <2>1, FreeIsNobody, Zenon
  <2> QED BY <1>1, <1>4, <2>2, <2>3 DEF DataInv, LockedByActive
<1>6. NoLostUpdate' /\ IdleIsEmpty'
  BY <1>1, <1>4, Zenon DEF DataInv, NoLostUpdate, IdleIsEmpty
<1> QED BY <1>1, <1>3, <1>4, <1>5, <1>6, Zenon DEF DataStep, DataInv, Mine

\* An UPDATE locks and writes its row, or its transaction is rolled back.
LEMMA UpdateStep ==
  ASSUME TypeInv, DataInv, NEW s \in Session, NEW o \in Mine(s), NEW r \in Row,
         txn[o].phase = "Active", UpdateRow(o, r)
  PROVE  /\ DataStep(s)
         /\ \/ txn'[o].phase = "RolledBack" /\ txn'[o].writes = {}
            \/ txn'[o].phase = "Active" /\ txn'[o].writes = txn[o].writes \cup {r}
         /\ \A p \in Owner \ {o} : txn'[p] = txn[p]
<1>1. o \in Owner
  BY Owners, Zenon DEF Mine
<1>2. CASE Conflicts(o, r)
  <2>1. /\ lock' = Unlocked(o)
        /\ txn' = [txn EXCEPT ![o] = [phase |-> "RolledBack", writes |-> {}, stale |-> {}]]
    BY <1>2, Zenon DEF UpdateRow, NoTxn
  <2> QED BY <2>1, EndStep, Zenon
<1>3. CASE ~Conflicts(o, r)
  <2>1. /\ lock' = [lock EXCEPT ![r] = o]
        /\ txn' = [txn EXCEPT ![o].writes = @ \cup {r}]
    BY <1>3, Zenon DEF UpdateRow
  <2>2. lock[r] \in {Free, o} /\ r \notin txn[o].stale
    BY <1>3, Zenon DEF Conflicts
  <2>3. txn' \in [Owner -> Transaction] /\ lock' \in [Row -> Owner \cup {Free}]
    <3>1. [txn[o] EXCEPT !.writes = @ \cup {r}] \in Transaction
      BY <1>1 DEF TypeInv, Transaction
    <3> QED BY <1>1, <2>1, <3>1, Zenon DEF TypeInv
  <2>4. /\ txn'[o].phase = "Active" /\ txn'[o].writes = txn[o].writes \cup {r}
        /\ txn'[o].stale = txn[o].stale
        /\ \A p \in Owner \ {o} : txn'[p] = txn[p]
    BY <1>1, <2>1 DEF TypeInv, Transaction
  <2>5. lock'[r] = o /\ \A q \in Row \ {r} : lock'[q] = lock[q]
    BY <2>1, Zenon DEF TypeInv
  <2>6. LockedByActive'
    <3>1. \A q \in Row : lock'[q] = o <=> txn'[o].phase = "Active" /\ q \in txn'[o].writes
      BY <1>1, <2>4, <2>5 DEF DataInv, LockedByActive
    <3>2. \A p \in Owner \ {o} : \A q \in Row :
            lock'[q] = p <=> txn'[p].phase = "Active" /\ q \in txn'[p].writes
      BY <2>2, <2>4, <2>5, FreeIsNobody DEF DataInv, LockedByActive
    <3> QED BY <3>1, <3>2, Zenon DEF LockedByActive
  <2>7. NoLostUpdate' /\ IdleIsEmpty'
    BY <1>1, <2>2, <2>4 DEF DataInv, NoLostUpdate, IdleIsEmpty
  <2> QED BY <1>1, <2>3, <2>4, <2>6, <2>7, Zenon DEF DataStep, DataInv, Mine
<1> QED BY <1>2, <1>3, Zenon

\* A commit makes the rows durable, and stale for every active transaction.
LEMMA CommitStep ==
  ASSUME TypeInv, DataInv, NEW s \in Session, NEW o \in Mine(s),
         txn[o].phase = "Active", CommitOf(s, o)
  PROVE  /\ DataStep(s)
         /\ txn'[o].phase = "None"
         /\ \A p \in Owner \ {o} : txn'[p].phase = txn[p].phase /\ txn'[p].writes = txn[p].writes
         /\ durable' = [durable EXCEPT ![s] = @ \cup txn[o].writes]
<1>1. o \in Owner
  BY Owners, Zenon DEF Mine
<1>2. /\ txn'[o].phase = "None" /\ txn'[o].writes = {} /\ txn'[o].stale = {}
      /\ \A p \in Owner \ {o} :
           /\ txn'[p].phase = txn[p].phase /\ txn'[p].writes = txn[p].writes
           /\ txn'[p].stale = IF txn[p].phase = "Active" THEN txn[p].stale \cup txn[o].writes
                              ELSE txn[p].stale
  BY <1>1 DEF CommitOf, NoTxn, TypeInv, Transaction
<1>3. txn' \in [Owner -> Transaction] /\ lock' \in [Row -> Owner \cup {Free}]
  BY <1>1 DEF CommitOf, NoTxn, TypeInv, Transaction, Phase, Unlocked
<1>4. LockedByActive'
  <2>1. \A r \in Row : lock'[r] = IF lock[r] = o THEN Free ELSE lock[r]
    BY Zenon DEF CommitOf, Unlocked
  <2>2. \A r \in Row : lock'[r] # o
    BY <1>1, <2>1, FreeIsNobody, Zenon
  <2>3. \A r \in Row, p \in Owner \ {o} : lock'[r] = p <=> lock[r] = p
    BY <1>1, <2>1, FreeIsNobody, Zenon
  <2>4. \A r \in Row : lock'[r] = o <=> txn'[o].phase = "Active" /\ r \in txn'[o].writes
    BY <1>2, <2>2, Zenon
  <2>5. \A r \in Row, p \in Owner \ {o} :
          lock'[r] = p <=> txn'[p].phase = "Active" /\ r \in txn'[p].writes
    <3>1. \A p \in Owner \ {o} : txn'[p].phase = txn[p].phase /\ txn'[p].writes = txn[p].writes
      BY <1>2, Zenon
    <3> QED BY <2>3, <3>1 DEF DataInv, LockedByActive
  <2> QED BY <2>4, <2>5, Zenon DEF LockedByActive
<1>5. NoLostUpdate'
  <2> SUFFICES ASSUME NEW p \in Owner \ {o}, txn[p].phase = "Active"
               PROVE  txn[p].writes \cap (txn[p].stale \cup txn[o].writes) = {}
    BY <1>1, <1>2, Zenon DEF NoLostUpdate
  <2>1. txn[p].writes \subseteq Row
    BY Zenon DEF TypeInv, Transaction
  <2>2. \A r \in Row : ~(r \in txn[p].writes /\ r \in txn[o].writes)
    BY <1>1 DEF DataInv, LockedByActive
  <2> QED BY <2>1, <2>2, Zenon DEF DataInv, NoLostUpdate
<1>6. IdleIsEmpty'
  BY <1>1, <1>2, Zenon DEF DataInv, IdleIsEmpty
<1> QED BY <1>1, <1>2, <1>3, <1>4, <1>5, <1>6, Zenon DEF DataStep, DataInv, Mine, CommitOf

\* Nothing happens to the transactions.
LEMMA NoDataStep ==
  ASSUME TypeInv, DataInv, NEW s \in Session, UNCHANGED <<lock, txn>>
  PROVE  DataStep(s)
BY Zenon DEF DataStep, TypeInv, DataInv, LockedByActive, NoLostUpdate, IdleIsEmpty

-----------------------------------------------------------------------------
(* The sessions.                                                           *)

\* What a step of session s leaves alone in the other sessions.
OnlySession(s) ==
  \A u \in Session \ {s} :
    /\ pc'[u] = pc[u] /\ script'[u] = script[u] /\ reply'[u] = reply[u]
    /\ owed'[u] = owed[u] /\ durable'[u] = durable[u]

\* The types of a session's own variables.
SessionTypes ==
  /\ pc' \in [Session -> Label]
  /\ script' \in [Session -> [text : Seq(Statement), at : Nat \ {0}]]
  /\ reply' \in [Session -> Reply]
  /\ owed' \in [Session -> SUBSET Row]
  /\ durable' \in [Session -> SUBSET Row]

\* A step of one session keeps what holds of the others.
LEMMA OthersStay ==
  ASSUME Inv, NEW s \in Session, DataStep(s), OnlySession(s)
  PROVE  \A u \in Session \ {s} : SessionAt(u)'
<1> SUFFICES ASSUME NEW u \in Session \ {s} PROVE SessionAt(u)'
  BY Zenon
<1>1. SessionAt(u)
  BY Zenon DEF Inv
<1>2. /\ txn'[Batched(u)].phase = txn[Batched(u)].phase
      /\ txn'[Batched(u)].writes = txn[Batched(u)].writes
      /\ txn'[Single(u)].phase = txn[Single(u)].phase
      /\ txn'[Single(u)].writes = txn[Single(u)].writes
  BY Owners, Zenon DEF DataStep
<1>3. /\ pc'[u] = pc[u] /\ script'[u] = script[u] /\ reply'[u] = reply[u]
      /\ owed'[u] = owed[u] /\ durable'[u] = durable[u]
  BY Zenon DEF OnlySession
<1>4. \A i : RowsUpTo(u, i)' = RowsUpTo(u, i)
  BY <1>3, Zenon DEF RowsUpTo
<1>5. InScript(u)' <=> InScript(u)
  BY <1>2, <1>3, <1>4, Zenon DEF InScript, CurrentStatement
<1>6. OutsideScript(u)' <=> OutsideScript(u)
  BY <1>2, <1>3, <1>4, Zenon DEF OutsideScript
<1>7. OwedAt(u)' <=> OwedAt(u)
  BY <1>2, <1>3, Zenon DEF OwedAt
<1> QED BY <1>1, <1>3, <1>5, <1>6, <1>7, Zenon DEF SessionAt

\* A step of session s keeps the invariant if it keeps it for its own session.
LEMMA SessionStep ==
  ASSUME Inv, NEW s \in Session, DataStep(s), OnlySession(s), SessionTypes, SessionAt(s)'
  PROVE  Inv'
BY OthersStay, Zenon DEF Inv, DataStep, SessionTypes, TypeInv

\* At the start of a script, and outside of one, no row belongs to it.
LEMMA NoRowsYet ==
  ASSUME NEW s \in Session
  PROVE  RowsUpTo(s, 1 - 1) = {} /\ RowsUpTo(s, 1 - 1)' = {}
<1>1. 1..(1 - 1) = {}
  OBVIOUS
<1> QED BY <1>1, Zenon DEF RowsUpTo

\* A handler has thrown before the session has run anything of its message, or
\* in the middle of a script: the transaction of the session is rolled back.
LEMMA ThrowKeeps ==
  ASSUME Inv, NEW s \in Session, pc[s] \in {"Idle", "Load", "Translate"},
         pc' = [pc EXCEPT ![s] = "Answer"], Throw(s), UNCHANGED <<durable, script>>
  PROVE  Inv'
<1>1. TypeInv /\ DataInv /\ SessionAt(s)
  BY Zenon DEF Inv
<1>2. /\ lock' = Unlocked(Batched(s))
      /\ txn' = [txn EXCEPT ![Batched(s)] = [phase |-> "None", writes |-> {}, stale |-> {}]]
      /\ owed' = [owed EXCEPT ![s] = {}] /\ reply' = [reply EXCEPT ![s] = "error"]
  BY Zenon DEF Throw, Answers, AbortBatched, NoTxn
<1>3. /\ DataStep(s) /\ txn'[Batched(s)].phase = "None" /\ txn'[Batched(s)].writes = {}
      /\ txn'[Single(s)] = txn[Single(s)]
  BY <1>1, <1>2, EndStep, Owners, Zenon DEF Mine
<1>4. pc'[s] = "Answer" /\ owed'[s] = {} /\ reply'[s] = "error"
  BY <1>1, <1>2, Zenon DEF TypeInv
<1>5. OnlySession(s) /\ SessionTypes
  BY <1>1, <1>2, Zenon DEF OnlySession, SessionTypes, TypeInv, Label, Reply
<1>6. txn[Single(s)].phase = "None" /\ durable[s] = RowsUpTo(s, script[s].at - 1)
  <2>1. CASE pc[s] = "Translate"
    BY <1>1, <2>1, Zenon DEF SessionAt, InScript
  <2>2. CASE pc[s] # "Translate"
    <3>1. txn[Single(s)].phase = "None" /\ script[s] = NoScript /\ durable[s] = {}
      BY <1>1, <2>2, Zenon DEF SessionAt, OutsideScript
    <3>2. script[s].at = 1
      BY <3>1 DEF NoScript
    <3> QED BY <3>1, <3>2, NoRowsYet, Zenon
  <2> QED BY <2>1, <2>2, Zenon
<1>7. SessionAt(s)'
  <2>1. RowsUpTo(s, script[s].at - 1)' = RowsUpTo(s, script[s].at - 1)
    BY Zenon DEF RowsUpTo
  <2>2. OutsideScript(s)'
    BY <1>3, <1>4, <1>6, <2>1, Zenon DEF OutsideScript
  <2>3. OwedAt(s)'
    BY <1>3, <1>4, Zenon DEF OwedAt
  <2> QED BY <1>4, <2>2, <2>3, Zenon DEF SessionAt
<1> QED BY <1>3, <1>5, <1>7, SessionStep, Zenon

\* A message that changes no data is answered.
LEMMA AnswerKeeps ==
  ASSUME Inv, NEW s \in Session, pc[s] \in {"Idle", "Load"},
         NEW what \in {"loaded", "parsed", "bound"}, Answers(s, what),
         pc' = [pc EXCEPT ![s] = "Answer"], UNCHANGED <<lock, txn, owed, durable, script>>
  PROVE  Inv'
<1>1. TypeInv /\ DataInv /\ SessionAt(s)
  BY Zenon DEF Inv
<1>2. DataStep(s)
  BY <1>1, NoDataStep, Zenon
<1>3. pc'[s] = "Answer" /\ reply'[s] = what
  BY <1>1, Zenon DEF TypeInv, Answers
<1>4. OnlySession(s) /\ SessionTypes
  BY <1>1, Zenon DEF OnlySession, SessionTypes, TypeInv, Label, Reply, Answers
<1>5. SessionAt(s)'
  BY <1>1, <1>3, Zenon DEF SessionAt, OutsideScript, OwedAt
<1> QED BY <1>2, <1>4, <1>5, SessionStep, Zenon

\* The session goes on without having done anything.
LEMMA GotoKeeps ==
  ASSUME Inv, NEW s \in Session, pc[s] \in {"Startup", "Idle"},
         NEW to \in {"Idle", "Load", "Ended"},
         pc' = [pc EXCEPT ![s] = to], UNCHANGED <<lock, txn, owed, durable, script, reply>>
  PROVE  Inv'
<1>1. TypeInv /\ DataInv /\ SessionAt(s)
  BY Zenon DEF Inv
<1>2. DataStep(s)
  BY <1>1, NoDataStep, Zenon
<1>3. pc'[s] = to
  BY <1>1, Zenon DEF TypeInv
<1>4. OnlySession(s) /\ SessionTypes
  BY <1>1, Zenon DEF OnlySession, SessionTypes, TypeInv, Label
<1>5. SessionAt(s)'
  BY <1>1, <1>3, Zenon DEF SessionAt, OutsideScript, OwedAt
<1> QED BY <1>2, <1>4, <1>5, SessionStep, Zenon

-----------------------------------------------------------------------------
(* Simple queries.                                                         *)

LEMMA SimpleQueryKeeps ==
  ASSUME Inv, NEW s \in Session, NEW text \in Scripts, SimpleQuery(s, text)
  PROVE  Inv'
<1>1. TypeInv /\ DataInv /\ SessionAt(s)
  BY Zenon DEF Inv
<1>2. /\ pc[s] = "Idle" /\ pc' = [pc EXCEPT ![s] = "Translate"]
      /\ script' = [script EXCEPT ![s] = [text |-> text, at |-> 1]]
      /\ UNCHANGED <<lock, txn, durable, reply, owed>>
  BY Zenon DEF SimpleQuery, Receive, Goto, dataVars
<1>3. DataStep(s)
  BY <1>1, <1>2, NoDataStep, Zenon
<1>4. text \in Seq(Statement) /\ 1 <= Len(text)
  BY ServerSessionAssumption
<1>5. pc'[s] = "Translate" /\ script'[s].text = text /\ script'[s].at = 1
  BY <1>1, <1>2, Zenon DEF TypeInv
<1>6. OnlySession(s) /\ SessionTypes
  BY <1>1, <1>2, <1>4 DEF OnlySession, SessionTypes, TypeInv, Label
<1>7. InScript(s)'
  <2>1. durable[s] = {} /\ txn[Single(s)].phase = "None"
    BY <1>1, <1>2, Zenon DEF SessionAt, OutsideScript
  <2>2. RowsUpTo(s, script[s].at - 1)' = {}
    BY <1>5, NoRowsYet, Zenon
  <2> QED BY <1>2, <1>4, <1>5, <2>1, <2>2, Zenon DEF InScript
<1>8. SessionAt(s)'
  BY <1>1, <1>2, <1>5, <1>7, Zenon DEF SessionAt, OwedAt
<1> QED BY <1>3, <1>6, <1>8, SessionStep, Zenon

LEMMA TranslateKeeps ==
  ASSUME Inv, NEW s \in Session, Translate(s)
  PROVE  Inv'
<1>1. TypeInv /\ DataInv /\ SessionAt(s)
  BY Zenon DEF Inv
<1>2. CASE Translatable(CurrentStatement(s))
  <2>1. /\ pc[s] = "Translate" /\ pc' = [pc EXCEPT ![s] = "Execute"]
        /\ txn' = NewTransaction(Single(s)) /\ UNCHANGED <<lock, durable, script, reply, owed>>
    BY <1>2, Zenon DEF Translate
  <2>2. InScript(s) /\ txn[Single(s)].phase = "None"
    BY <1>1, <2>1, Zenon DEF SessionAt, InScript
  <2>3. /\ DataStep(s) /\ txn'[Single(s)].phase = "Active" /\ txn'[Single(s)].writes = {}
        /\ txn'[Batched(s)] = txn[Batched(s)]
    BY <1>1, <2>1, <2>2, NewTransactionStep, Owners, Zenon DEF Mine
  <2>4. pc'[s] = "Execute"
    BY <1>1, <2>1, Zenon DEF TypeInv
  <2>5. OnlySession(s) /\ SessionTypes
    BY <1>1, <2>1, Zenon DEF OnlySession, SessionTypes, TypeInv, Label
  <2>6. InScript(s)'
    <3>1. RowsUpTo(s, script[s].at - 1)' = RowsUpTo(s, script[s].at - 1)
      BY <2>1, Zenon DEF RowsUpTo
    <3> QED BY <2>1, <2>2, <2>3, <2>4, <3>1, Zenon DEF InScript
  <2>7. SessionAt(s)'
    BY <1>1, <2>1, <2>3, <2>4, <2>6, Zenon DEF SessionAt, OwedAt
  <2> QED BY <2>3, <2>5, <2>7, SessionStep, Zenon
<1>3. CASE ~Translatable(CurrentStatement(s))
  BY <1>3, ThrowKeeps, Zenon DEF Translate
<1> QED BY <1>2, <1>3, Zenon

LEMMA ExecuteTasksKeeps ==
  ASSUME Inv, NEW s \in Session, ExecuteTasks(s)
  PROVE  Inv'
<1>1. TypeInv /\ DataInv /\ SessionAt(s)
  BY Zenon DEF Inv
<1>2. /\ pc[s] = "Execute" /\ pc' = [pc EXCEPT ![s] = "Commit"]
      /\ UNCHANGED <<durable, script, reply, owed>>
  BY Zenon DEF ExecuteTasks, Goto
<1>3. InScript(s) /\ txn[Single(s)].phase = "Active" /\ txn[Single(s)].writes = {}
  BY <1>1, <1>2, Zenon DEF SessionAt, InScript
<1>4. /\ DataStep(s) /\ txn'[Batched(s)] = txn[Batched(s)] /\ txn'[Single(s)].phase # "None"
      /\ txn'[Single(s)].phase = "Active" =>
           txn'[Single(s)].writes = {CurrentStatement(s)} \cap Row
  <2>1. CASE CurrentStatement(s) \in Row
    <3>1. UpdateRow(Single(s), CurrentStatement(s))
      BY <2>1, Zenon DEF ExecuteTasks
    <3>2. /\ DataStep(s) /\ txn'[Batched(s)] = txn[Batched(s)]
          /\ \/ txn'[Single(s)].phase = "RolledBack"
             \/ /\ txn'[Single(s)].phase = "Active"
                /\ txn'[Single(s)].writes = txn[Single(s)].writes \cup {CurrentStatement(s)}
      BY <1>1, <1>3, <2>1, <3>1, UpdateStep, Owners, Zenon DEF Mine
    <3> QED BY <1>3, <2>1, <3>2, Zenon
  <2>2. CASE CurrentStatement(s) \notin Row
    BY <1>1, <1>3, <2>2, NoDataStep, Zenon DEF ExecuteTasks
  <2> QED BY <2>1, <2>2, Zenon
<1>5. pc'[s] = "Commit"
  BY <1>1, <1>2, Zenon DEF TypeInv
<1>6. OnlySession(s) /\ SessionTypes
  BY <1>1, <1>2, Zenon DEF OnlySession, SessionTypes, TypeInv, Label
<1>7. InScript(s)'
  <2>1. RowsUpTo(s, script[s].at - 1)' = RowsUpTo(s, script[s].at - 1)
    BY <1>2, Zenon DEF RowsUpTo
  <2>2. CurrentStatement(s)' = CurrentStatement(s)
    BY <1>2, Zenon DEF CurrentStatement
  <2> QED BY <1>2, <1>3, <1>4, <1>5, <2>1, <2>2, Zenon DEF InScript
<1>8. SessionAt(s)'
  BY <1>1, <1>2, <1>4, <1>5, <1>7, Zenon DEF SessionAt, OwedAt
<1> QED BY <1>4, <1>6, <1>8, SessionStep, Zenon

\* The rows of one more statement of a script.
LEMMA OneMoreRow ==
  ASSUME NEW s \in Session, NEW n \in Nat \ {0}
  PROVE  RowsUpTo(s, n) = RowsUpTo(s, n - 1) \cup ({script[s].text[n]} \cap Row)
<1>1. 1..n = 1..(n - 1) \cup {n}
  OBVIOUS
<1> QED BY <1>1, Zenon DEF RowsUpTo

LEMMA CommitStatementKeeps ==
  ASSUME Inv, NEW s \in Session, CommitStatement(s)
  PROVE  Inv'
<1>1. TypeInv /\ DataInv /\ SessionAt(s)
  BY Zenon DEF Inv
<1>2. /\ pc[s] = "Commit" /\ txn[Single(s)].phase = "Active" /\ CommitOf(s, Single(s))
      /\ UNCHANGED owed
  BY Zenon DEF CommitStatement
<1>3. InScript(s) /\ txn[Single(s)].writes = {CurrentStatement(s)} \cap Row
  BY <1>1, <1>2, Zenon DEF SessionAt, InScript
<1>4. /\ DataStep(s) /\ txn'[Single(s)].phase = "None"
      /\ txn'[Batched(s)].phase = txn[Batched(s)].phase
      /\ txn'[Batched(s)].writes = txn[Batched(s)].writes
      /\ durable' = [durable EXCEPT ![s] = @ \cup txn[Single(s)].writes]
  BY <1>1, <1>2, CommitStep, Owners, Zenon DEF Mine
<1>5. PICK n \in Nat \ {0} : n = script[s].at
  BY <1>1, Zenon DEF TypeInv
<1>6. durable'[s] = RowsUpTo(s, n)
  <2>1. durable'[s] = durable[s] \cup txn[Single(s)].writes
    BY <1>1, <1>4, Zenon DEF TypeInv
  <2> QED BY <1>3, <1>5, <2>1, OneMoreRow DEF InScript, CurrentStatement
<1>7. durable' \in [Session -> SUBSET Row] /\ \A u \in Session \ {s} : durable'[u] = durable[u]
  BY <1>1, <1>3, <1>4, Zenon DEF TypeInv
<1>8. CASE script[s].at = Len(script[s].text)
  <2>1. /\ pc' = [pc EXCEPT ![s] = "Answer"] /\ reply' = [reply EXCEPT ![s] = "result"]
        /\ UNCHANGED script
    BY <1>8, Zenon DEF CommitStatement, Answers
  <2>2. pc'[s] = "Answer" /\ reply'[s] = "result"
    BY <1>1, <2>1, Zenon DEF TypeInv
  <2>3. OnlySession(s) /\ SessionTypes
    BY <1>1, <1>2, <1>7, <2>1, Zenon DEF OnlySession, SessionTypes, TypeInv, Label, Reply
  <2>4. OutsideScript(s)'
    <3>1. RowsUpTo(s, Len(script[s].text))' = RowsUpTo(s, n)
      BY <1>5, <1>8, <2>1, Zenon DEF RowsUpTo
    <3> QED BY <1>4, <1>6, <2>2, <3>1, Zenon DEF OutsideScript
  <2>5. SessionAt(s)'
    BY <1>1, <1>2, <1>4, <2>2, <2>4, Zenon DEF SessionAt, OwedAt
  <2> QED BY <1>4, <2>3, <2>5, SessionStep, Zenon
<1>9. CASE script[s].at # Len(script[s].text)
  <2>1. /\ pc' = [pc EXCEPT ![s] = "Translate"] /\ script' = [script EXCEPT ![s].at = @ + 1]
        /\ UNCHANGED reply
    BY <1>9, Zenon DEF CommitStatement
  <2>2. pc'[s] = "Translate" /\ script'[s].text = script[s].text /\ script'[s].at = n + 1
    BY <1>1, <1>5, <2>1, Zenon DEF TypeInv
  <2>3. script' \in [Session -> [text : Seq(Statement), at : Nat \ {0}]]
    <3>1. [script[s] EXCEPT !.at = @ + 1] \in [text : Seq(Statement), at : Nat \ {0}]
      <4>1. script[s] \in [text : Seq(Statement), at : Nat \ {0}] /\ n + 1 \in Nat \ {0}
        BY <1>1 DEF TypeInv
      <4>2. [script[s] EXCEPT !.at = n + 1] \in [text : Seq(Statement), at : Nat \ {0}]
        BY <4>1, Zenon
      <4> QED BY <1>5, <4>2, Zenon
    <3> QED BY <1>1, <2>1, <3>1, Zenon DEF TypeInv
  <2>4. OnlySession(s) /\ SessionTypes
    BY <1>1, <1>2, <1>7, <2>1, <2>3, Zenon DEF OnlySession, SessionTypes, TypeInv, Label
  <2>5. InScript(s)'
    <3>1. PICK l \in Nat : l = Len(script[s].text)
      BY <1>1 DEF TypeInv
    <3>2. n + 1 <= l
      BY <1>3, <1>5, <1>9, <3>1 DEF InScript
    <3>3. RowsUpTo(s, script[s].at - 1)' = RowsUpTo(s, n)
      <4>1. (script[s].at - 1)' = n
        BY <2>2
      <4> QED BY <2>2, <4>1, Zenon DEF RowsUpTo
    <3> QED BY <1>4, <1>6, <2>2, <3>1, <3>2, <3>3, Zenon DEF InScript
  <2>6. SessionAt(s)'
    BY <1>1, <1>2, <1>4, <2>1, <2>2, <2>5, Zenon DEF SessionAt, OwedAt
  <2> QED BY <1>4, <2>4, <2>6, SessionStep, Zenon
<1> QED BY <1>8, <1>9, Zenon

LEMMA CommitThrowsKeeps ==
  ASSUME Inv, NEW s \in Session, CommitThrows(s)
  PROVE  Inv'
<1>1. TypeInv /\ DataInv /\ SessionAt(s)
  BY Zenon DEF Inv
<1>2. /\ pc[s] = "Commit" /\ pc' = [pc EXCEPT ![s] = "Answer"]
      /\ txn[Single(s)].phase = "RolledBack" /\ lock' = Unlocked(Batched(s))
      /\ txn' = [txn EXCEPT ![Batched(s)] = NoTxn, ![Single(s)] = NoTxn]
      /\ reply' = [reply EXCEPT ![s] = "error"] /\ owed' = [owed EXCEPT ![s] = {}]
      /\ UNCHANGED <<durable, script>>
  BY Zenon DEF CommitThrows, Goto, Answers
<1>3. Batched(s) \in Owner /\ Single(s) \in Owner /\ Batched(s) # Single(s)
  BY Owners, Zenon
<1>4. /\ \A o \in Mine(s) : /\ txn'[o].phase = "None"
                            /\ txn'[o].writes = {} /\ txn'[o].stale = {}
      /\ \A p \in Owner \ Mine(s) : txn'[p] = txn[p]
  BY <1>1, <1>2, <1>3, Zenon DEF Mine, NoTxn, TypeInv
<1>5. txn' \in [Owner -> Transaction] /\ lock' \in [Row -> Owner \cup {Free}]
  BY <1>1, <1>2, Zenon DEF TypeInv, Transaction, Phase, Unlocked, NoTxn
<1>6. LockedByActive'
  <2>1. \A r \in Row : lock'[r] = IF lock[r] = Batched(s) THEN Free ELSE lock[r]
    BY <1>2, Zenon DEF Unlocked
  <2>2. \A r \in Row : lock[r] # Single(s)
    BY <1>1, <1>2, <1>3, Zenon DEF DataInv, LockedByActive
  <2>3. \A r \in Row, o \in Mine(s) : lock'[r] # o
    BY <1>3, <2>1, <2>2, FreeIsNobody, Zenon DEF Mine
  <2>4. \A r \in Row, p \in Owner \ Mine(s) : lock'[r] = p <=> lock[r] = p
    BY <1>3, <2>1, FreeIsNobody, Zenon DEF Mine
  <2> QED BY <1>1, <1>4, <2>3, <2>4 DEF DataInv, LockedByActive
<1>7. NoLostUpdate' /\ IdleIsEmpty'
  BY <1>1, <1>4, Zenon DEF DataInv, NoLostUpdate, IdleIsEmpty
<1>8. DataStep(s)
  BY <1>4, <1>5, <1>6, <1>7, Zenon DEF DataStep, DataInv
<1>9. pc'[s] = "Answer" /\ owed'[s] = {} /\ reply'[s] = "error"
  BY <1>1, <1>2, Zenon DEF TypeInv
<1>10. OnlySession(s) /\ SessionTypes
  BY <1>1, <1>2, Zenon DEF OnlySession, SessionTypes, TypeInv, Label, Reply
<1>11. SessionAt(s)'
  <2>1. RowsUpTo(s, script[s].at - 1)' = RowsUpTo(s, script[s].at - 1)
    BY <1>2, Zenon DEF RowsUpTo
  <2>2. durable[s] = RowsUpTo(s, script[s].at - 1)
    BY <1>1, <1>2, Zenon DEF SessionAt, InScript
  <2>3. OutsideScript(s)'
    BY <1>2, <1>4, <1>9, <2>1, <2>2, Zenon DEF OutsideScript, Mine
  <2>4. OwedAt(s)'
    BY <1>4, <1>9, Zenon DEF OwedAt, Mine
  <2> QED BY <1>9, <2>3, <2>4, Zenon DEF SessionAt
<1> QED BY <1>8, <1>10, <1>11, SessionStep, Zenon

-----------------------------------------------------------------------------
(* Answers and prepared statements.                                        *)

LEMMA AnswerSentKeeps ==
  ASSUME Inv, NEW s \in Session, AnswerSent(s)
  PROVE  Inv'
<1>1. TypeInv /\ DataInv /\ SessionAt(s)
  BY Zenon DEF Inv
<1>2. /\ pc[s] = "Answer" /\ pc' = [pc EXCEPT ![s] = "Idle"]
      /\ reply' = [reply EXCEPT ![s] = "none"] /\ script' = [script EXCEPT ![s] = NoScript]
      /\ durable' = [durable EXCEPT ![s] = {}]
      /\ owed' = [owed EXCEPT ![s] = IF reply[s] = "synced" THEN {} ELSE @]
      /\ UNCHANGED <<lock, txn>>
  BY Zenon DEF AnswerSent, Goto, HandlerEnds
<1>3. DataStep(s)
  BY <1>1, <1>2, NoDataStep, Zenon
<1>4. /\ pc'[s] = "Idle" /\ reply'[s] = "none" /\ script'[s] = NoScript /\ durable'[s] = {}
      /\ owed'[s] = IF reply[s] = "synced" THEN {} ELSE owed[s]
  BY <1>1, <1>2, Zenon DEF TypeInv
<1>5. OnlySession(s) /\ SessionTypes
  <2>1. NoScript \in [text : Seq(Statement), at : Nat \ {0}]
    BY DEF NoScript
  <2> QED BY <1>1, <1>2, <2>1, Zenon DEF OnlySession, SessionTypes, TypeInv, Label, Reply
<1>6. OwedAt(s)'
  <2>1. txn[Batched(s)].phase = "None" => txn[Batched(s)].writes = {}
    BY <1>1, Owners, Zenon DEF DataInv, IdleIsEmpty
  <2> QED BY <1>1, <1>2, <1>4, <2>1, Zenon DEF SessionAt, OwedAt
<1>7. SessionAt(s)'
  BY <1>1, <1>2, <1>4, <1>6, Zenon DEF SessionAt, OutsideScript
<1> QED BY <1>3, <1>5, <1>7, SessionStep, Zenon

LEMMA AnswerLostKeeps ==
  ASSUME Inv, NEW s \in Session, AnswerLost(s)
  PROVE  Inv'
<1>1. TypeInv /\ DataInv /\ SessionAt(s)
  BY Zenon DEF Inv
<1>2. /\ pc[s] = "Answer" /\ pc' = [pc EXCEPT ![s] = "Ended"]
      /\ reply' = [reply EXCEPT ![s] = "none"] /\ script' = [script EXCEPT ![s] = NoScript]
      /\ durable' = [durable EXCEPT ![s] = {}] /\ owed' = [owed EXCEPT ![s] = {}]
      /\ lock' = Unlocked(Batched(s))
      /\ txn' = [txn EXCEPT ![Batched(s)] = [phase |-> "None", writes |-> {}, stale |-> {}]]
  BY Zenon DEF AnswerLost, Goto, HandlerEnds, AbortBatched, NoTxn
<1>3. /\ DataStep(s) /\ txn'[Batched(s)].phase = "None" /\ txn'[Batched(s)].writes = {}
      /\ txn'[Single(s)] = txn[Single(s)]
  BY <1>1, <1>2, EndStep, Owners, Zenon DEF Mine
<1>4. /\ pc'[s] = "Ended" /\ reply'[s] = "none" /\ script'[s] = NoScript /\ durable'[s] = {}
      /\ owed'[s] = {}
  BY <1>1, <1>2, Zenon DEF TypeInv
<1>5. OnlySession(s) /\ SessionTypes
  <2>1. NoScript \in [text : Seq(Statement), at : Nat \ {0}]
    BY DEF NoScript
  <2> QED BY <1>1, <1>2, <2>1, Zenon DEF OnlySession, SessionTypes, TypeInv, Label, Reply
<1>6. SessionAt(s)'
  BY <1>1, <1>2, <1>3, <1>4, Zenon DEF SessionAt, OutsideScript, OwedAt
<1> QED BY <1>3, <1>5, <1>6, SessionStep, Zenon

LEMMA ParseKeeps ==
  ASSUME Inv, NEW s \in Session, NEW n, NEW text, Parse(s, n, text)
  PROVE  Inv'
<1>1. /\ pc[s] = "Idle" /\ pc' = [pc EXCEPT ![s] = "Answer"] /\ UNCHANGED <<durable, script>>
      /\ Throw(s) \/ (Answers(s, "parsed") /\ UNCHANGED <<lock, txn, owed>>)
  BY Zenon DEF Parse, Receive, Goto
<1> QED BY <1>1, ThrowKeeps, AnswerKeeps, Zenon

LEMMA BindKeeps ==
  ASSUME Inv, NEW s \in Session, NEW n, NEW p, Bind(s, n, p)
  PROVE  Inv'
<1>1. /\ pc[s] = "Idle" /\ pc' = [pc EXCEPT ![s] = "Answer"] /\ UNCHANGED <<durable, script>>
      /\ Throw(s) \/ (Answers(s, "bound") /\ UNCHANGED <<lock, txn, owed>>)
  BY Zenon DEF Bind, Receive, Goto
<1> QED BY <1>1, ThrowKeeps, AnswerKeeps, Zenon

LEMMA LoadTableKeeps ==
  ASSUME Inv, NEW s \in Session, LoadTable(s)
  PROVE  Inv'
<1>1. /\ pc[s] = "Load" /\ pc' = [pc EXCEPT ![s] = "Answer"] /\ UNCHANGED <<durable, script>>
      /\ Throw(s) \/ (Answers(s, "loaded") /\ UNCHANGED <<lock, txn, owed>>)
  BY Zenon DEF LoadTable, Goto
<1> QED BY <1>1, ThrowKeeps, AnswerKeeps, Zenon

LEMMA ExecuteKeeps ==
  ASSUME Inv, NEW s \in Session, NEW p, Execute(s, p)
  PROVE  Inv'
<1>1. TypeInv /\ DataInv /\ SessionAt(s)
  BY Zenon DEF Inv
<1>2. /\ pc[s] = "Idle" /\ pc' = [pc EXCEPT ![s] = "RunPortal"]
      /\ txn' = IF txn[Batched(s)].phase = "None" THEN NewTransaction(Batched(s)) ELSE txn
      /\ UNCHANGED <<lock, durable, script, reply, owed>>
  BY Zenon DEF Execute, Receive, Goto
<1>3. OwedAt(s) /\ OutsideScript(s) /\ reply[s] = "none"
  BY <1>1, <1>2, Zenon DEF SessionAt
<1>4. /\ DataStep(s) /\ txn'[Single(s)] = txn[Single(s)]
      /\ txn'[Batched(s)].phase # "RolledBack" => owed[s] = txn'[Batched(s)].writes
  <2>1. CASE txn[Batched(s)].phase = "None"
    <3>1. owed[s] = {}
      BY <1>1, <1>3, <2>1, Owners, Zenon DEF OwedAt, DataInv, IdleIsEmpty
    <3>2. txn' = NewTransaction(Batched(s))
      BY <1>2, <2>1, Zenon
    <3> QED BY <1>1, <1>2, <2>1, <3>1, <3>2, NewTransactionStep, Owners, Zenon DEF Mine
  <2>2. CASE txn[Batched(s)].phase # "None"
    BY <1>1, <1>2, <1>3, <2>2, NoDataStep, Zenon DEF OwedAt
  <2> QED BY <2>1, <2>2, Zenon
<1>5. pc'[s] = "RunPortal"
  BY <1>1, <1>2, Zenon DEF TypeInv
<1>6. OnlySession(s) /\ SessionTypes
  BY <1>1, <1>2, Zenon DEF OnlySession, SessionTypes, TypeInv, Label
<1>7. SessionAt(s)'
  BY <1>2, <1>3, <1>4, <1>5, Zenon DEF SessionAt, OutsideScript, OwedAt
<1> QED BY <1>4, <1>6, <1>7, SessionStep, Zenon

LEMMA RunPortalKeeps ==
  ASSUME Inv, NEW s \in Session, RunPortal(s)
  PROVE  Inv'
<1>1. TypeInv /\ DataInv /\ SessionAt(s)
  BY Zenon DEF Inv
<1>2. /\ pc[s] = "RunPortal" /\ pc' = [pc EXCEPT ![s] = "Answer"]
      /\ reply' = [reply EXCEPT ![s] = "complete"] /\ UNCHANGED <<durable, script>>
  BY Zenon DEF RunPortal, Goto, Answers
<1>3. OwedAt(s) /\ OutsideScript(s) /\ reply[s] = "none"
  BY <1>1, <1>2, Zenon DEF SessionAt
<1>4. /\ DataStep(s) /\ txn'[Single(s)] = txn[Single(s)]
      /\ owed' \in [Session -> SUBSET Row] /\ \A u \in Session \ {s} : owed'[u] = owed[u]
      /\ txn'[Batched(s)].phase # "RolledBack" => owed'[s] = txn'[Batched(s)].writes
  <2>1. CASE running[s].statement \in Row
    <3>1. PICK r \in Row : r = running[s].statement
      BY <2>1, Zenon
    <3>2. /\ txn[Batched(s)].phase = "Active" /\ UpdateRow(Batched(s), r)
          /\ owed' = [owed EXCEPT ![s] = @ \cup {r}]
      BY <2>1, <3>1, Zenon DEF RunPortal
    <3>3. /\ DataStep(s) /\ txn'[Single(s)] = txn[Single(s)]
          /\ \/ txn'[Batched(s)].phase = "RolledBack"
             \/ txn'[Batched(s)].writes = txn[Batched(s)].writes \cup {r}
      BY <1>1, <3>2, UpdateStep, Owners, Zenon DEF Mine
    <3>4. owed[s] = txn[Batched(s)].writes
      BY <1>3, <3>2, Zenon DEF OwedAt
    <3>5. /\ owed' \in [Session -> SUBSET Row] /\ \A u \in Session \ {s} : owed'[u] = owed[u]
          /\ owed'[s] = owed[s] \cup {r}
      BY <1>1, <3>2, Zenon DEF TypeInv
    <3> QED BY <3>3, <3>4, <3>5, Zenon
  <2>2. CASE running[s].statement \notin Row
    <3>1. UNCHANGED <<lock, txn, owed>>
      BY <2>2, Zenon DEF RunPortal
    <3> QED BY <1>1, <1>3, <3>1, NoDataStep, Zenon DEF OwedAt, TypeInv
  <2> QED BY <2>1, <2>2, Zenon
<1>5. pc'[s] = "Answer" /\ reply'[s] = "complete"
  BY <1>1, <1>2, Zenon DEF TypeInv
<1>6. OnlySession(s) /\ SessionTypes
  BY <1>1, <1>2, <1>4, Zenon DEF OnlySession, SessionTypes, TypeInv, Label, Reply
<1>7. SessionAt(s)'
  BY <1>3, <1>4, <1>5, Zenon DEF SessionAt, OutsideScript, OwedAt
<1> QED BY <1>4, <1>6, <1>7, SessionStep, Zenon

LEMMA SyncKeeps ==
  ASSUME Inv, NEW s \in Session, Sync(s)
  PROVE  Inv'
<1>1. TypeInv /\ DataInv /\ SessionAt(s)
  BY Zenon DEF Inv
<1>2. pc[s] = "Idle" /\ pc' = [pc EXCEPT ![s] = "Answer"] /\ UNCHANGED script
  BY Zenon DEF Sync, Receive, Goto
<1>3. /\ OwedAt(s) /\ OutsideScript(s) /\ reply[s] = "none" /\ durable[s] = {}
  BY <1>1, <1>2, Zenon DEF SessionAt, OutsideScript
<1>4. CASE txn[Batched(s)].phase = "RolledBack"
  <2>1. AbortBatched(s) /\ UNCHANGED durable /\ Answers(s, "error")
    BY <1>4, Zenon DEF Sync
  <2> QED BY <1>2, <2>1, ThrowKeeps, Zenon DEF Throw
<1>5. CASE txn[Batched(s)].phase # "RolledBack"
  <2>1. reply' = [reply EXCEPT ![s] = "synced"]
    BY <1>5, Zenon DEF Sync, Answers
  <2>2. /\ DataStep(s) /\ txn'[Single(s)].phase = txn[Single(s)].phase
        /\ txn'[Batched(s)].phase = "None" /\ UNCHANGED owed
        /\ durable' \in [Session -> SUBSET Row]
        /\ \A u \in Session \ {s} : durable'[u] = durable[u]
        /\ durable'[s] = owed[s]
    <3>1. CASE txn[Batched(s)].phase = "Active"
      <4>1. CommitOf(s, Batched(s)) /\ UNCHANGED owed
        BY <3>1, Zenon DEF Sync
      <4>2. /\ DataStep(s) /\ txn'[Single(s)].phase = txn[Single(s)].phase
            /\ txn'[Batched(s)].phase = "None"
            /\ durable' = [durable EXCEPT ![s] = @ \cup txn[Batched(s)].writes]
        BY <1>1, <3>1, <4>1, CommitStep, Owners, Zenon DEF Mine
      <4>3. owed[s] = txn[Batched(s)].writes
        BY <1>3, <3>1, Zenon DEF OwedAt
      <4>4. owed[s] \subseteq Row
        BY <1>1, Zenon DEF TypeInv
      <4> QED BY <1>1, <1>3, <4>1, <4>2, <4>3, <4>4, Zenon DEF TypeInv
    <3>2. CASE txn[Batched(s)].phase = "None"
      <4>1. UNCHANGED <<lock, txn, durable, owed>>
        BY <3>2, Zenon DEF Sync, dataVars
      <4>2. owed[s] = {}
        BY <1>1, <1>3, <3>2, Owners, Zenon DEF OwedAt, DataInv, IdleIsEmpty
      <4> QED BY <1>1, <1>3, <3>2, <4>1, <4>2, NoDataStep, Zenon DEF TypeInv
    <3>3. txn[Batched(s)].phase \in Phase
      BY <1>1, Owners, Zenon DEF TypeInv, Transaction
    <3> QED BY <1>5, <3>1, <3>2, <3>3, Zenon DEF Phase
  <2>3. pc'[s] = "Answer" /\ reply'[s] = "synced"
    BY <1>1, <1>2, <2>1, Zenon DEF TypeInv
  <2>4. OnlySession(s) /\ SessionTypes
    BY <1>1, <1>2, <2>1, <2>2, Zenon DEF OnlySession, SessionTypes, TypeInv, Label, Reply
  <2>5. SessionAt(s)'
    BY <1>3, <2>2, <2>3, Zenon DEF SessionAt, OutsideScript, OwedAt
  <2> QED BY <2>2, <2>4, <2>5, SessionStep, Zenon
<1> QED BY <1>4, <1>5, Zenon

-----------------------------------------------------------------------------
(* The inductive invariant and what follows from it.                       *)

LEMMA InitInv == Init => Inv
<1> SUFFICES ASSUME Init PROVE Inv
  BY Zenon
<1>1. \A o \in Owner : txn[o].phase = "None" /\ txn[o].writes = {} /\ txn[o].stale = {}
  BY Zenon DEF Init, NoTxn
<1>2. TypeInv
  BY DEF Init, TypeInv, NoTxn, Transaction, Phase, Label, Reply, NoScript
<1>3. DataInv
  <2>1. \A r \in Row : lock[r] = Free
    BY Zenon DEF Init
  <2> QED BY <1>1, <2>1, FreeIsNobody, Zenon DEF DataInv, LockedByActive, NoLostUpdate, IdleIsEmpty
<1>4. \A s \in Session : SessionAt(s)
  <2> SUFFICES ASSUME NEW s \in Session PROVE SessionAt(s)
    BY Zenon
  <2>1. /\ pc[s] = "Startup" /\ reply[s] = "none" /\ script[s] = NoScript
        /\ owed[s] = {} /\ durable[s] = {}
    BY Zenon DEF Init
  <2> QED BY <1>1, <2>1, Owners, Zenon DEF SessionAt, OutsideScript, OwedAt
<1> QED BY <1>2, <1>3, <1>4, Zenon DEF Inv

\* Inv mentions these variables only.
LEMMA NothingChanges ==
  ASSUME Inv, UNCHANGED <<lock, txn, pc, script, reply, owed, durable>>
  PROVE  Inv'
<1>1. TypeInv' /\ DataInv'
  BY Zenon DEF Inv, TypeInv, DataInv, LockedByActive, NoLostUpdate, IdleIsEmpty
<1>2. ASSUME NEW s \in Session PROVE SessionAt(s)'
  <2>1. SessionAt(s)
    BY Zenon DEF Inv
  <2>2. \A i : RowsUpTo(s, i)' = RowsUpTo(s, i)
    BY Zenon DEF RowsUpTo
  <2>3. /\ InScript(s)' <=> InScript(s)
        /\ OutsideScript(s)' <=> OutsideScript(s)
        /\ OwedAt(s)' <=> OwedAt(s)
    BY <2>2, Zenon DEF InScript, OutsideScript, OwedAt, CurrentStatement
  <2> QED BY <2>1, <2>3, Zenon DEF SessionAt
<1> QED BY <1>1, <1>2, Zenon DEF Inv

LEMMA InvStep == Inv /\ [Next]_vars => Inv'
<1> SUFFICES ASSUME Inv, [Next]_vars PROVE Inv'
  BY Zenon
<1>1. CASE UNCHANGED vars
  BY <1>1, NothingChanges, Zenon DEF vars, dataVars
<1>2. ASSUME NEW s \in Session, Startup(s) \/ End(s) \/ SimpleQueryLoad(s)
      PROVE  Inv'
  <2>1. /\ pc[s] \in {"Startup", "Idle"}
        /\ \E to \in {"Idle", "Load", "Ended"} : pc' = [pc EXCEPT ![s] = to]
        /\ UNCHANGED <<lock, txn, owed, durable, script, reply>>
    BY <1>2, Zenon DEF Startup, End, SimpleQueryLoad, Receive, Goto, dataVars
  <2> QED BY <2>1, GotoKeeps, Zenon
<1>3. ASSUME NEW s \in Session, Task(s) PROVE Inv'
  <2>1. CASE AssertionFailsInWorker(s)
    BY <2>1, NothingChanges, Zenon DEF AssertionFailsInWorker, dataVars
  <2> QED BY <1>3, <2>1, LoadTableKeeps, TranslateKeeps, ExecuteTasksKeeps,
             CommitStatementKeeps, CommitThrowsKeeps, RunPortalKeeps, Zenon DEF Task
<1>4. ASSUME NEW s \in Session, Answer(s) PROVE Inv'
  BY <1>4, AnswerSentKeeps, AnswerLostKeeps, Zenon DEF Answer
<1>5. ASSUME NEW s \in Session, SimpleMessage(s) PROVE Inv'
  <2>1. CASE SimpleQueryInvalid(s)
    BY <2>1, ThrowKeeps, Zenon DEF SimpleQueryInvalid, Receive, Goto
  <2> QED BY <1>2, <1>5, <2>1, SimpleQueryKeeps, Zenon DEF SimpleMessage
<1>6. ASSUME NEW s \in Session, BatchMessage(s) PROVE Inv'
  <2>1. ASSUME NEW n \in Name, NEW p \in Name,
               BindUnknown(s, n) \/ BindTwice(s, n, p) \/ ExecuteUnknown(s, p)
        PROVE  Inv'
    <3>1. /\ pc[s] = "Idle" /\ pc' = [pc EXCEPT ![s] = "Answer"] /\ Throw(s)
          /\ UNCHANGED <<durable, script>>
      BY <2>1, Zenon DEF BindUnknown, BindTwice, ExecuteUnknown, Receive, Goto
    <3> QED BY <3>1, ThrowKeeps, Zenon
  <2> QED BY <1>6, <2>1, ParseKeeps, BindKeeps, ExecuteKeeps, SyncKeeps, Zenon DEF BatchMessage
<1> QED BY <1>1, <1>2, <1>3, <1>4, <1>5, <1>6, Zenon DEF Next

\* The inductive invariant holds in every reachable state.
THEOREM Invariance == Spec => []Inv
<1> QED BY InitInv, InvStep, PTL DEF Spec

\* Rows are locked by exactly the active transactions that have updated them,
\* and none of them is about to overwrite what has been committed since its
\* snapshot, however sessions, conflicts, errors and broken connections mix.
THEOREM UpdatesAreProtected == Spec => []LocksProtectUpdates
<1>1. Inv => LocksProtectUpdates
  BY Zenon DEF Inv, DataInv, LocksProtectUpdates
<1> QED BY <1>1, Invariance, PTL

\* What Sync and a simple query answer without an error is committed, and all
\* of it: also where Execute has reported a conflicting UPDATE as complete.
THEOREM AnswersAreDurable == Spec => []AnsweredIsDurable
<1>1. Inv => AnsweredIsDurable
  <2> SUFFICES ASSUME Inv, NEW s \in Session
               PROVE  /\ reply[s] = "synced" => durable[s] = owed[s]
                      /\ reply[s] = "result" => durable[s] = RowsUpTo(s, Len(script[s].text))
    BY Zenon DEF AnsweredIsDurable
  <2> QED BY Zenon DEF Inv, SessionAt, OutsideScript, OwedAt
<1> QED BY <1>1, Invariance, PTL

\* An error leaves the session without a transaction and without locks, and a
\* simple query with exactly the statements before the failed one committed.
THEOREM ErrorsUndo == Spec => []ErrorUndoesTheRest
<1>1. Inv => ErrorUndoesTheRest
  <2> SUFFICES ASSUME Inv, NEW s \in Session, reply[s] = "error"
               PROVE  /\ durable[s] = RowsUpTo(s, script[s].at - 1)
                      /\ txn[Batched(s)] = NoTxn /\ txn[Single(s)].phase # "Active"
                      /\ \A r \in Row : lock[r] \notin {Batched(s), Single(s)}
    BY Zenon DEF ErrorUndoesTheRest
  <2>1. /\ durable[s] = RowsUpTo(s, script[s].at - 1) /\ txn[Batched(s)].phase = "None"
        /\ txn[Single(s)].phase = "None"
    BY Zenon DEF Inv, SessionAt, OutsideScript
  <2>2. Batched(s) \in Owner /\ Single(s) \in Owner
    BY Owners, Zenon
  <2>3. txn[Batched(s)] = NoTxn
    <3>1. txn[Batched(s)] \in Transaction
      BY <2>2, Zenon DEF Inv, TypeInv
    <3>2. txn[Batched(s)].writes = {} /\ txn[Batched(s)].stale = {}
      BY <2>1, <2>2, Zenon DEF Inv, DataInv, IdleIsEmpty
    <3> QED BY <2>1, <3>1, <3>2, Zenon DEF NoTxn, Transaction
  <2>4. \A r \in Row : lock[r] \notin {Batched(s), Single(s)}
    BY <2>1, <2>2, Zenon DEF Inv, DataInv, LockedByActive
  <2> QED BY <2>1, <2>3, <2>4, Zenon
<1> QED BY <1>1, Invariance, PTL

=============================================================================
