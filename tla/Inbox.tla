------------------------------- MODULE Inbox --------------------------------
(***************************************************************************)
(* The PostgreSQL Inbox backend as concurrent transactions.  Workers call  *)
(* the store; each call is one SQL transaction that inserts or locks       *)
(* identity rows one at a time, keeps its writes in its own view until it  *)
(* commits, and holds the identity locks while the application handler     *)
(* runs.  What is committed, db and effects, is the state of InboxLedger,  *)
(* which says what the same calls do one at a time.                        *)
(*                                                                         *)
(* PostgreSQL is modelled from how the backend uses it:                    *)
(*  - INSERT ... ON CONFLICT DO NOTHING skips a committed row without      *)
(*    waiting for its lock and waits for an uncommitted insert of the key; *)
(*  - SELECT ... FOR UPDATE waits for the lock of a committed row, does    *)
(*    not see an uncommitted insert, and finds no row once a transaction   *)
(*    it waited for has deleted it;                                        *)
(*  - a transaction can fail at any statement, by cancellation, a lost     *)
(*    connection or a crash: Rollback then discards all of it.             *)
(***************************************************************************)
EXTENDS InboxLedger, InboxOrder

CONSTANT Workers     \* concurrent callers of the store

VARIABLES owner,     \* who holds the identity lock or an uncommitted insert, if anyone
          tx         \* the transaction of each worker

txVars == <<db, effects, owner, tx>>

HandlerOps == {"Process", "ProcessAttempt", "ProcessBatchAttempt"}

-----------------------------------------------------------------------------
(* A transaction is a record:                                              *)
(*   pc      "idle", then "insert", "lock" and "handler"                   *)
(*   op      the store operation                                           *)
(*   items   for each identity it names, the delivery seen for it or, for  *)
(*           PruneTerminalAttempts, the candidate slots still to remove    *)
(*   arg     MaxAttempts, the confirmation time or the retention cutoff    *)
(*   todo    identities still to insert or to lock                         *)
(*   fresh   identities this transaction inserted                          *)
(*   view    its own version of the rows it holds                          *)
(*   active  identities whose handler runs, and plan the attempt decided   *)
(*           for them before it ran                                        *)

NoView == [k \in Keys |-> NoRows]
NoPlan == [k \in Keys |-> FirstAttempt]
NoItems == [k \in {} |-> {}]

Idle == [pc |-> "idle", op |-> "", items |-> NoItems, arg |-> 0, todo |-> {},
         fresh |-> {}, view |-> NoView, active |-> {}, plan |-> NoPlan]

TxInit == /\ Init
          /\ owner = [k \in Keys |-> {}]
          /\ tx = [t \in Workers |-> Idle]

Held(t) == {k \in Keys : owner[k] = {t}}

\* Variant: a batch locks existing identities in the order Go sorted them.
PendingGoOrder(t) == First(IF tx[t].op \in HandlerOps THEN GoOrder ELSE DbOrder, tx[t].todo)

\* The identity a transaction comes to next: rows are inserted in the order of
\* Go and locked in the order of the database.
Pending(t) == First(IF tx[t].pc = "insert" THEN GoOrder ELSE DbOrder, tx[t].todo)

-----------------------------------------------------------------------------
(* Starting a call.                                                        *)

Start(t, op, pc, items, arg, todo) ==
    tx' = [tx EXCEPT ![t] = [pc |-> pc, op |-> op, items |-> items, arg |-> arg,
                             todo |-> todo, fresh |-> {}, view |-> NoView,
                             active |-> {}, plan |-> NoPlan]]

Groups == {item \in Items : item.first \in item.fps}
SingleItem == {item \in Groups : item.fps = {item.first}}

BeginProcess(t) ==
    \E k \in Keys, item \in SingleItem :
        /\ item.gen = NoGen
        /\ Start(t, "Process", "insert", [x \in {k} |-> item], 0, {k})

BeginProcessAttempt(t) ==
    \E k \in Keys, item \in SingleItem, max \in Limits :
        Start(t, "ProcessAttempt", "insert", [x \in {k} |-> item], max, {k})

BeginProcessBatch(t) ==
    \E ks \in (SUBSET Keys) \ {{}}, max \in Limits :
        \E items \in [ks -> Groups] :
            Start(t, "ProcessBatchAttempt", "insert", items, max, ks)

BeginForget(t) ==
    \E k \in Keys, item \in SingleItem :
        Start(t, "ForgetAttempt", "lock", [x \in {k} |-> item], 0, {k})

BeginConfirm(t) ==
    \E k \in Keys, item \in SingleItem, now \in Times :
        Start(t, "ConfirmTerminalHandoff", "lock", [x \in {k} |-> item], now, {k})

\* The candidates are read without a lock; limit makes any subset possible.
Candidates(k, before) ==
    {s \in Slots : /\ Present(db[k]) /\ ~Completed(db[k])
                   /\ ConfirmedBefore(db[k], s, before)}

BeginPruneTerminal(t) ==
    \E before \in Times :
        \E chosen \in [Keys -> SUBSET Slots] :
            LET ks == {k \in Keys : chosen[k] # {}}
            IN  /\ ks # {}
                /\ \A k \in ks : chosen[k] \subseteq Candidates(k, before)
                /\ Start(t, "PruneTerminalAttempts", "lock", chosen, before, ks)

\* Which completed identities precede the cutoff is left open.
BeginPrune(t) ==
    \E ks \in (SUBSET {k \in Keys : Completed(db[k])}) \ {{}} :
        Start(t, "Prune", "lock", [k \in ks |-> {}], 0, ks)

Begin(t) ==
    /\ tx[t].pc = "idle"
    /\ \/ "Process" \in Ops /\ BeginProcess(t)
       \/ "ProcessAttempt" \in Ops /\ BeginProcessAttempt(t)
       \/ "ProcessBatchAttempt" \in Ops /\ BeginProcessBatch(t)
       \/ "ForgetAttempt" \in Ops /\ BeginForget(t)
       \/ "ConfirmTerminalHandoff" \in Ops /\ BeginConfirm(t)
       \/ "PruneTerminalAttempts" \in Ops /\ BeginPruneTerminal(t)
       \/ "Prune" \in Ops /\ BeginPrune(t)
    /\ UNCHANGED <<db, effects, owner>>

-----------------------------------------------------------------------------
(* Ending a transaction.                                                   *)

Release(t) == owner' = [k \in Keys |-> owner[k] \ {t}]

\* A transaction can fail anywhere, and every error return of the backend (a
\* vanished row, a fingerprint conflict, a refused or failed handler without
\* attempt accounting, an invalid or failed batch) ends the same way.
Rollback(t) ==
    /\ tx[t].pc # "idle"
    /\ Release(t)
    /\ tx' = [tx EXCEPT ![t] = Idle]
    /\ UNCHANGED <<db, effects>>

\* Publish rows for the identities t holds; gained are those whose business
\* writes commit with them.
Commit(t, rows, gained) ==
    /\ db' = [k \in Keys |-> IF owner[k] = {t} THEN rows[k] ELSE db[k]]
    /\ effects' = [k \in Keys |->
                     IF owner[k] # {t} THEN effects[k]
                     ELSE IF ~Present(rows[k]) THEN 0
                     ELSE IF k \in gained THEN effects[k] + 1 ELSE effects[k]]
    /\ Release(t)
    /\ tx' = [tx EXCEPT ![t] = Idle]

-----------------------------------------------------------------------------
(* Acquiring the identities, one at a time.                                *)

\* The insert statement moves to its next row; after the last one the
\* identities that were already there are to be locked.
AfterInsert(t, fresh, view) ==
    LET rest == tx[t].todo \ {Pending(t)}
        old  == DOMAIN tx[t].items \ fresh
    IN  tx' = [tx EXCEPT ![t].fresh = fresh, ![t].view = view,
                         ![t].pc = IF rest = {} THEN "lock" ELSE "insert",
                         ![t].todo = IF rest = {} THEN old ELSE rest]

InsertNew(t) ==
    LET k == Pending(t)
        r == InsertIdentity(db[k], tx[t].items[k].first)
    IN  /\ tx[t].pc = "insert"
        /\ ~Present(db[k]) /\ owner[k] = {}
        /\ owner' = [owner EXCEPT ![k] = {t}]
        /\ AfterInsert(t, tx[t].fresh \cup {k}, [tx[t].view EXCEPT ![k] = r])
        /\ UNCHANGED <<db, effects>>

InsertConflict(t) ==
    /\ tx[t].pc = "insert"
    /\ Present(db[Pending(t)])
    /\ AfterInsert(t, tx[t].fresh, tx[t].view)
    /\ UNCHANGED <<db, effects, owner>>

\* Variant: the row is read without waiting for its lock.
LockIdentityUnlocked(t) ==
    LET k == Pending(t)
    IN  /\ tx[t].pc = "lock" /\ tx[t].todo # {}
        /\ Present(db[k])
        /\ tx[t].op = "Prune" => Completed(db[k])
        /\ owner' = [owner EXCEPT ![k] = {t}]
        /\ tx' = [tx EXCEPT ![t].todo = @ \ {k}, ![t].view[k] = db[k]]
        /\ UNCHANGED <<db, effects>>

\* Variant: Prune deletes a row that was replaced since it was selected.
LockIdentityStalePrune(t) ==
    LET k == Pending(t)
    IN  /\ tx[t].pc = "lock" /\ tx[t].todo # {}
        /\ Present(db[k]) /\ owner[k] = {}
        /\ owner' = [owner EXCEPT ![k] = {t}]
        /\ tx' = [tx EXCEPT ![t].todo = @ \ {k}, ![t].view[k] = db[k]]
        /\ UNCHANGED <<db, effects>>

\* A handler operation that finds its conflicting row gone fails; so does Prune,
\* whose repeatable-read snapshot no longer matches.  Only Rollback is left.
LockIdentity(t) ==
    LET k == Pending(t)
    IN  /\ tx[t].pc = "lock" /\ tx[t].todo # {}
        /\ Present(db[k]) /\ owner[k] = {}
        /\ tx[t].op = "Prune" => Completed(db[k])
        /\ owner' = [owner EXCEPT ![k] = {t}]
        /\ tx' = [tx EXCEPT ![t].todo = @ \ {k}, ![t].view[k] = db[k]]
        /\ UNCHANGED <<db, effects>>

\* Retention skips a candidate whose identity is gone.
LockMissing(t) ==
    /\ tx[t].pc = "lock" /\ tx[t].todo # {}
    /\ tx[t].op = "PruneTerminalAttempts"
    /\ ~Present(db[Pending(t)])
    /\ tx' = [tx EXCEPT ![t].todo = @ \ {Pending(t)}]
    /\ UNCHANGED <<db, effects, owner>>

Ready(t, op) == tx[t].pc = "lock" /\ tx[t].todo = {} /\ tx[t].op = op

-----------------------------------------------------------------------------
(* Process.                                                                *)

\* handleExisting lets an incomplete identity through only without counters.
ProcessDecides(t) ==
    \E k \in Held(t) :
        /\ Ready(t, "Process")
        /\ \/ k \in tx[t].fresh
           \/ /\ tx[t].view[k].ident.fp = tx[t].items[k].first
              /\ ~Completed(tx[t].view[k])
              /\ ~HasAttempts(tx[t].view[k])
        /\ tx' = [tx EXCEPT ![t].pc = "handler", ![t].active = {k}]
        /\ UNCHANGED <<db, effects, owner>>

ProcessSucceeds(t) ==
    /\ tx[t].pc = "handler" /\ tx[t].op = "Process"
    /\ Commit(t, [k \in Held(t) |-> MarkComplete(tx[t].view[k])], tx[t].active)

-----------------------------------------------------------------------------
(* ProcessAttempt.                                                         *)

Slot(t, k) == AttemptFingerprint(tx[t].view[k].ident.fp, tx[t].items[k].gen)

AttemptDecision(t, k) ==
    IF k \in tx[t].fresh THEN FirstAttempt
                         ELSE NextAttempt(tx[t].view[k], Slot(t, k), tx[t].arg)

AttemptMatches(t, k) ==
    /\ Ready(t, "ProcessAttempt")
    /\ tx[t].view[k].ident.fp = tx[t].items[k].first
    /\ ~Completed(tx[t].view[k])

AttemptClosed(t) ==
    \E k \in Held(t) :
        LET d == AttemptDecision(t, k)
            r == RecordTerminal(tx[t].view[k], Slot(t, k), d.attempt, d.closed)
        IN  /\ AttemptMatches(t, k)
            /\ d.closed # ""
            /\ Commit(t, [tx[t].view EXCEPT ![k] = r], {})

AttemptRuns(t) ==
    \E k \in Held(t) :
        LET d == AttemptDecision(t, k)
        IN  /\ AttemptMatches(t, k)
            /\ d.closed = ""
            /\ tx' = [tx EXCEPT ![t].pc = "handler", ![t].active = {k},
                                ![t].plan[k] = d]
            /\ UNCHANGED <<db, effects, owner>>

AttemptReturns(t) ==
    \E kind \in FailureKinds :
        /\ tx[t].pc = "handler" /\ tx[t].op = "ProcessAttempt"
        /\ Commit(t, [k \in Held(t) |-> FinishAttempt(tx[t].view[k], Slot(t, k),
                                                   tx[t].plan[k], tx[t].arg, kind)],
                  IF kind = "success" THEN tx[t].active ELSE {})

-----------------------------------------------------------------------------
(* ProcessBatchAttempt.                                                    *)

BatchMatches(t, k) ==
    /\ tx[t].view[k].ident.fp \in tx[t].items[k].fps
    /\ ~Completed(tx[t].view[k])

BatchActive(t) ==
    {k \in Held(t) : BatchMatches(t, k) /\ ~BatchClosed(tx[t].view[k], Slot(t, k), tx[t].arg)}

\* The rows of an item that does not reach the handler.
BatchSettled(t, k) ==
    LET r == tx[t].view[k]
        s == Slot(t, k)
    IN  IF BatchMatches(t, k) /\ BatchClosed(r, s, tx[t].arg)
        THEN RecordTerminal(r, s, r.att[s].n, BatchClosedKind(r, s)) ELSE r

BatchAllSettled(t) ==
    /\ Ready(t, "ProcessBatchAttempt")
    /\ BatchActive(t) = {}
    /\ Commit(t, [k \in Held(t) |-> BatchSettled(t, k)], {})

BatchStarts(t) ==
    /\ Ready(t, "ProcessBatchAttempt")
    /\ BatchActive(t) # {}
    /\ tx' = [tx EXCEPT ![t].pc = "handler", ![t].active = BatchActive(t)]
    /\ UNCHANGED <<db, effects, owner>>

BatchReturns(t) ==
    /\ tx[t].pc = "handler" /\ tx[t].op = "ProcessBatchAttempt"
    /\ \E kinds \in [tx[t].active -> FailureKinds] :
          Commit(t, [k \in Held(t) |->
                       IF k \in tx[t].active
                       THEN FinishBatchItem(tx[t].view[k], Slot(t, k), tx[t].arg, kinds[k])
                       ELSE BatchSettled(t, k)],
                 {k \in tx[t].active : kinds[k] = "success"})

-----------------------------------------------------------------------------
(* Reset, confirmation and retention.                                      *)

Forget(t) ==
    \E k \in Held(t) :
        /\ Ready(t, "ForgetAttempt")
        /\ tx[t].view[k].ident.fp = tx[t].items[k].first
        /\ ~Completed(tx[t].view[k])
        /\ Commit(t, [tx[t].view EXCEPT ![k] = ForgetAttempt(@, Slot(t, k))], {})

Confirm(t) ==
    \E k \in Held(t) :
        /\ Ready(t, "ConfirmTerminalHandoff")
        /\ tx[t].view[k].ident.fp = tx[t].items[k].first
        /\ Closed(tx[t].view[k], Slot(t, k))
        /\ Commit(t, [tx[t].view EXCEPT ![k] = ConfirmHandoff(@, Slot(t, k), tx[t].arg)], {})

PruneNext(t) ==
    /\ Ready(t, "PruneTerminalAttempts")
    /\ \E k \in Held(t) : \E s \in tx[t].items[k] :
          tx' = [tx EXCEPT ![t].view[k] = PruneCandidate(@, s, tx[t].arg),
                           ![t].items[k] = @ \ {s}]
    /\ UNCHANGED <<db, effects, owner>>

PruneTerminalDone(t) ==
    /\ Ready(t, "PruneTerminalAttempts")
    /\ \A k \in Held(t) : tx[t].items[k] = {}
    /\ Commit(t, tx[t].view, {})

PruneDone(t) ==
    /\ Ready(t, "Prune")
    /\ Commit(t, [k \in Held(t) |-> PruneCompleted(tx[t].view[k])], {})

-----------------------------------------------------------------------------
Work(t) ==
    \/ InsertNew(t) \/ InsertConflict(t) \/ LockIdentity(t) \/ LockMissing(t)
    \/ ProcessDecides(t) \/ ProcessSucceeds(t)
    \/ AttemptClosed(t) \/ AttemptRuns(t) \/ AttemptReturns(t)
    \/ BatchAllSettled(t) \/ BatchStarts(t) \/ BatchReturns(t)
    \/ Forget(t) \/ Confirm(t)
    \/ PruneNext(t) \/ PruneTerminalDone(t) \/ PruneDone(t)

TxNext == \E t \in Workers : Begin(t) \/ Work(t) \/ Rollback(t)

TxSpec == TxInit /\ [][TxNext]_txVars

-----------------------------------------------------------------------------
(* Properties.                                                             *)

\* However the transactions interleave, fail or roll back, what they commit is
\* what the same calls do one at a time (Spec of InboxLedger).
Serializable == Spec

\* While a handler runs its transaction owns the identity, so no second handler
\* runs for it, and the generation it runs for is neither completed nor closed:
\* the decision taken before the handler is still right when it returns.
HandlerExclusive ==
    \A t \in Workers : \A k \in tx[t].active :
        /\ owner[k] = {t}
        /\ ~Completed(db[k])
        /\ tx[t].op # "Process" => ~Closed(db[k], Slot(t, k))

\* t waits for a lock or an uncommitted insert that u holds.
WaitsFor(t, u) ==
    /\ tx[t].pc \in {"insert", "lock"} /\ tx[t].todo # {}
    /\ LET k == Pending(t)
       IN  /\ owner[k] = {u} /\ u # t
           /\ Present(db[k]) <=> tx[t].pc = "lock"

\* Batches, retention and single deliveries never wait for each other in a
\* circle, even where the database collates identities in another order than Go
\* sorts the batch inserts.
NoDeadlock ==
    \A ts \in (SUBSET Workers) \ {{}} : \E t \in ts : \A u \in ts : ~WaitsFor(t, u)
=============================================================================
