----------------------------- MODULE InboxProofs -----------------------------
(***************************************************************************)
(* Why concurrent transactions of the Inbox are serializable, for every    *)
(* number of workers, identities and deliveries.  A transaction reads and  *)
(* writes only rows whose lock it holds, so what it decided from its view  *)
(* still holds of the committed rows when it commits, and each commit is   *)
(* one step of InboxLedger; every other step leaves db and effects alone.  *)
(***************************************************************************)
EXTENDS Inbox, InboxLedgerProofs

\* A leaf goes to the SMT solver unless it names another prover.
USE SMTT(30)

Single == {"Process", "ProcessAttempt", "ForgetAttempt", "ConfirmTerminalHandoff"}

\* The locks: free or held by one worker, and every transaction a record.
LockShape ==
    /\ owner = [k \in Keys |-> owner[k]]
    /\ \A k \in Keys : owner[k] # {} => \E t \in Workers : owner[k] = {t}

TxShape ==
    /\ tx = [t \in Workers |-> tx[t]]
    /\ \A t \in Workers :
          /\ tx[t] = [pc |-> tx[t].pc, op |-> tx[t].op, items |-> tx[t].items,
                      arg |-> tx[t].arg, todo |-> tx[t].todo, fresh |-> tx[t].fresh,
                      view |-> tx[t].view, active |-> tx[t].active, plan |-> tx[t].plan]
          /\ tx[t].view = [k \in Keys |-> tx[t].view[k]]
          /\ tx[t].plan = [k \in Keys |-> tx[t].plan[k]]

\* What a call was started with.
CallInv(t) ==
    tx[t].pc # "idle" =>
        /\ tx[t].op \in Ops
        /\ DOMAIN tx[t].items \subseteq Keys
        /\ tx[t].op \in Single =>
              \E k \in Keys : DOMAIN tx[t].items = {k} /\ tx[t].items[k] \in SingleItem
        /\ tx[t].op = "ProcessBatchAttempt" =>
              \A k \in DOMAIN tx[t].items : tx[t].items[k] \in Groups
        /\ tx[t].op = "PruneTerminalAttempts" => tx[t].items \in [Keys -> SUBSET Slots]
        /\ tx[t].op \in {"ProcessAttempt", "ProcessBatchAttempt"} => tx[t].arg \in Limits
        /\ tx[t].op \in {"ConfirmTerminalHandoff", "PruneTerminalAttempts"} =>
              tx[t].arg \in Times

\* Which identities a transaction holds in each phase.
PhaseInv(t) ==
    /\ tx[t].pc \in {"idle", "insert", "lock", "handler"}
    /\ tx[t].pc = "idle" => Held(t) = {}
    /\ tx[t].pc # "handler" => tx[t].active = {}
    /\ tx[t].pc \in {"insert", "handler"} => tx[t].op \in HandlerOps
    /\ tx[t].pc = "insert" => tx[t].todo # {} /\ Held(t) = tx[t].fresh
    /\ tx[t].todo \subseteq DOMAIN tx[t].items
    /\ tx[t].fresh \subseteq Held(t)
    /\ Held(t) \subseteq DOMAIN tx[t].items

\* Identities are inserted and locked in ascending order.
OrderInv(t) ==
    /\ tx[t].pc = "insert" =>
          \A j \in Held(t), k \in tx[t].todo : GoOrder[j] < GoOrder[k]
    /\ tx[t].pc = "lock" =>
          \A j \in Held(t) \ tx[t].fresh, k \in tx[t].todo : DbOrder[j] < DbOrder[k]

\* A row that retention has worked on is the committed one without some slots
\* that were confirmed before the cutoff.
Pruned(q, r, before) ==
    \E gone \in SUBSET Slots :
        /\ \A s \in gone : ~Completed(r) /\ ConfirmedBefore(r, s, before)
        /\ q = PruneSlots(r, gone)

\* The view of a held identity is the committed row, or the row inserted for it
\* where nothing is committed.
ViewInv(t) ==
    \A k \in Held(t) :
        IF k \in tx[t].fresh
        THEN /\ ~Present(db[k])
             /\ tx[t].op \in HandlerOps
             /\ tx[t].view[k] = InsertIdentity(db[k], tx[t].items[k].first)
        ELSE /\ Present(db[k])
             /\ IF tx[t].op = "PruneTerminalAttempts"
                THEN Pruned(tx[t].view[k], db[k], tx[t].arg)
                ELSE tx[t].view[k] = db[k]
             /\ tx[t].op = "Prune" => Completed(db[k])

\* While a handler runs, what was decided before it still follows from the view.
HandlerInv(t) ==
    tx[t].pc = "handler" =>
        /\ tx[t].op = "Process" =>
              /\ tx[t].active = Held(t)
              /\ \A k \in Held(t) : HandleExisting(tx[t].view[k], tx[t].items[k].first)
        /\ tx[t].op = "ProcessAttempt" =>
              /\ tx[t].active = Held(t)
              /\ \A k \in Held(t) :
                    /\ tx[t].view[k].ident.fp = tx[t].items[k].first
                    /\ ~Completed(tx[t].view[k])
                    /\ tx[t].plan[k] = AttemptDecision(t, k)
                    /\ tx[t].plan[k].closed = ""
        /\ tx[t].op = "ProcessBatchAttempt" => tx[t].active = BatchActive(t)

WorkerInv(t) ==
    CallInv(t) /\ PhaseInv(t) /\ OrderInv(t) /\ ViewInv(t) /\ HandlerInv(t)

TxInv == /\ IInv
         /\ LockShape
         /\ TxShape
         /\ \A t \in Workers : WorkerInv(t)

-----------------------------------------------------------------------------
(* The next identity of a transaction is one it still has to come to, and   *)
(* it precedes the others.                                                  *)

\* A set of identities has a first one in either order.
LEMMA FirstIsLeast ==
    ASSUME NEW order, Sorts(order), NEW ks \in SUBSET Keys, ks # {}
    PROVE  /\ First(order, ks) \in ks
           /\ \A j \in ks \ {First(order, ks)} : order[First(order, ks)] < order[j]
<1>1. \E k \in ks : \A j \in ks : order[k] <= order[j]
  BY DEF Sorts
<1>2. First(order, ks) \in ks /\ \A j \in ks : order[First(order, ks)] <= order[j]
  BY <1>1 DEF First
<1> QED
  BY <1>2 DEF Sorts

\* A transaction comes to an identity of its list, and everything else on it
\* ranks higher in the order of the phase.
LEMMA PendingIsNext ==
    ASSUME TxInv, NEW t \in Workers, tx[t].pc \in {"insert", "lock"}, tx[t].todo # {}
    PROVE  /\ Pending(t) \in tx[t].todo
           /\ Pending(t) \in Keys
           /\ tx[t].pc = "insert" =>
                 \A j \in tx[t].todo \ {Pending(t)} : GoOrder[Pending(t)] < GoOrder[j]
           /\ tx[t].pc = "lock" =>
                 \A j \in tx[t].todo \ {Pending(t)} : DbOrder[Pending(t)] < DbOrder[j]
<1>1. tx[t].todo \in SUBSET Keys
  BY DEF TxInv, WorkerInv, CallInv, PhaseInv
<1> QED
  BY <1>1, FirstIsLeast, OrderAssumption DEF Pending

-----------------------------------------------------------------------------
(* Transactions do not disturb each other.                                  *)

\* A step of worker u: it moves its own transaction, takes free locks, gives
\* back its own, and commits to the rows it holds.
Apart(u) ==
    /\ tx' = [t \in Workers |-> tx'[t]]
    /\ \A t \in Workers \ {u} : tx'[t] = tx[t]
    /\ owner' = [k \in Keys |-> owner'[k]]
    /\ \A k \in Keys : \/ owner'[k] = owner[k]
                       \/ owner[k] \in {{}, {u}} /\ owner'[k] \in {{}, {u}}
    /\ \A k \in Keys : owner[k] # {u} => db'[k] = db[k]

\* What holds of a transaction still holds after a step of another one.
LEMMA OthersKeep ==
    ASSUME TxInv, NEW u \in Workers, Apart(u), NEW t \in Workers, t # u
    PROVE  WorkerInv(t)'
<1>1. tx'[t] = tx[t]
  BY DEF Apart
<1>2. Held(t)' = Held(t)
  <2>1. \A k \in Keys : owner'[k] = {t} <=> owner[k] = {t}
    BY DEF Apart
  <2> QED
    BY <2>1 DEF Held
<1>3. \A k \in Held(t) : db'[k] = db[k]
  BY DEF Apart, Held
<1>4. WorkerInv(t)
  BY DEF TxInv
<1>5. CallInv(t)'
  BY <1>1, <1>4 DEF WorkerInv, CallInv
<1>6. PhaseInv(t)'
  BY <1>1, <1>2, <1>4 DEF WorkerInv, PhaseInv
<1>7. OrderInv(t)'
  BY <1>1, <1>2, <1>4 DEF WorkerInv, OrderInv
<1>8. ViewInv(t)'
  BY <1>1, <1>2, <1>3, <1>4 DEF WorkerInv, ViewInv
<1>9. HandlerInv(t)'
  <2>1. \A k : AttemptDecision(t, k)' = AttemptDecision(t, k)
    BY <1>1 DEF AttemptDecision, Slot
  <2>2. BatchActive(t)' = BatchActive(t)
    BY <1>1, <1>2 DEF BatchActive, BatchMatches, Slot
  <2> QED
    BY ZenonT(30), <1>1, <1>2, <1>4, <2>1, <2>2 DEF WorkerInv, HandlerInv
<1> QED
  BY <1>5, <1>6, <1>7, <1>8, <1>9 DEF WorkerInv

\* A transaction record keeps its shape.
Recorded(x) ==
    /\ x = [pc |-> x.pc, op |-> x.op, items |-> x.items, arg |-> x.arg, todo |-> x.todo,
            fresh |-> x.fresh, view |-> x.view, active |-> x.active, plan |-> x.plan]
    /\ x.view = [k \in Keys |-> x.view[k]]
    /\ x.plan = [k \in Keys |-> x.plan[k]]

\* It is enough to look at the worker that moves.
LEMMA OneMoves ==
    ASSUME TxInv, IInv', NEW u \in Workers, Apart(u), Recorded(tx'[u]), WorkerInv(u)'
    PROVE  TxInv'
<1>1. LockShape'
  BY ZenonT(30) DEF TxInv, LockShape, Apart
<1>2. TxShape'
  BY DEF TxInv, TxShape, Apart, Recorded
<1>3. \A t \in Workers : WorkerInv(t)'
  BY OthersKeep
<1> QED
  BY <1>1, <1>2, <1>3 DEF TxInv

-----------------------------------------------------------------------------
(* Steps that commit nothing.                                               *)

\* The ledger's invariant is about what is committed.
LEMMA NothingCommitted ==
    ASSUME TxInv, UNCHANGED <<db, effects>>
    PROVE  IInv'
BY DEF TxInv, IInv

\* A transaction that is over, or was never begun, is idle in every respect.
LEMMA IdleTx ==
    /\ Recorded(Idle)
    /\ Idle.pc = "idle" /\ Idle.op = "" /\ Idle.items = NoItems /\ Idle.todo = {}
    /\ Idle.fresh = {} /\ Idle.active = {} /\ Idle.view = NoView /\ Idle.plan = NoPlan
<1>1. /\ Idle.pc = "idle" /\ Idle.op = "" /\ Idle.items = NoItems /\ Idle.todo = {}
      /\ Idle.fresh = {} /\ Idle.active = {} /\ Idle.view = NoView /\ Idle.plan = NoPlan
      /\ Idle.arg = 0
  BY DEF Idle
<1>2. NoView = [k \in Keys |-> NoView[k]] /\ NoPlan = [k \in Keys |-> NoPlan[k]]
  BY DEF NoView, NoPlan
<1>3. Idle = [pc |-> Idle.pc, op |-> Idle.op, items |-> Idle.items, arg |-> Idle.arg,
              todo |-> Idle.todo, fresh |-> Idle.fresh, view |-> Idle.view,
              active |-> Idle.active, plan |-> Idle.plan]
  BY ZenonT(30), <1>1 DEF Idle
<1> QED
  BY ZenonT(30), <1>1, <1>2, <1>3 DEF Recorded

\* Before any call nothing is held.
LEMMA TxStart == TxInit => TxInv
<1> SUFFICES ASSUME TxInit PROVE TxInv
  OBVIOUS
<1>1. IInv
  <2>1. \A k \in Keys : db[k] = NoRows /\ effects[k] = 0
    BY DEF TxInit, Init
  <2>2. NoRows \in Rows
    BY NoRowsKept DEF Kept, WellFormed
  <2> QED
    BY <2>1, <2>2, NoRowsKept DEF TxInit, Init, IInv
<1>2. LockShape
  BY DEF TxInit, LockShape
<1>3. TxShape
  BY ZenonT(30), IdleTx DEF TxInit, TxShape, Recorded
<1>4. ASSUME NEW t \in Workers PROVE WorkerInv(t)
  <2>1. tx[t] = Idle /\ Held(t) = {}
    BY DEF TxInit, Held
  <2> QED
    BY ZenonT(30), <2>1, IdleTx DEF WorkerInv, CallInv, PhaseInv, OrderInv, ViewInv,
        HandlerInv
<1> QED
  BY <1>1, <1>2, <1>3, <1>4 DEF TxInv

\* Ending a transaction, by a commit or a rollback, frees its locks.
LEMMA EndsKeep ==
    ASSUME TxInv, IInv', NEW u \in Workers, Release(u), tx' = [tx EXCEPT ![u] = Idle],
           \A k \in Keys : owner[k] # {u} => db'[k] = db[k]
    PROVE  TxInv'
<1>1. tx'[u] = Idle /\ \A t \in Workers \ {u} : tx'[t] = tx[t]
  BY DEF TxInv, TxShape
<1>2. tx' = [t \in Workers |-> tx'[t]]
  BY DEF TxInv, TxShape
<1>3. \A k \in Keys : owner'[k] = owner[k] \ {u}
  BY DEF Release
<1>4. Apart(u)
  <2>1. \A k \in Keys : owner'[k] = owner[k] \/ (owner[k] = {u} /\ owner'[k] = {})
    BY <1>3 DEF TxInv, LockShape
  <2> QED
    BY <1>1, <1>2, <2>1 DEF Apart, Release
<1>5. Held(u)' = {}
  BY <1>3 DEF Held
<1>6. WorkerInv(u)'
  BY ZenonT(30), <1>1, <1>5, IdleTx DEF WorkerInv, CallInv, PhaseInv, OrderInv, ViewInv,
      HandlerInv
<1>7. Recorded(tx'[u])
  BY ZenonT(30), <1>1, IdleTx
<1> QED
  BY <1>4, <1>6, <1>7, OneMoves

\* Rollback discards a transaction.
LEMMA RollbackKeeps ==
    ASSUME TxInv, NEW t \in Workers, Rollback(t)
    PROVE  TxInv'
BY ZenonT(30), NothingCommitted, EndsKeep DEF Rollback

\* What a call is started with is what CallInv says.
LEMMA StartKeeps ==
    ASSUME TxInv, NEW t \in Workers, tx[t].pc = "idle", UNCHANGED <<db, effects, owner>>,
           NEW op \in Ops, NEW pc \in {"insert", "lock"}, NEW items, NEW arg,
           NEW todo \in SUBSET DOMAIN items,
           Start(t, op, pc, items, arg, todo),
           pc = "insert" => op \in HandlerOps /\ todo # {},
           DOMAIN items \subseteq Keys,
           op \in Single => \E k \in Keys : DOMAIN items = {k} /\ items[k] \in SingleItem,
           op = "ProcessBatchAttempt" => \A k \in DOMAIN items : items[k] \in Groups,
           op = "PruneTerminalAttempts" => items \in [Keys -> SUBSET Slots],
           op \in {"ProcessAttempt", "ProcessBatchAttempt"} => arg \in Limits,
           op \in {"ConfirmTerminalHandoff", "PruneTerminalAttempts"} => arg \in Times
    PROVE  TxInv'
<1> DEFINE x == [pc |-> pc, op |-> op, items |-> items, arg |-> arg, todo |-> todo,
                 fresh |-> {}, view |-> NoView, active |-> {}, plan |-> NoPlan]
<1>1. tx' = [tx EXCEPT ![t] = x]
  BY DEF Start
<1>2. tx'[t] = x /\ (\A u \in Workers \ {t} : tx'[u] = tx[u]) /\ tx' = [u \in Workers |-> tx'[u]]
  BY ZenonT(30), <1>1 DEF TxInv, TxShape
<1>3. Held(t)' = {}
  BY DEF TxInv, WorkerInv, PhaseInv, Held
<1>4. Apart(t)
  BY ZenonT(30), <1>2 DEF Apart, TxInv, LockShape
<1>5. Recorded(tx'[t])
  <2>1. NoView = [k \in Keys |-> NoView[k]] /\ NoPlan = [k \in Keys |-> NoPlan[k]]
    BY DEF NoView, NoPlan
  <2> QED
    BY <1>2, <2>1 DEF Recorded
<1>6. CallInv(t)'
  <2>1. tx'[t].op = op /\ tx'[t].items = items /\ tx'[t].arg = arg
    BY <1>2
  <2> HIDE DEF x
  <2> QED
    BY ZenonT(30), <2>1 DEF CallInv
<1>7. PhaseInv(t)' /\ OrderInv(t)' /\ ViewInv(t)' /\ HandlerInv(t)'
  BY <1>2, <1>3 DEF PhaseInv, OrderInv, ViewInv, HandlerInv
<1> QED
  BY <1>4, <1>5, <1>6, <1>7, OneMoves, NothingCommitted DEF WorkerInv

\* Every call of the store starts well.
LEMMA BeginKeeps ==
    ASSUME TxInv, NEW t \in Workers, Begin(t)
    PROVE  TxInv'
<1> USE DEF Begin, HandlerOps, Single
<1>1. CASE "Process" \in Ops /\ BeginProcess(t)
  <2>1. PICK k \in Keys, item \in SingleItem :
           Start(t, "Process", "insert", [y \in {k} |-> item], 0, {k})
    BY ZenonT(30), <1>1 DEF BeginProcess
  <2> DEFINE items == [y \in {k} |-> item]
  <2>2. DOMAIN items = {k} /\ items[k] = item
    OBVIOUS
  <2>3. Start(t, "Process", "insert", items, 0, {k})
    BY <2>1
  <2> HIDE DEF items
  <2> QED
    BY ZenonT(30), <1>1, <2>2, <2>3, StartKeeps
<1>2. CASE "ProcessAttempt" \in Ops /\ BeginProcessAttempt(t)
  <2>1. PICK k \in Keys, item \in SingleItem, max \in Limits :
           Start(t, "ProcessAttempt", "insert", [y \in {k} |-> item], max, {k})
    BY ZenonT(30), <1>2 DEF BeginProcessAttempt
  <2> DEFINE items == [y \in {k} |-> item]
  <2>2. DOMAIN items = {k} /\ items[k] = item
    OBVIOUS
  <2>3. Start(t, "ProcessAttempt", "insert", items, max, {k})
    BY <2>1
  <2> HIDE DEF items
  <2> QED
    BY ZenonT(30), <1>2, <2>2, <2>3, StartKeeps
<1>3. CASE "ProcessBatchAttempt" \in Ops /\ BeginProcessBatch(t)
  <2>1. PICK ks \in (SUBSET Keys) \ {{}}, max \in Limits :
           \E items \in [ks -> Groups] : Start(t, "ProcessBatchAttempt", "insert", items, max, ks)
    BY ZenonT(30), <1>3 DEF BeginProcessBatch
  <2>2. PICK items \in [ks -> Groups] : Start(t, "ProcessBatchAttempt", "insert", items, max, ks)
    BY <2>1
  <2>3. DOMAIN items = ks /\ ks # {} /\ \A k \in DOMAIN items : items[k] \in Groups
    OBVIOUS
  <2> QED
    BY <1>3, <2>2, <2>3, StartKeeps
<1>4. CASE "ForgetAttempt" \in Ops /\ BeginForget(t)
  <2>1. PICK k \in Keys, item \in SingleItem :
           Start(t, "ForgetAttempt", "lock", [y \in {k} |-> item], 0, {k})
    BY ZenonT(30), <1>4 DEF BeginForget
  <2> DEFINE items == [y \in {k} |-> item]
  <2>2. DOMAIN items = {k} /\ items[k] = item
    OBVIOUS
  <2>3. Start(t, "ForgetAttempt", "lock", items, 0, {k})
    BY <2>1
  <2> HIDE DEF items
  <2> QED
    BY ZenonT(30), <1>4, <2>2, <2>3, StartKeeps
<1>5. CASE "ConfirmTerminalHandoff" \in Ops /\ BeginConfirm(t)
  <2>1. PICK k \in Keys, item \in SingleItem, now \in Times :
           Start(t, "ConfirmTerminalHandoff", "lock", [y \in {k} |-> item], now, {k})
    BY ZenonT(30), <1>5 DEF BeginConfirm
  <2> DEFINE items == [y \in {k} |-> item]
  <2>2. DOMAIN items = {k} /\ items[k] = item
    OBVIOUS
  <2>3. Start(t, "ConfirmTerminalHandoff", "lock", items, now, {k})
    BY ZenonT(30), <2>1
  <2> HIDE DEF items
  <2> QED
    BY ZenonT(30), <1>5, <2>2, <2>3, StartKeeps
<1>6. CASE "PruneTerminalAttempts" \in Ops /\ BeginPruneTerminal(t)
  BY <1>6, StartKeeps DEF BeginPruneTerminal
<1>7. CASE "Prune" \in Ops /\ BeginPrune(t)
  BY <1>7, StartKeeps DEF BeginPrune
<1> QED
  BY <1>1, <1>2, <1>3, <1>4, <1>5, <1>6, <1>7

\* One transaction is replaced by another record.
Replaces(t, x) ==
    /\ tx'[t] = x
    /\ \A u \in Workers \ {t} : tx'[u] = tx[u]
    /\ tx' = [u \in Workers |-> tx'[u]]

\* The insert statement moves on in the identities and nothing else.
LEMMA AfterInsertMoves ==
    ASSUME TxInv, NEW t \in Workers, NEW fresh, NEW view, AfterInsert(t, fresh, view)
    PROVE  Replaces(t, [pc |-> IF tx[t].todo \ {Pending(t)} = {} THEN "lock" ELSE "insert",
                        op |-> tx[t].op, items |-> tx[t].items, arg |-> tx[t].arg,
                        todo |-> IF tx[t].todo \ {Pending(t)} = {}
                                 THEN DOMAIN tx[t].items \ fresh
                                 ELSE tx[t].todo \ {Pending(t)},
                        fresh |-> fresh, view |-> view, active |-> tx[t].active,
                        plan |-> tx[t].plan])
<1> DEFINE rest == tx[t].todo \ {Pending(t)}
           old  == DOMAIN tx[t].items \ fresh
           pc   == IF rest = {} THEN "lock" ELSE "insert"
           todo == IF rest = {} THEN old ELSE rest
<1>1. tx' = [tx EXCEPT ![t].fresh = fresh, ![t].view = view, ![t].pc = pc, ![t].todo = todo]
  BY ZenonT(30) DEF AfterInsert
<1> HIDE DEF rest, old, pc, todo
<1>2. /\ tx'[t] = [tx[t] EXCEPT !.fresh = fresh, !.view = view, !.pc = pc, !.todo = todo]
      /\ \A u \in Workers \ {t} : tx'[u] = tx[u]
      /\ tx' = [u \in Workers |-> tx'[u]]
  BY ZenonT(30), <1>1 DEF TxInv, TxShape
<1>3. tx'[t] = [pc |-> pc, op |-> tx[t].op, items |-> tx[t].items, arg |-> tx[t].arg,
                todo |-> todo, fresh |-> fresh, view |-> view, active |-> tx[t].active,
                plan |-> tx[t].plan]
  BY ZenonT(30), <1>2 DEF TxInv, TxShape
<1> QED
  BY ZenonT(30), <1>2, <1>3 DEF Replaces, rest, old, pc, todo

\* Taking one more identity: a lock that was free is now held.
LEMMA TakesOne ==
    ASSUME TxInv, NEW t \in Workers, NEW k \in Keys, owner[k] = {},
           owner' = [owner EXCEPT ![k] = {t}], UNCHANGED db, NEW x, Replaces(t, x)
    PROVE  /\ Held(t)' = Held(t) \cup {k}
           /\ k \notin Held(t)
           /\ Apart(t)
<1>1. \A j \in Keys : owner'[j] = IF j = k THEN {t} ELSE owner[j]
  BY DEF TxInv, LockShape
<1>2. owner' = [j \in Keys |-> owner'[j]]
  BY DEF TxInv, LockShape
<1> QED
  BY <1>1, <1>2 DEF Held, Apart, Replaces

\* Inserting a row nobody has.
LEMMA InsertNewKeeps ==
    ASSUME TxInv, NEW t \in Workers, InsertNew(t)
    PROVE  TxInv'
<1> DEFINE k     == Pending(t)
           r     == InsertIdentity(db[k], tx[t].items[k].first)
           fresh == tx[t].fresh \cup {k}
           view  == [tx[t].view EXCEPT ![k] = r]
           rest  == tx[t].todo \ {k}
           todo  == IF rest = {} THEN DOMAIN tx[t].items \ fresh ELSE rest
           pc    == IF rest = {} THEN "lock" ELSE "insert"
           x     == [pc |-> pc, op |-> tx[t].op, items |-> tx[t].items, arg |-> tx[t].arg,
                     todo |-> todo, fresh |-> fresh, view |-> view,
                     active |-> tx[t].active, plan |-> tx[t].plan]
<1>1. /\ tx[t].pc = "insert" /\ ~Present(db[k]) /\ owner[k] = {}
      /\ owner' = [owner EXCEPT ![k] = {t}]
      /\ AfterInsert(t, fresh, view)
      /\ UNCHANGED <<db, effects>>
  BY ZenonT(30) DEF InsertNew
<1>2. WorkerInv(t) /\ Recorded(tx[t])
  BY DEF TxInv, TxShape, Recorded
<1>3. k \in tx[t].todo /\ k \in Keys /\ \A j \in rest : GoOrder[k] < GoOrder[j]
  BY ZenonT(30), <1>1, <1>2, PendingIsNext DEF WorkerInv, PhaseInv
<1>4. Replaces(t, x)
  BY ZenonT(30), <1>1, AfterInsertMoves
<1>5. /\ tx'[t].pc = pc /\ tx'[t].op = tx[t].op /\ tx'[t].items = tx[t].items
      /\ tx'[t].arg = tx[t].arg /\ tx'[t].todo = todo /\ tx'[t].fresh = fresh
      /\ tx'[t].view = view /\ tx'[t].active = tx[t].active /\ tx'[t].plan = tx[t].plan
  BY <1>4 DEF Replaces
<1>6. Held(t)' = Held(t) \cup {k} /\ k \notin Held(t) /\ Apart(t)
  BY ZenonT(30), <1>1, <1>3, <1>4, TakesOne
<1>7. view = [j \in Keys |-> view[j]] /\ view[k] = r /\ \A j \in Keys \ {k} : view[j] = tx[t].view[j]
  BY ZenonT(30), <1>2, <1>3 DEF Recorded
<1>8. Recorded(tx'[t])
  BY ZenonT(30), <1>2, <1>4, <1>5, <1>7 DEF Recorded, Replaces
<1> HIDE DEF k, r, view, x
<1>9. CallInv(t)'
  BY ZenonT(30), <1>1, <1>2, <1>5 DEF WorkerInv, CallInv
<1>10. PhaseInv(t)'
  BY ZenonT(30), <1>1, <1>2, <1>3, <1>5, <1>6 DEF WorkerInv, PhaseInv
<1>11. OrderInv(t)'
  BY ZenonT(30), <1>1, <1>2, <1>3, <1>5, <1>6 DEF WorkerInv, PhaseInv, OrderInv
<1>12. ViewInv(t)'
  BY ZenonT(30), <1>1, <1>2, <1>3, <1>5, <1>6, <1>7 DEF WorkerInv, PhaseInv, ViewInv, r, Held
<1>13. HandlerInv(t)'
  BY ZenonT(30), <1>5 DEF HandlerInv
<1> QED
  BY <1>1, <1>6, <1>8, <1>9, <1>10, <1>11, <1>12, <1>13, NothingCommitted, OneMoves
     DEF WorkerInv

\* A step that neither takes a lock nor commits.
LEMMA HoldsStill ==
    ASSUME TxInv, NEW t \in Workers, UNCHANGED <<db, owner>>, NEW x, Replaces(t, x)
    PROVE  Held(t)' = Held(t) /\ Apart(t)
BY DEF Held, Apart, Replaces, TxInv, LockShape

\* Skipping a row that is already there: the transaction holds nothing more.
LEMMA InsertConflictKeeps ==
    ASSUME TxInv, NEW t \in Workers, InsertConflict(t)
    PROVE  TxInv'
<1> DEFINE k     == Pending(t)
           rest  == tx[t].todo \ {k}
           todo  == IF rest = {} THEN DOMAIN tx[t].items \ tx[t].fresh ELSE rest
           pc    == IF rest = {} THEN "lock" ELSE "insert"
           x     == [pc |-> pc, op |-> tx[t].op, items |-> tx[t].items, arg |-> tx[t].arg,
                     todo |-> todo, fresh |-> tx[t].fresh, view |-> tx[t].view,
                     active |-> tx[t].active, plan |-> tx[t].plan]
<1>1. /\ tx[t].pc = "insert"
      /\ AfterInsert(t, tx[t].fresh, tx[t].view)
      /\ UNCHANGED <<db, effects, owner>>
  BY DEF InsertConflict
<1>2. WorkerInv(t) /\ Recorded(tx[t])
  BY ZenonT(30) DEF TxInv, TxShape, Recorded
<1>3. Replaces(t, x)
  BY <1>1, AfterInsertMoves
<1>4. /\ tx'[t].pc = pc /\ tx'[t].op = tx[t].op /\ tx'[t].items = tx[t].items
      /\ tx'[t].arg = tx[t].arg /\ tx'[t].todo = todo /\ tx'[t].fresh = tx[t].fresh
      /\ tx'[t].view = tx[t].view /\ tx'[t].active = tx[t].active /\ tx'[t].plan = tx[t].plan
  BY <1>3 DEF Replaces
<1>5. Held(t)' = Held(t) /\ Apart(t)
  BY ZenonT(30), <1>1, <1>3, HoldsStill
<1>6. Recorded(tx'[t])
  BY ZenonT(30), <1>2, <1>3, <1>4 DEF Recorded, Replaces
<1> HIDE DEF k, x
<1>7. CallInv(t)'
  BY ZenonT(30), <1>1, <1>2, <1>4 DEF WorkerInv, CallInv
<1>8. PhaseInv(t)'
  BY ZenonT(30), <1>1, <1>2, <1>4, <1>5 DEF WorkerInv, PhaseInv
<1>9. OrderInv(t)'
  BY ZenonT(30), <1>1, <1>2, <1>4, <1>5 DEF WorkerInv, PhaseInv, OrderInv
<1>10. ViewInv(t)'
  BY ZenonT(30), <1>1, <1>2, <1>4, <1>5 DEF WorkerInv, ViewInv
<1>11. HandlerInv(t)'
  BY ZenonT(30), <1>4 DEF HandlerInv
<1> QED
  BY <1>1, <1>5, <1>6, <1>7, <1>8, <1>9, <1>10, <1>11, NothingCommitted, OneMoves
      DEF WorkerInv

\* Retention that has removed nothing leaves the rows as they are.
LEMMA PruneNothing ==
    ASSUME NEW r \in Rows
    PROVE  PruneSlots(r, {}) = r
BY DEF PruneSlots, Rows

\* SELECT ... FOR UPDATE gives the committed row.
LEMMA LockIdentityKeeps ==
    ASSUME TxInv, NEW t \in Workers, LockIdentity(t)
    PROVE  TxInv'
<1> DEFINE k     == Pending(t)
           view  == [tx[t].view EXCEPT ![k] = db[k]]
           rest  == tx[t].todo \ {k}
           x     == [pc |-> "lock", op |-> tx[t].op, items |-> tx[t].items, arg |-> tx[t].arg,
                     todo |-> rest, fresh |-> tx[t].fresh, view |-> view,
                     active |-> tx[t].active, plan |-> tx[t].plan]
<1>1. /\ tx[t].pc = "lock" /\ tx[t].todo # {} /\ Present(db[k]) /\ owner[k] = {}
      /\ tx[t].op = "Prune" => Completed(db[k])
      /\ owner' = [owner EXCEPT ![k] = {t}]
      /\ tx' = [tx EXCEPT ![t].todo = @ \ {k}, ![t].view[k] = db[k]]
      /\ UNCHANGED <<db, effects>>
  BY DEF LockIdentity
<1>2. WorkerInv(t) /\ Recorded(tx[t])
  BY DEF TxInv, TxShape, Recorded
<1>3. k \in tx[t].todo /\ k \in Keys /\ \A j \in rest : DbOrder[k] < DbOrder[j]
  BY <1>1, PendingIsNext
<1>4. Replaces(t, x)
  <2> HIDE DEF k
  <2>1. tx = [u \in Workers |-> tx[u]]
    BY DEF TxInv, TxShape
  <2>2. /\ tx'[t] = [tx[t] EXCEPT !.todo = rest, !.view = view]
        /\ \A u \in Workers \ {t} : tx'[u] = tx[u]
        /\ tx' = [u \in Workers |-> tx'[u]]
    BY ZenonT(30), <1>1, <1>2, <2>1 DEF Recorded
  <2> HIDE DEF rest, view
  <2>3. tx'[t] = x
    BY ZenonT(30), <1>1, <1>2, <2>2 DEF Recorded
  <2> QED
    BY ZenonT(30), <2>2, <2>3 DEF Replaces
<1>5. /\ tx'[t].pc = "lock" /\ tx'[t].op = tx[t].op /\ tx'[t].items = tx[t].items
      /\ tx'[t].arg = tx[t].arg /\ tx'[t].todo = rest /\ tx'[t].fresh = tx[t].fresh
      /\ tx'[t].view = view /\ tx'[t].active = tx[t].active /\ tx'[t].plan = tx[t].plan
  BY <1>4 DEF Replaces
<1>6. Held(t)' = Held(t) \cup {k} /\ k \notin Held(t) /\ Apart(t)
  BY ZenonT(30), <1>1, <1>3, <1>4, TakesOne
<1>7. /\ view = [j \in Keys |-> view[j]] /\ view[k] = db[k]
      /\ \A j \in Keys \ {k} : view[j] = tx[t].view[j]
  BY <1>2, <1>3 DEF Recorded
<1>8. Recorded(tx'[t])
  BY ZenonT(30), <1>2, <1>4, <1>5, <1>7 DEF Recorded, Replaces
<1> HIDE DEF k, view, x
<1>9. CallInv(t)'
  BY ZenonT(30), <1>1, <1>2, <1>5 DEF WorkerInv, CallInv
<1>10. PhaseInv(t)'
  BY ZenonT(30), <1>1, <1>2, <1>3, <1>5, <1>6 DEF WorkerInv, PhaseInv
<1>11. OrderInv(t)'
  BY ZenonT(30), <1>1, <1>2, <1>3, <1>5, <1>6 DEF WorkerInv, PhaseInv, OrderInv
<1>12. ViewInv(t)'
  <2>1. Pruned(db[k], db[k], tx[t].arg)
    BY <1>3, PruneNothing DEF Pruned, TxInv, IInv
  <2>2. ViewInv(t) /\ k \notin tx[t].fresh /\ db' = db
    BY ZenonT(30), <1>1, <1>2, <1>6 DEF WorkerInv, PhaseInv
  <2>3. Held(t) \subseteq Keys
    BY ZenonT(30) DEF Held
  <2>4. ASSUME NEW j \in Held(t)', j # k
        PROVE  j \in Held(t) /\ tx'[t].view[j] = tx[t].view[j] /\ db'[j] = db[j]
    BY ZenonT(30), <1>5, <1>6, <1>7, <2>2, <2>3, <2>4
  <2> QED
    BY ZenonT(90), <1>1, <1>2, <1>3, <1>5, <1>6, <1>7, <2>1, <2>2, <2>4 DEF ViewInv
<1>13. HandlerInv(t)'
  BY ZenonT(30), <1>5 DEF HandlerInv
<1> QED
  BY ZenonT(30), <1>1, <1>6, <1>8, <1>9, <1>10, <1>11, <1>12, <1>13, NothingCommitted,
      OneMoves
     DEF WorkerInv

\* Retention drops an identity that is gone from its list.
LEMMA LockMissingKeeps ==
    ASSUME TxInv, NEW t \in Workers, LockMissing(t)
    PROVE  TxInv'
<1> DEFINE rest == tx[t].todo \ {Pending(t)}
           x    == [pc |-> "lock", op |-> tx[t].op, items |-> tx[t].items, arg |-> tx[t].arg,
                    todo |-> rest, fresh |-> tx[t].fresh, view |-> tx[t].view,
                    active |-> tx[t].active, plan |-> tx[t].plan]
<1>1. /\ tx[t].pc = "lock"
      /\ tx' = [tx EXCEPT ![t].todo = @ \ {Pending(t)}]
      /\ UNCHANGED <<db, effects, owner>>
  BY DEF LockMissing
<1>2. WorkerInv(t) /\ Recorded(tx[t])
  BY DEF TxInv, TxShape, Recorded
<1>3. Replaces(t, x)
  BY ZenonT(30), <1>1, <1>2 DEF TxInv, TxShape, Recorded, Replaces
<1>4. /\ tx'[t].pc = "lock" /\ tx'[t].op = tx[t].op /\ tx'[t].items = tx[t].items
      /\ tx'[t].arg = tx[t].arg /\ tx'[t].todo = rest /\ tx'[t].fresh = tx[t].fresh
      /\ tx'[t].view = tx[t].view /\ tx'[t].active = tx[t].active /\ tx'[t].plan = tx[t].plan
  BY <1>3 DEF Replaces
<1>5. Held(t)' = Held(t) /\ Apart(t)
  BY <1>1, <1>3, HoldsStill
<1>6. Recorded(tx'[t])
  BY ZenonT(30), <1>2, <1>3, <1>4 DEF Recorded, Replaces
<1> HIDE DEF x
<1>7. CallInv(t)'
  BY <1>1, <1>2, <1>4 DEF WorkerInv, CallInv
<1>8. PhaseInv(t)' /\ OrderInv(t)'
  BY <1>1, <1>2, <1>4, <1>5 DEF WorkerInv, PhaseInv, OrderInv
<1>9. ViewInv(t)'
  BY <1>1, <1>2, <1>4, <1>5 DEF WorkerInv, ViewInv
<1>10. HandlerInv(t)'
  BY ZenonT(30), <1>4 DEF HandlerInv
<1> QED
  BY <1>1, <1>5, <1>6, <1>7, <1>8, <1>9, <1>10, NothingCommitted, OneMoves DEF WorkerInv

\* Starting the handler changes only the phase, the identities it runs for and
\* the decisions it rests on.
LEMMA HandlerStarts ==
    ASSUME TxInv, NEW t \in Workers, tx[t].pc = "lock", tx[t].op \in HandlerOps,
           UNCHANGED <<db, effects, owner>>, NEW active, NEW plan,
           plan = [k \in Keys |-> plan[k]],
           Replaces(t, [pc |-> "handler", op |-> tx[t].op, items |-> tx[t].items,
                        arg |-> tx[t].arg, todo |-> tx[t].todo, fresh |-> tx[t].fresh,
                        view |-> tx[t].view, active |-> active, plan |-> plan]),
           HandlerInv(t)'
    PROVE  TxInv'
<1> DEFINE x == [pc |-> "handler", op |-> tx[t].op, items |-> tx[t].items,
                 arg |-> tx[t].arg, todo |-> tx[t].todo, fresh |-> tx[t].fresh,
                 view |-> tx[t].view, active |-> active, plan |-> plan]
<1>1. WorkerInv(t) /\ Recorded(tx[t])
  BY DEF TxInv, TxShape, Recorded
<1>2. /\ tx'[t].pc = "handler" /\ tx'[t].op = tx[t].op /\ tx'[t].items = tx[t].items
      /\ tx'[t].arg = tx[t].arg /\ tx'[t].todo = tx[t].todo /\ tx'[t].fresh = tx[t].fresh
      /\ tx'[t].view = tx[t].view /\ tx'[t].active = active /\ tx'[t].plan = plan
      /\ tx'[t] = x
  BY DEF Replaces
<1>3. Held(t)' = Held(t) /\ Apart(t)
  BY ZenonT(30), HoldsStill
<1>4. Recorded(tx'[t])
  BY ZenonT(30), <1>1, <1>2 DEF Recorded
<1>5. CallInv(t)'
  BY ZenonT(30), <1>1, <1>2 DEF WorkerInv, CallInv
<1>6. PhaseInv(t)' /\ OrderInv(t)'
  BY <1>1, <1>2, <1>3 DEF WorkerInv, PhaseInv, OrderInv
<1>7. ViewInv(t)'
  BY ZenonT(30), <1>1, <1>2, <1>3 DEF WorkerInv, ViewInv
<1> QED
  BY <1>3, <1>4, <1>5, <1>6, <1>7, NothingCommitted, OneMoves DEF WorkerInv

\* A call about one identity that holds it holds nothing else, and has the
\* delivery it was started with.
LEMMA SingleHolds ==
    ASSUME TxInv, NEW t \in Workers, tx[t].pc # "idle", tx[t].op \in Single,
           NEW k \in Held(t)
    PROVE  /\ Held(t) = {k} /\ k \in Keys
           /\ tx[t].items[k] \in SingleItem
           /\ tx[t].items[k].first \in Fps /\ tx[t].items[k].gen \in Gens
<1>1. PICK j \in Keys : DOMAIN tx[t].items = {j} /\ tx[t].items[j] \in SingleItem
  BY ZenonT(30) DEF TxInv, WorkerInv, CallInv
<1>2. Held(t) \subseteq {j} /\ j = k
  BY ZenonT(30), <1>1 DEF TxInv, WorkerInv, PhaseInv
<1>3. Held(t) = {k}
  BY <1>2
<1>4. tx[t].items[k].first \in Fps /\ tx[t].items[k].gen \in Gens
  BY ZenonT(30), <1>1, <1>2 DEF SingleItem, Groups, Items
<1> QED
  BY <1>1, <1>2, <1>3, <1>4

\* The row a call works on, InsertIdentity's or the locked one, is what the
\* ledger opens for it.
LEMMA ViewIsOpened ==
    ASSUME TxInv, NEW t \in Workers, NEW k \in Held(t), tx[t].op # "PruneTerminalAttempts"
    PROVE  /\ tx[t].view[k] = Opened(k, tx[t].items[k].first)
           /\ k \in tx[t].fresh <=> ~Present(db[k])
           /\ k \in Keys
BY DEF TxInv, WorkerInv, ViewInv, Opened, Held

\* Process runs its handler where handleExisting lets it.
LEMMA ProcessDecidesKeeps ==
    ASSUME TxInv, NEW t \in Workers, ProcessDecides(t)
    PROVE  TxInv'
<1>1. PICK k \in Held(t) :
         /\ Ready(t, "Process")
         /\ \/ k \in tx[t].fresh
            \/ HandleExisting(tx[t].view[k], tx[t].items[k].first)
         /\ tx' = [tx EXCEPT ![t].pc = "handler", ![t].active = {k}]
         /\ UNCHANGED <<db, effects, owner>>
  BY ZenonT(30) DEF ProcessDecides, HandleExisting
<1>2. tx[t].pc = "lock" /\ tx[t].op = "Process" /\ tx[t].op \in Single /\ tx[t].op \in HandlerOps
  BY <1>1 DEF Ready, Single, HandlerOps
<1>3. Held(t) = {k} /\ k \in Keys /\ tx[t].items[k].first \in Fps
  BY ZenonT(30), <1>2, SingleHolds
<1>4. HandleExisting(tx[t].view[k], tx[t].items[k].first)
  <2> SUFFICES ASSUME k \in tx[t].fresh
               PROVE  HandleExisting(tx[t].view[k], tx[t].items[k].first)
    BY <1>1
  <2> DEFINE fp == tx[t].items[k].first
  <2>1. tx[t].view[k] = InsertIdentity(db[k], fp) /\ ~Present(db[k])
    BY ZenonT(30), <1>1, <1>2 DEF TxInv, WorkerInv, ViewInv
  <2>2. \A s \in Slots : db[k].att[s] = Null
    BY <1>3, <2>1 DEF TxInv, IInv, Kept, WellFormed, RowsOwned
  <2>3. /\ InsertIdentity(db[k], fp).ident = [fp |-> fp, completed |-> FALSE]
        /\ InsertIdentity(db[k], fp).att = db[k].att
    BY DEF InsertIdentity, WithIdent
  <2>4. ~Completed(tx[t].view[k]) /\ tx[t].view[k].ident.fp = fp
    BY <2>1, <2>3 DEF Completed
  <2>5. ~HasAttempts(tx[t].view[k])
    BY ZenonT(30), <2>1, <2>2, <2>3 DEF HasAttempts
  <2> QED
    BY ZenonT(30), <2>4, <2>5 DEF HandleExisting
<1>5. Replaces(t, [pc |-> "handler", op |-> tx[t].op, items |-> tx[t].items,
                   arg |-> tx[t].arg, todo |-> tx[t].todo, fresh |-> tx[t].fresh,
                   view |-> tx[t].view, active |-> {k}, plan |-> tx[t].plan])
  <2>1. /\ tx'[t] = [tx[t] EXCEPT !.pc = "handler", !.active = {k}]
        /\ \A u \in Workers \ {t} : tx'[u] = tx[u]
        /\ tx' = [u \in Workers |-> tx'[u]]
    BY ZenonT(30), <1>1 DEF TxInv, TxShape
  <2>2. tx[t] = [pc |-> tx[t].pc, op |-> tx[t].op, items |-> tx[t].items, arg |-> tx[t].arg,
                 todo |-> tx[t].todo, fresh |-> tx[t].fresh, view |-> tx[t].view,
                 active |-> tx[t].active, plan |-> tx[t].plan]
    BY ZenonT(30) DEF TxInv, TxShape
  <2> QED
    BY ZenonT(30), <2>1, <2>2 DEF Replaces
<1>6. HandlerInv(t)'
  <2>1. tx'[t].op = "Process" /\ tx'[t].items = tx[t].items /\ tx'[t].view = tx[t].view
        /\ tx'[t].active = {k}
    BY <1>2, <1>5 DEF Replaces
  <2>2. Held(t)' = {k}
    BY <1>1, <1>3, <1>5, HoldsStill
  <2> QED
    BY <1>4, <2>1, <2>2 DEF HandlerInv
<1> QED
  BY ZenonT(30), <1>1, <1>2, <1>5, <1>6, HandlerStarts DEF TxInv, TxShape

\* ProcessAttempt runs its handler with the attempt it decided on.
LEMMA AttemptRunsKeeps ==
    ASSUME TxInv, NEW t \in Workers, AttemptRuns(t)
    PROVE  TxInv'
<1>1. PICK k \in Held(t) :
         /\ AttemptMatches(t, k)
         /\ AttemptDecision(t, k).closed = ""
         /\ tx' = [tx EXCEPT ![t].pc = "handler", ![t].active = {k},
                             ![t].plan[k] = AttemptDecision(t, k)]
         /\ UNCHANGED <<db, effects, owner>>
  BY ZenonT(30) DEF AttemptRuns
<1> DEFINE d == AttemptDecision(t, k)
           plan == [tx[t].plan EXCEPT ![k] = d]
<1>0. tx' = [tx EXCEPT ![t].pc = "handler", ![t].active = {k}, ![t].plan[k] = d]
  BY ZenonT(30), <1>1
<1> HIDE DEF d
<1>2. /\ tx[t].pc = "lock" /\ tx[t].op = "ProcessAttempt"
      /\ tx[t].op \in Single /\ tx[t].op \in HandlerOps
      /\ tx[t].view[k].ident.fp = tx[t].items[k].first
      /\ ~Completed(tx[t].view[k])
  BY ZenonT(30), <1>1 DEF AttemptMatches, Ready, Single, HandlerOps
<1>3. Held(t) = {k} /\ k \in Keys
  BY <1>2, SingleHolds
<1>4. plan = [j \in Keys |-> plan[j]] /\ plan[k] = d
  BY ZenonT(30), <1>3 DEF TxInv, TxShape
<1>5. Replaces(t, [pc |-> "handler", op |-> tx[t].op, items |-> tx[t].items,
                   arg |-> tx[t].arg, todo |-> tx[t].todo, fresh |-> tx[t].fresh,
                   view |-> tx[t].view, active |-> {k}, plan |-> plan])
  <2>0. tx = [u \in Workers |-> tx[u]]
    BY DEF TxInv, TxShape
  <2>2. tx[t] = [pc |-> tx[t].pc, op |-> tx[t].op, items |-> tx[t].items, arg |-> tx[t].arg,
                 todo |-> tx[t].todo, fresh |-> tx[t].fresh, view |-> tx[t].view,
                 active |-> tx[t].active, plan |-> tx[t].plan]
    BY ZenonT(30) DEF TxInv, TxShape
  <2>1. /\ tx'[t] = [tx[t] EXCEPT !.pc = "handler", !.active = {k}, !.plan = plan]
        /\ \A u \in Workers \ {t} : tx'[u] = tx[u]
        /\ tx' = [u \in Workers |-> tx'[u]]
    BY ZenonT(30), <1>0, <2>0, <2>2
  <2> QED
    BY ZenonT(30), <2>1, <2>2 DEF Replaces
<1> HIDE DEF plan
<1>6. HandlerInv(t)'
  <2>1. /\ tx'[t].op = "ProcessAttempt" /\ tx'[t].items = tx[t].items
        /\ tx'[t].view = tx[t].view /\ tx'[t].active = {k} /\ tx'[t].plan = plan
        /\ tx'[t].fresh = tx[t].fresh /\ tx'[t].arg = tx[t].arg
    BY <1>2, <1>5 DEF Replaces
  <2>2. Held(t)' = {k}
    BY ZenonT(30), <1>1, <1>3, <1>5, HoldsStill
  <2>3. AttemptDecision(t, k)' = d
    BY <2>1 DEF AttemptDecision, Slot, d
  <2> QED
    BY ZenonT(30), <1>1, <1>2, <1>4, <2>1, <2>2, <2>3 DEF HandlerInv, d
<1> QED
  BY ZenonT(30), <1>1, <1>2, <1>4, <1>5, <1>6, HandlerStarts

\* A batch runs its handler for the items that are open.
LEMMA BatchStartsKeeps ==
    ASSUME TxInv, NEW t \in Workers, BatchStarts(t)
    PROVE  TxInv'
<1> DEFINE active == BatchActive(t)
<1> HIDE DEF active
<1>1. /\ tx[t].pc = "lock" /\ tx[t].op = "ProcessBatchAttempt"
      /\ tx' = [tx EXCEPT ![t].pc = "handler", ![t].active = active]
      /\ UNCHANGED <<db, effects, owner>>
  BY DEF BatchStarts, Ready, active
<1>2. Replaces(t, [pc |-> "handler", op |-> tx[t].op, items |-> tx[t].items,
                   arg |-> tx[t].arg, todo |-> tx[t].todo, fresh |-> tx[t].fresh,
                   view |-> tx[t].view, active |-> active, plan |-> tx[t].plan])
  <2>1. /\ tx'[t] = [tx[t] EXCEPT !.pc = "handler", !.active = active]
        /\ \A u \in Workers \ {t} : tx'[u] = tx[u]
        /\ tx' = [u \in Workers |-> tx'[u]]
    BY ZenonT(30), <1>1 DEF TxInv, TxShape
  <2>2. tx[t] = [pc |-> tx[t].pc, op |-> tx[t].op, items |-> tx[t].items, arg |-> tx[t].arg,
                 todo |-> tx[t].todo, fresh |-> tx[t].fresh, view |-> tx[t].view,
                 active |-> tx[t].active, plan |-> tx[t].plan]
    BY ZenonT(30) DEF TxInv, TxShape
  <2> QED
    BY ZenonT(30), <2>1, <2>2 DEF Replaces
<1>3. HandlerInv(t)'
  <2>1. /\ tx'[t].op = "ProcessBatchAttempt" /\ tx'[t].items = tx[t].items
        /\ tx'[t].view = tx[t].view /\ tx'[t].active = active /\ tx'[t].arg = tx[t].arg
    BY <1>1, <1>2 DEF Replaces
  <2>2. Held(t)' = Held(t)
    BY ZenonT(30), <1>1, <1>2, HoldsStill
  <2>3. BatchActive(t)' = BatchActive(t)
    BY <2>1, <2>2 DEF BatchActive, BatchMatches, Slot
  <2> QED
    BY <2>1, <2>3 DEF HandlerInv, active
<1> QED
  BY ZenonT(30), <1>1, <1>2, <1>3, HandlerStarts DEF HandlerOps, TxInv, TxShape

-----------------------------------------------------------------------------
(* Retention one candidate at a time.                                       *)

\* Removing one more confirmed slot under the lock is removing it with the
\* others: pruneCandidate tests the confirmation and the identity again.
LEMMA PruneOneMore ==
    ASSUME NEW r \in Rows, NEW q, NEW s \in Slots, NEW before, Pruned(q, r, before)
    PROVE  Pruned(PruneCandidate(q, s, before), r, before)
<1>1. PICK gone \in SUBSET Slots :
         /\ \A x \in gone : ~Completed(r) /\ ConfirmedBefore(r, x, before)
         /\ q = PruneSlots(r, gone)
  BY ZenonT(30) DEF Pruned
<1>2. CASE ~Present(q) \/ Completed(q) \/ ~ConfirmedBefore(q, s, before)
  BY <1>1, <1>2 DEF Pruned, PruneCandidate
<1>3. CASE Present(q) /\ ~Completed(q) /\ ConfirmedBefore(q, s, before)
  <2> DEFINE all  == gone \cup {s}
             left == [ident |-> r.ident,
                      att   |-> [x \in Slots |-> IF x \in all THEN Null ELSE r.att[x]],
                      term  |-> [x \in Slots |-> IF x \in all THEN Null ELSE r.term[x]]]
  <2>1. /\ q.ident = r.ident
        /\ q.att = [x \in Slots |-> IF x \in gone THEN Null ELSE r.att[x]]
        /\ q.term = [x \in Slots |-> IF x \in gone THEN Null ELSE r.term[x]]
    BY ZenonT(30), <1>1, <1>3 DEF PruneSlots, WithIdent, Present
  <2>2. ~Completed(r) /\ ConfirmedBefore(r, s, before)
    BY ZenonT(30), <1>3, <2>1 DEF Completed, ConfirmedBefore
  <2>3. Removed(q, s) = left
    <3>1. [q.att EXCEPT ![s] = Null] = left.att /\ [q.term EXCEPT ![s] = Null] = left.term
      BY ZenonT(30), <2>1
    <3> QED
      BY <2>1, <3>1 DEF Removed, WithAttempt, WithMarker
  <2>4. PruneSlots(r, all) = IF ~HasAttempts(left) /\ ~HasMarkers(left)
                             THEN WithIdent(left, Null) ELSE left
    BY ZenonT(30) DEF PruneSlots
  <2> HIDE DEF left
  <2>5. PruneCandidate(q, s, before) = PruneSlots(r, all)
    BY <1>3, <2>3, <2>4 DEF PruneCandidate
  <2>6. all \in SUBSET Slots /\ \A x \in all : ~Completed(r) /\ ConfirmedBefore(r, x, before)
    BY <1>1, <2>2
  <2> HIDE DEF all
  <2> QED
    BY ZenonT(30), <2>5, <2>6 DEF Pruned
<1> QED
  BY <1>2, <1>3

\* Removing a candidate touches one row of the view.
LEMMA PruneNextKeeps ==
    ASSUME TxInv, NEW t \in Workers, PruneNext(t)
    PROVE  TxInv'
<1>1. PICK k \in Held(t) : \E s \in tx[t].items[k] :
         tx' = [tx EXCEPT ![t].view[k] = PruneCandidate(@, s, tx[t].arg),
                          ![t].items[k] = @ \ {s}]
  BY ZenonT(30) DEF PruneNext
<1>2. PICK s \in tx[t].items[k] :
         tx' = [tx EXCEPT ![t].view[k] = PruneCandidate(@, s, tx[t].arg),
                          ![t].items[k] = @ \ {s}]
  BY ZenonT(30), <1>1
<1>3. /\ tx[t].pc = "lock" /\ tx[t].op = "PruneTerminalAttempts"
      /\ UNCHANGED <<db, effects, owner>>
  BY DEF PruneNext, Ready
<1>4. WorkerInv(t) /\ Recorded(tx[t])
  BY DEF TxInv, TxShape, Recorded
<1>5. k \in Keys /\ tx[t].items \in [Keys -> SUBSET Slots] /\ s \in Slots
  BY ZenonT(30), <1>3, <1>4 DEF WorkerInv, CallInv, Held
<1> DEFINE row   == PruneCandidate(tx[t].view[k], s, tx[t].arg)
           view  == [tx[t].view EXCEPT ![k] = row]
           items == [tx[t].items EXCEPT ![k] = @ \ {s}]
           x     == [pc |-> "lock", op |-> tx[t].op, items |-> items, arg |-> tx[t].arg,
                     todo |-> tx[t].todo, fresh |-> tx[t].fresh, view |-> view,
                     active |-> tx[t].active, plan |-> tx[t].plan]
<1>6. Replaces(t, x)
  <2>0. tx = [u \in Workers |-> tx[u]]
    BY DEF TxInv, TxShape
  <2>1. /\ tx'[t] = [tx[t] EXCEPT !.view = view, !.items = items]
        /\ \A u \in Workers \ {t} : tx'[u] = tx[u]
        /\ tx' = [u \in Workers |-> tx'[u]]
    BY ZenonT(30), <1>2, <1>4, <2>0 DEF Recorded
  <2> HIDE DEF row
  <2>2. tx'[t] = x
    BY ZenonT(30), <1>3, <1>4, <2>1 DEF Recorded
  <2> QED
    BY ZenonT(30), <2>1, <2>2 DEF Replaces
<1>7. /\ tx'[t].pc = "lock" /\ tx'[t].op = tx[t].op /\ tx'[t].items = items
      /\ tx'[t].arg = tx[t].arg /\ tx'[t].todo = tx[t].todo /\ tx'[t].fresh = tx[t].fresh
      /\ tx'[t].view = view /\ tx'[t].active = tx[t].active /\ tx'[t].plan = tx[t].plan
  BY <1>6 DEF Replaces
<1>8. Held(t)' = Held(t) /\ Apart(t)
  BY ZenonT(30), <1>3, <1>6, HoldsStill
<1>9. /\ view = [j \in Keys |-> view[j]] /\ view[k] = row
      /\ \A j \in Keys \ {k} : view[j] = tx[t].view[j]
  BY ZenonT(30), <1>4, <1>5 DEF Recorded
<1>10. items \in [Keys -> SUBSET Slots] /\ DOMAIN items = Keys /\ DOMAIN tx[t].items = Keys
  BY <1>5
<1>11. Recorded(tx'[t])
  BY ZenonT(30), <1>4, <1>6, <1>7, <1>9 DEF Recorded, Replaces
<1> HIDE DEF view, items, x, row
<1>12. CallInv(t)'
  BY ZenonT(30), <1>3, <1>4, <1>7, <1>10 DEF WorkerInv, CallInv, Single
<1>13. PhaseInv(t)' /\ OrderInv(t)'
  BY ZenonT(30), <1>3, <1>4, <1>7, <1>8, <1>10 DEF WorkerInv, PhaseInv, OrderInv
<1>14. ViewInv(t)'
  <2>1. tx[t].fresh = {}
    BY ZenonT(30), <1>3, <1>4 DEF WorkerInv, ViewInv, PhaseInv, HandlerOps
  <2>2. Pruned(row, db[k], tx[t].arg)
    <3>1. Pruned(tx[t].view[k], db[k], tx[t].arg)
      BY ZenonT(30), <1>3, <1>4, <2>1 DEF WorkerInv, ViewInv
    <3> QED
      BY ZenonT(30), <1>5, <3>1, PruneOneMore DEF TxInv, IInv, row
  <2> QED
    BY <1>3, <1>4, <1>7, <1>8, <1>9, <2>1, <2>2 DEF WorkerInv, ViewInv, Held
<1>15. HandlerInv(t)'
  BY ZenonT(30), <1>7 DEF HandlerInv
<1> QED
  BY <1>3, <1>8, <1>11, <1>12, <1>13, <1>14, <1>15, NothingCommitted, OneMoves DEF WorkerInv

-----------------------------------------------------------------------------
(* Commits: each one is a step of the ledger.                               *)

\* A commit of a transaction that holds one identity writes that one.
LEMMA CommitOne ==
    ASSUME TxInv, NEW t \in Workers, NEW k \in Keys, Held(t) = {k}, NEW rows, NEW gained,
           Commit(t, rows, gained), NEW count,
           k \in gained => count = effects[k] + 1, k \notin gained => count = effects[k]
    PROVE  Write(k, rows[k], count)
<1>1. \A j \in Keys : owner[j] = {t} <=> j = k
  BY DEF Held
<1>2. db = [j \in Keys |-> db[j]] /\ effects = [j \in Keys |-> effects[j]]
  BY DEF TxInv, IInv
<1>3. db' = [db EXCEPT ![k] = rows[k]]
  BY <1>1, <1>2 DEF Commit
<1>4. effects' = [effects EXCEPT ![k] =
                    IF Present(rows[k]) THEN count ELSE 0]
  BY <1>1, <1>2 DEF Commit
<1> QED
  BY <1>3, <1>4 DEF Write, Recount

\* A commit without business writes leaves the count of effects alone.
LEMMA CommitPlain ==
    ASSUME TxInv, NEW t \in Workers, NEW k \in Keys, Held(t) = {k}, NEW rows,
           Commit(t, rows, {})
    PROVE  Write(k, rows[k], effects[k])
<1> DEFINE none == {}
<1>1. Commit(t, rows, none) /\ k \notin none
  OBVIOUS
<1> HIDE DEF none
<1> QED
  BY <1>1, CommitOne

\* A commit of a transaction that holds nothing changes nothing.
LEMMA CommitNothing ==
    ASSUME TxInv, NEW t \in Workers, Held(t) = {}, NEW rows, NEW gained,
           Commit(t, rows, gained)
    PROVE  UNCHANGED vars
<1>1. \A j \in Keys : owner[j] # {t}
  BY DEF Held
<1>2. db = [j \in Keys |-> db[j]] /\ effects = [j \in Keys |-> effects[j]]
  BY DEF TxInv, IInv
<1> QED
  BY <1>1, <1>2 DEF Commit, vars

\* A commit that is a step of the ledger keeps the invariant.
LEMMA CommitKeeps ==
    ASSUME TxInv, NEW t \in Workers, NEW rows, NEW gained, Commit(t, rows, gained),
           [Next]_vars
    PROVE  TxInv'
<1>1. IInv'
  BY ZenonT(30), StepGood DEF TxInv
<1>2. \A k \in Keys : owner[k] # {t} => db'[k] = db[k]
  BY DEF Commit
<1> QED
  BY ZenonT(30), <1>1, <1>2, EndsKeep DEF Commit

\* The success of a Process handler.
LEMMA ProcessCommits ==
    ASSUME TxInv, NEW t \in Workers, ProcessSucceeds(t)
    PROVE  [Next]_vars /\ \E rows, gained : Commit(t, rows, gained)
<1> DEFINE rows == [k \in Held(t) |-> MarkComplete(tx[t].view[k])]
<1>1. /\ tx[t].pc = "handler" /\ tx[t].op = "Process" /\ Commit(t, rows, tx[t].active)
      /\ tx[t].op \in Single
  BY DEF ProcessSucceeds, Single
<1>2. CASE Held(t) = {}
  BY <1>1, <1>2, CommitNothing
<1>3. CASE Held(t) # {}
  <2>1. PICK k \in Held(t) : TRUE
    BY <1>3
  <2> DEFINE fp == tx[t].items[k].first
  <2>2. Held(t) = {k} /\ k \in Keys /\ fp \in Fps
    BY ZenonT(30), <1>1, <2>1, SingleHolds
  <2>3. tx[t].view[k] = Opened(k, fp)
    BY <1>1, ViewIsOpened
  <2>4. HandleExisting(tx[t].view[k], fp) /\ k \in tx[t].active /\ "Process" \in Ops
    BY ZenonT(30), <1>1 DEF TxInv, WorkerInv, HandlerInv, CallInv
  <2>5. Write(k, rows[k], effects[k] + 1)
    <3> HIDE DEF rows
    <3> QED
      BY <1>1, <2>2, <2>4, CommitOne
  <2>6. rows[k] = MarkComplete(Opened(k, fp))
    BY <2>3
  <2> HIDE DEF rows, fp
  <2>7. Process(k, fp)
    BY <2>3, <2>4, <2>5, <2>6 DEF Process
  <2> QED
    BY ZenonT(30), <1>1, <2>2, <2>4, <2>7 DEF Next
<1> HIDE DEF rows
<1> QED
  BY <1>1, <1>2, <1>3

\* What ProcessAttempt decides is what the ledger decides.
LEMMA SameDecision ==
    ASSUME TxInv, NEW t \in Workers, tx[t].pc # "idle", tx[t].op = "ProcessAttempt",
           NEW k \in Held(t), tx[t].view[k].ident.fp = tx[t].items[k].first
    PROVE  LET fp == tx[t].items[k].first
               s  == AttemptFingerprint(fp, tx[t].items[k].gen)
           IN  /\ Slot(t, k) = s
               /\ AttemptDecision(t, k) = IF Present(db[k])
                                          THEN NextAttempt(Opened(k, fp), s, tx[t].arg)
                                          ELSE FirstAttempt
BY ZenonT(30), ViewIsOpened DEF Slot, AttemptDecision

\* A generation found closed is observed again.
LEMMA AttemptClosedCommits ==
    ASSUME TxInv, NEW t \in Workers, AttemptClosed(t)
    PROVE  [Next]_vars /\ \E rows, gained : Commit(t, rows, gained)
<1>1. PICK k \in Held(t) :
         LET d == AttemptDecision(t, k)
             r == RecordTerminal(tx[t].view[k], Slot(t, k), d.attempt, d.closed)
         IN  /\ AttemptMatches(t, k)
             /\ d.closed # ""
             /\ Commit(t, [tx[t].view EXCEPT ![k] = r], {})
  BY ZenonT(30) DEF AttemptClosed
<1> DEFINE d  == AttemptDecision(t, k)
           s  == Slot(t, k)
           r  == RecordTerminal(tx[t].view[k], s, d.attempt, d.closed)
           fp == tx[t].items[k].first
           gen == tx[t].items[k].gen
           rows == [tx[t].view EXCEPT ![k] = r]
<1>2. /\ tx[t].pc = "lock" /\ tx[t].op = "ProcessAttempt" /\ tx[t].op \in Single
      /\ tx[t].view[k].ident.fp = fp /\ ~Completed(tx[t].view[k])
  BY ZenonT(30), <1>1 DEF AttemptMatches, Ready, Single
<1>3. Held(t) = {k} /\ k \in Keys /\ fp \in Fps /\ gen \in Gens
  BY <1>2, SingleHolds
<1>4. tx[t].arg \in Limits /\ "ProcessAttempt" \in Ops
  BY ZenonT(30), <1>2 DEF TxInv, WorkerInv, CallInv
<1>5. tx[t].view[k] = Opened(k, fp)
  BY <1>2, ViewIsOpened
<1>6. /\ s = AttemptFingerprint(fp, gen)
      /\ d = IF Present(db[k]) THEN NextAttempt(Opened(k, fp), s, tx[t].arg) ELSE FirstAttempt
  BY ZenonT(30), <1>2, SameDecision
<1>7. rows[k] = r
  BY ZenonT(30), <1>3 DEF TxInv, TxShape
<1>8. Commit(t, rows, {}) /\ d.closed # ""
  BY ZenonT(30), <1>1
<1>9. Write(k, r, effects[k])
  <2> HIDE DEF rows, r, d
  <2> QED
    BY ZenonT(30), <1>3, <1>7, <1>8, CommitPlain
<1> HIDE DEF d, s, rows, fp, gen
<1>10. ProcessAttempt(k, fp, gen, tx[t].arg, "success")
  BY ZenonT(30), <1>2, <1>5, <1>6, <1>8, <1>9 DEF ProcessAttempt
<1> QED
  BY ZenonT(30), <1>3, <1>4, <1>8, <1>10 DEF Next, FailureKinds

\* The attempt a handler has made is accounted for.
LEMMA AttemptReturnsCommits ==
    ASSUME TxInv, NEW t \in Workers, AttemptReturns(t)
    PROVE  [Next]_vars /\ \E rows, gained : Commit(t, rows, gained)
<1>1. PICK kind \in FailureKinds :
         /\ tx[t].pc = "handler" /\ tx[t].op = "ProcessAttempt"
         /\ Commit(t, [k \in Held(t) |-> FinishAttempt(tx[t].view[k], Slot(t, k),
                                                   tx[t].plan[k], tx[t].arg, kind)],
                   IF kind = "success" THEN tx[t].active ELSE {})
  BY DEF AttemptReturns
<1> DEFINE rows   == [k \in Held(t) |-> FinishAttempt(tx[t].view[k], Slot(t, k),
                                                      tx[t].plan[k], tx[t].arg, kind)]
           gained == IF kind = "success" THEN tx[t].active ELSE {}
<1>2. Commit(t, rows, gained) /\ tx[t].op \in Single
  BY <1>1 DEF Single
<1>3. CASE Held(t) = {}
  <2> HIDE DEF rows, gained
  <2> QED
    BY <1>2, <1>3, CommitNothing
<1>4. CASE Held(t) # {}
  <2>1. PICK k \in Held(t) : TRUE
    BY <1>4
  <2> DEFINE fp  == tx[t].items[k].first
             gen == tx[t].items[k].gen
             s   == Slot(t, k)
             d   == tx[t].plan[k]
  <2>2. Held(t) = {k} /\ k \in Keys /\ fp \in Fps /\ gen \in Gens
    BY ZenonT(30), <1>1, <1>2, SingleHolds
  <2>3. tx[t].arg \in Limits /\ "ProcessAttempt" \in Ops
    BY ZenonT(30), <1>1 DEF TxInv, WorkerInv, CallInv
  <2>4. /\ tx[t].active = Held(t)
        /\ tx[t].view[k].ident.fp = fp /\ ~Completed(tx[t].view[k])
        /\ d = AttemptDecision(t, k) /\ d.closed = ""
    BY ZenonT(30), <1>1 DEF TxInv, WorkerInv, HandlerInv
  <2>5. tx[t].view[k] = Opened(k, fp)
    BY ZenonT(30), <1>1, ViewIsOpened
  <2>6. /\ s = AttemptFingerprint(fp, gen)
        /\ d = IF Present(db[k]) THEN NextAttempt(Opened(k, fp), s, tx[t].arg) ELSE FirstAttempt
    BY ZenonT(30), <1>1, <2>4, SameDecision
  <2>7. rows[k] = FinishAttempt(Opened(k, fp), s, d, tx[t].arg, kind)
    BY <2>5
  <2>8. k \in gained <=> kind = "success"
    BY ZenonT(30), <2>4
  <2> HIDE DEF rows, gained, d, s, fp, gen
  <2>9. Write(k, rows[k], Gained(k, kind))
    BY <1>2, <2>2, <2>8, CommitOne DEF Gained
  <2>10. ProcessAttempt(k, fp, gen, tx[t].arg, kind)
    BY ZenonT(30), <2>4, <2>5, <2>6, <2>7, <2>9 DEF ProcessAttempt
  <2> QED
    BY ZenonT(30), <1>2, <2>2, <2>3, <2>10 DEF Next
<1> QED
  BY <1>2, <1>3, <1>4

\* What the batch path makes of an item it holds is what the ledger makes of it.
LEMMA BatchItem ==
    ASSUME TxInv, NEW t \in Workers, tx[t].pc # "idle", tx[t].op = "ProcessBatchAttempt",
           NEW k \in Held(t)
    PROVE  /\ k \in Keys /\ tx[t].items[k] \in Groups
           /\ BatchRuns(k, tx[t].items[k], tx[t].arg) <=> k \in BatchActive(t)
           /\ \A kind : BatchRows(k, tx[t].items[k], tx[t].arg, kind) =
                           IF k \in BatchActive(t)
                           THEN FinishBatchItem(tx[t].view[k], Slot(t, k), tx[t].arg, kind)
                           ELSE BatchSettled(t, k)
<1>1. tx[t].view[k] = Opened(k, tx[t].items[k].first) /\ k \in Keys
  BY ViewIsOpened
<1>2. tx[t].items[k] \in Groups
  BY ZenonT(30) DEF TxInv, WorkerInv, CallInv, PhaseInv
<1> DEFINE r    == Opened(k, tx[t].items[k].first)
           item == tx[t].items[k]
           s    == AttemptFingerprint(r.ident.fp, item.gen)
           runs == /\ r.ident.fp \in item.fps /\ ~Completed(r)
                   /\ ~BatchClosed(r, s, tx[t].arg)
<1>3. Slot(t, k) = s
  BY <1>1 DEF Slot
<1>4. BatchRuns(k, item, tx[t].arg) <=> runs
  BY ZenonT(30) DEF BatchRuns
<1>5. k \in BatchActive(t) <=> runs
  BY ZenonT(30), <1>1, <1>3 DEF BatchActive, BatchMatches
<1>6. BatchSettled(t, k) = IF /\ r.ident.fp \in item.fps /\ ~Completed(r)
                              /\ BatchClosed(r, s, tx[t].arg)
                           THEN RecordTerminal(r, s, r.att[s].n, BatchClosedKind(r, s)) ELSE r
  BY ZenonT(30), <1>1, <1>3 DEF BatchSettled, BatchMatches
<1>7. \A kind : BatchRows(k, item, tx[t].arg, kind) =
                   IF r.ident.fp \notin item.fps \/ Completed(r) THEN r
                   ELSE IF BatchClosed(r, s, tx[t].arg)
                   THEN RecordTerminal(r, s, r.att[s].n, BatchClosedKind(r, s))
                   ELSE FinishBatchItem(r, s, tx[t].arg, kind)
  BY ZenonT(30) DEF BatchRows
<1> HIDE DEF r, s
<1>8. \A kind : BatchRows(k, item, tx[t].arg, kind) =
                   IF k \in BatchActive(t)
                   THEN FinishBatchItem(r, s, tx[t].arg, kind) ELSE BatchSettled(t, k)
  BY ZenonT(30), <1>5, <1>6, <1>7
<1> QED
  BY ZenonT(30), <1>1, <1>2, <1>3, <1>4, <1>5, <1>8 DEF r

\* The rows and the gains of a batch are those of the ledger's.
BatchWrites(t, rows, gained, kinds) ==
    \A k \in Held(t) :
       /\ rows[k] = BatchRows(k, tx[t].items[k], tx[t].arg, kinds[k])
       /\ k \in gained <=> BatchRuns(k, tx[t].items[k], tx[t].arg) /\ kinds[k] = "success"

\* A batch commits what the ledger's batch of the held identities does.
LEMMA BatchCommit ==
    ASSUME TxInv, NEW t \in Workers, tx[t].pc # "idle", tx[t].op = "ProcessBatchAttempt",
           NEW kinds \in [Held(t) -> FailureKinds], NEW rows, NEW gained,
           Commit(t, rows, gained), BatchWrites(t, rows, gained, kinds)
    PROVE  [Next]_vars
<1> USE DEF BatchWrites
<1> DEFINE ks    == Held(t)
           max   == tx[t].arg
           batch == [k \in ks |-> tx[t].items[k]]
<1>1. ks \in SUBSET Keys /\ max \in Limits /\ "ProcessBatchAttempt" \in Ops
  BY ZenonT(30) DEF TxInv, WorkerInv, CallInv, Held
<1>2. \A k \in ks : tx[t].items[k] \in Items /\ tx[t].items[k].first \in tx[t].items[k].fps
  BY ZenonT(30), BatchItem DEF Groups
<1>3. /\ batch \in [ks -> Items] /\ DOMAIN batch = ks
      /\ \A k \in ks : batch[k] = tx[t].items[k] /\ batch[k].first \in batch[k].fps
  BY ZenonT(30), <1>2
<1>4. \A k \in ks : Present(rows[k])
  BY ZenonT(30), <1>1, <1>2, BatchItemKept DEF TxInv
<1> HIDE DEF max, batch
<1>5. db' = [k \in Keys |->
               IF k \in DOMAIN batch THEN BatchRows(k, batch[k], max, kinds[k]) ELSE db[k]]
  <2>1. \A k \in Keys : owner[k] = {t} <=> k \in ks
    BY ZenonT(30) DEF Held
  <2>2. \A k \in ks : rows[k] = BatchRows(k, batch[k], max, kinds[k])
    BY <1>3 DEF max
  <2> HIDE DEF ks
  <2> QED
    BY ZenonT(30), <1>3, <2>1, <2>2 DEF Commit
<1>6. effects' = [k \in Keys |->
                    IF k \in DOMAIN batch /\ BatchRuns(k, batch[k], max)
                    THEN Gained(k, kinds[k]) ELSE effects[k]]
  <2>1. \A k \in Keys : owner[k] = {t} <=> k \in ks
    BY ZenonT(30) DEF Held
  <2>2. \A k \in ks : k \in gained <=> BatchRuns(k, batch[k], max) /\ kinds[k] = "success"
    BY <1>3 DEF max
  <2> HIDE DEF ks
  <2> QED
    BY ZenonT(30), <1>3, <1>4, <2>1, <2>2 DEF Commit, Gained
<1>7. ProcessBatchAttempt(batch, max, kinds)
  BY ZenonT(30), <1>5, <1>6 DEF ProcessBatchAttempt
<1> HIDE DEF ks
<1>8. kinds \in [ks -> FailureKinds]
  BY ZenonT(30) DEF ks
<1> QED
  BY ZenonT(30), <1>1, <1>3, <1>7, <1>8 DEF Next

\* A batch in which no item is open.
LEMMA BatchAllSettledCommits ==
    ASSUME TxInv, NEW t \in Workers, BatchAllSettled(t)
    PROVE  [Next]_vars /\ \E rows, gained : Commit(t, rows, gained)
<1> DEFINE rows  == [k \in Held(t) |-> BatchSettled(t, k)]
           kinds == [k \in Held(t) |-> "success"]
           none  == {}
<1>1. /\ tx[t].pc = "lock" /\ tx[t].op = "ProcessBatchAttempt" /\ BatchActive(t) = {}
      /\ Commit(t, rows, none)
  BY DEF BatchAllSettled, Ready
<1>2. kinds \in [Held(t) -> FailureKinds]
  BY DEF FailureKinds
<1>3. ASSUME NEW k \in Held(t)
      PROVE  /\ rows[k] = BatchRows(k, tx[t].items[k], tx[t].arg, kinds[k])
             /\ ~BatchRuns(k, tx[t].items[k], tx[t].arg)
             /\ k \notin none
  BY ZenonT(30), <1>1, BatchItem
<1> HIDE DEF rows, kinds, none
<1>4. BatchWrites(t, rows, none, kinds)
  BY ZenonT(30), <1>3 DEF BatchWrites
<1> QED
  BY ZenonT(30), <1>1, <1>2, <1>4, BatchCommit

\* A batch whose handler has returned.
LEMMA BatchReturnsCommits ==
    ASSUME TxInv, NEW t \in Workers, BatchReturns(t)
    PROVE  [Next]_vars /\ \E rows, gained : Commit(t, rows, gained)
<1>1. PICK outcome \in [tx[t].active -> FailureKinds] :
         Commit(t, [k \in Held(t) |->
                      IF k \in tx[t].active
                      THEN FinishBatchItem(tx[t].view[k], Slot(t, k), tx[t].arg, outcome[k])
                      ELSE BatchSettled(t, k)],
                {k \in tx[t].active : outcome[k] = "success"})
  BY ZenonT(30) DEF BatchReturns
<1>2. tx[t].pc = "handler" /\ tx[t].op = "ProcessBatchAttempt"
  BY DEF BatchReturns
<1>3. tx[t].active = BatchActive(t)
  BY ZenonT(30), <1>2 DEF TxInv, WorkerInv, HandlerInv
<1> DEFINE rows   == [k \in Held(t) |->
                        IF k \in tx[t].active
                        THEN FinishBatchItem(tx[t].view[k], Slot(t, k), tx[t].arg, outcome[k])
                        ELSE BatchSettled(t, k)]
           gained == {k \in tx[t].active : outcome[k] = "success"}
           kinds  == [k \in Held(t) |-> IF k \in tx[t].active THEN outcome[k] ELSE "success"]
<1>4. Commit(t, rows, gained)
  BY <1>1
<1>5. kinds \in [Held(t) -> FailureKinds]
  BY DEF FailureKinds
<1>6. ASSUME NEW k \in Held(t)
      PROVE  /\ rows[k] = BatchRows(k, tx[t].items[k], tx[t].arg, kinds[k])
             /\ k \in gained <=> BatchRuns(k, tx[t].items[k], tx[t].arg) /\ kinds[k] = "success"
  <2>1. /\ BatchRuns(k, tx[t].items[k], tx[t].arg) <=> k \in tx[t].active
        /\ BatchRows(k, tx[t].items[k], tx[t].arg, kinds[k]) =
              IF k \in tx[t].active
              THEN FinishBatchItem(tx[t].view[k], Slot(t, k), tx[t].arg, kinds[k])
              ELSE BatchSettled(t, k)
    BY ZenonT(30), <1>2, <1>3, BatchItem
  <2>2. kinds[k] = IF k \in tx[t].active THEN outcome[k] ELSE "success"
    OBVIOUS
  <2> HIDE DEF kinds
  <2> QED
    BY ZenonT(30), <2>1, <2>2
<1> HIDE DEF rows, kinds, gained
<1>7. [Next]_vars
  <2>1. tx[t].pc # "idle" /\ tx[t].op = "ProcessBatchAttempt"
    BY <1>2
  <2>2. BatchWrites(t, rows, gained, kinds)
    BY ZenonT(30), <1>6 DEF BatchWrites
  <2> QED
    BY ZenonT(30), <1>4, <1>5, <2>1, <2>2, BatchCommit
<1> QED
  BY ZenonT(30), <1>4, <1>7

\* ForgetAttempt resets the generation it names.
LEMMA ForgetCommits ==
    ASSUME TxInv, NEW t \in Workers, Forget(t)
    PROVE  [Next]_vars /\ \E rows, gained : Commit(t, rows, gained)
<1>1. PICK k \in Held(t) :
         /\ Ready(t, "ForgetAttempt")
         /\ tx[t].view[k].ident.fp = tx[t].items[k].first
         /\ ~Completed(tx[t].view[k])
         /\ Commit(t, [tx[t].view EXCEPT ![k] = ForgetAttempt(@, Slot(t, k))], {})
  BY ZenonT(30) DEF Forget
<1> DEFINE fp   == tx[t].items[k].first
           gen  == tx[t].items[k].gen
           r    == ForgetAttempt(tx[t].view[k], Slot(t, k))
           rows == [tx[t].view EXCEPT ![k] = r]
<1>2. tx[t].pc = "lock" /\ tx[t].op = "ForgetAttempt" /\ tx[t].op \in Single
  BY ZenonT(30), <1>1 DEF Ready, Single
<1>3. Held(t) = {k} /\ k \in Keys /\ fp \in Fps /\ gen \in Gens
  BY <1>2, SingleHolds
<1>4. tx[t].view[k] = db[k] /\ Present(db[k]) /\ "ForgetAttempt" \in Ops
  BY ZenonT(30), <1>2 DEF TxInv, WorkerInv, ViewInv, CallInv, HandlerOps
<1>5. rows[k] = r /\ Commit(t, rows, {})
  BY ZenonT(30), <1>1, <1>3 DEF TxInv, TxShape
<1>6. r = ForgetAttempt(db[k], AttemptFingerprint(fp, gen))
  BY ZenonT(30), <1>1, <1>4 DEF Slot
<1>7. Write(k, r, effects[k])
  <2> HIDE DEF rows, r
  <2> QED
    BY ZenonT(30), <1>3, <1>5, CommitPlain
<1> HIDE DEF rows, r
<1>8. ForgetAttempts(k, fp, gen)
  BY ZenonT(30), <1>1, <1>4, <1>6, <1>7 DEF ForgetAttempts
<1> QED
  BY ZenonT(30), <1>3, <1>4, <1>5, <1>8 DEF Next

\* ConfirmTerminalHandoff stamps the marker it found.
LEMMA ConfirmCommits ==
    ASSUME TxInv, NEW t \in Workers, Confirm(t)
    PROVE  [Next]_vars /\ \E rows, gained : Commit(t, rows, gained)
<1>1. PICK k \in Held(t) :
         /\ Ready(t, "ConfirmTerminalHandoff")
         /\ tx[t].view[k].ident.fp = tx[t].items[k].first
         /\ Closed(tx[t].view[k], Slot(t, k))
         /\ Commit(t, [tx[t].view EXCEPT ![k] = ConfirmHandoff(@, Slot(t, k), tx[t].arg)], {})
  BY ZenonT(30) DEF Confirm
<1> DEFINE fp   == tx[t].items[k].first
           gen  == tx[t].items[k].gen
           r    == ConfirmHandoff(tx[t].view[k], Slot(t, k), tx[t].arg)
           rows == [tx[t].view EXCEPT ![k] = r]
<1>2. tx[t].pc = "lock" /\ tx[t].op = "ConfirmTerminalHandoff" /\ tx[t].op \in Single
  BY ZenonT(30), <1>1 DEF Ready, Single
<1>3. Held(t) = {k} /\ k \in Keys /\ fp \in Fps /\ gen \in Gens
  BY <1>2, SingleHolds
<1>4. /\ tx[t].view[k] = db[k] /\ Present(db[k])
      /\ "ConfirmTerminalHandoff" \in Ops /\ tx[t].arg \in Times
  BY ZenonT(30), <1>2 DEF TxInv, WorkerInv, ViewInv, CallInv, HandlerOps
<1>5. rows[k] = r /\ Commit(t, rows, {})
  BY ZenonT(30), <1>1, <1>3 DEF TxInv, TxShape
<1>6. /\ r = ConfirmHandoff(db[k], AttemptFingerprint(fp, gen), tx[t].arg)
      /\ Closed(db[k], AttemptFingerprint(fp, gen))
  BY ZenonT(30), <1>1, <1>4 DEF Slot
<1>7. Write(k, r, effects[k])
  <2> HIDE DEF rows, r
  <2> QED
    BY ZenonT(30), <1>3, <1>5, CommitPlain
<1> HIDE DEF rows, r
<1>8. ConfirmTerminalHandoff(k, fp, gen, tx[t].arg)
  BY ZenonT(30), <1>1, <1>4, <1>6, <1>7 DEF ConfirmTerminalHandoff
<1> QED
  BY ZenonT(30), <1>3, <1>4, <1>5, <1>8 DEF Next

\* PruneTerminalAttempts commits the slots it removed from the rows it holds.
LEMMA PruneTerminalCommits ==
    ASSUME TxInv, NEW t \in Workers, PruneTerminalDone(t)
    PROVE  [Next]_vars /\ \E rows, gained : Commit(t, rows, gained)
<1> DEFINE none == {}
           rows == tx[t].view
           b    == tx[t].arg
           Fits(k, out) == /\ \A s \in out : ~Completed(db[k]) /\ ConfirmedBefore(db[k], s, b)
                           /\ rows[k] = PruneSlots(db[k], out)
           gone == [k \in Keys |-> IF k \in Held(t)
                                   THEN CHOOSE out \in SUBSET Slots : Fits(k, out) ELSE {}]
<1>1. tx[t].pc = "lock" /\ tx[t].op = "PruneTerminalAttempts" /\ Commit(t, rows, none)
  BY ZenonT(30) DEF PruneTerminalDone, Ready
<1>2. b \in Times /\ "PruneTerminalAttempts" \in Ops
  BY ZenonT(30), <1>1 DEF TxInv, WorkerInv, CallInv
<1>3. ASSUME NEW k \in Held(t)
      PROVE  k \in Keys /\ Present(db[k]) /\ \E out \in SUBSET Slots : Fits(k, out)
  <2>1. k \notin tx[t].fresh
    BY ZenonT(30), <1>1 DEF TxInv, WorkerInv, ViewInv, HandlerOps
  <2>2. Present(db[k]) /\ Pruned(rows[k], db[k], b)
    BY ZenonT(30), <1>1, <2>1 DEF TxInv, WorkerInv, ViewInv
  <2> QED
    BY ZenonT(30), <2>2 DEF Pruned, Held
<1>4. ASSUME NEW k \in Held(t)
      PROVE  gone[k] \in SUBSET Slots /\ Fits(k, gone[k])
  <2>1. gone[k] = CHOOSE out \in SUBSET Slots : Fits(k, out)
    BY ZenonT(30), <1>3
  <2> HIDE DEF Fits, gone
  <2> QED
    BY <1>3, <2>1
<1>5. \A k \in Keys \ Held(t) : gone[k] = {}
  OBVIOUS
<1>6. gone = [k \in Keys |-> gone[k]]
  OBVIOUS
<1> HIDE DEF gone, rows, b, none
<1>7. gone \in [Keys -> SUBSET Slots]
  BY ZenonT(30), <1>4, <1>5, <1>6
<1>8. \A k \in Keys : \A s \in gone[k] :
         Present(db[k]) /\ ~Completed(db[k]) /\ ConfirmedBefore(db[k], s, b)
  BY <1>3, <1>4, <1>5
<1>9. \A k \in Keys : owner[k] = {t} <=> k \in Held(t)
  BY DEF Held
<1>10. \A k \in Keys : db[k] \in Rows /\ (~Present(db[k]) => effects[k] = 0)
  BY ZenonT(30) DEF TxInv, IInv, Kept, Completed, Present
<1>11. \A k \in Keys : db'[k] = PruneSlots(db[k], gone[k])
  <2>1. \A k \in Keys : db'[k] = IF k \in Held(t) THEN rows[k] ELSE db[k]
    BY ZenonT(30), <1>1, <1>9 DEF Commit
  <2> QED
    BY ZenonT(30), <1>4, <1>5, <1>10, <2>1, PruneNothing
<1>12. \A k \in Keys : effects'[k] = Recount(k, db'[k], effects[k])
  <2>1. \A k \in none : FALSE
    BY DEF none
  <2>2. \A k \in Keys : /\ db'[k] = IF k \in Held(t) THEN rows[k] ELSE db[k]
                        /\ effects'[k] = IF k \in Held(t) /\ ~Present(rows[k]) THEN 0 ELSE effects[k]
    BY ZenonT(30), <1>1, <1>9, <2>1 DEF Commit
  <2> QED
    BY <1>10, <2>2 DEF Recount
<1>13. PruneTerminalAttempts(gone, b)
  <2>1. /\ db' = [k \in Keys |-> db'[k]]
        /\ effects' = [k \in Keys |-> effects'[k]]
    BY <1>1 DEF Commit
  <2>2. db' = [k \in Keys |-> PruneSlots(db[k], gone[k])]
    BY <1>11, <2>1
  <2>3. effects' = [k \in Keys |-> Recount(k, db'[k], effects[k])]
    BY <1>12, <2>1
  <2> QED
    BY ZenonT(30), <1>8, <2>2, <2>3 DEF PruneTerminalAttempts
<1> QED
  BY ZenonT(30), <1>1, <1>2, <1>7, <1>13 DEF Next

\* Prune deletes the completed identities it locked.
LEMMA PruneCommits ==
    ASSUME TxInv, NEW t \in Workers, PruneDone(t)
    PROVE  [Next]_vars /\ \E rows, gained : Commit(t, rows, gained)
<1> DEFINE rows   == [k \in Held(t) |-> PruneCompleted(tx[t].view[k])]
           none   == {}
           doomed == Held(t)
<1>1. tx[t].pc = "lock" /\ tx[t].op = "Prune" /\ Commit(t, rows, none)
  BY DEF PruneDone, Ready
<1>2. "Prune" \in Ops /\ doomed \in SUBSET Keys
  BY ZenonT(30), <1>1 DEF TxInv, WorkerInv, CallInv, Held
<1>3. \A k \in doomed : Completed(db[k])
  BY ZenonT(30), <1>1 DEF TxInv, WorkerInv, ViewInv, HandlerOps
<1>4. \A k \in doomed : rows[k] = PruneCompleted(db[k]) /\ ~Present(rows[k])
  BY DEF PruneCompleted, Present, NoRows
<1>5. \A k \in Keys : owner[k] = {t} <=> k \in doomed
  BY DEF Held
<1> HIDE DEF rows, none, doomed
<1>6. Prune(doomed)
  BY ZenonT(30), <1>1, <1>3, <1>4, <1>5 DEF Prune, Commit
<1> QED
  BY ZenonT(30), <1>1, <1>2, <1>6 DEF Next

-----------------------------------------------------------------------------
(* Every step of the transactions.                                          *)

\* A commit is a step of the ledger and ends a transaction; any other step
\* leaves what is committed alone.  Either way the invariant is kept.
LEMMA TxStep ==
    ASSUME TxInv, [TxNext]_txVars
    PROVE  TxInv' /\ [Next]_vars
<1> DEFINE Commits(t) == [Next]_vars /\ \E rows, gained : Commit(t, rows, gained)
           Stays == UNCHANGED <<db, effects>>
<1>1. CASE UNCHANGED txVars
  <2>1. UNCHANGED <<db, effects, owner, tx>>
    BY ZenonT(30), <1>1 DEF txVars
  <2>2. LockShape' /\ TxShape'
    BY <2>1 DEF TxInv, LockShape, TxShape
  <2>3. ASSUME NEW t \in Workers PROVE WorkerInv(t)'
    <3>1. WorkerInv(t) /\ Held(t)' = Held(t)
      BY <2>1 DEF TxInv, Held
    <3>2. /\ \A k : AttemptDecision(t, k)' = AttemptDecision(t, k)
          /\ BatchActive(t)' = BatchActive(t)
      BY ZenonT(30), <2>1, <3>1 DEF AttemptDecision, BatchActive, BatchMatches, Slot
    <3>3. CallInv(t)' /\ PhaseInv(t)' /\ OrderInv(t)'
      BY ZenonT(30), <2>1, <3>1 DEF WorkerInv, CallInv, PhaseInv, OrderInv
    <3>4. ViewInv(t)'
      BY ZenonT(30), <2>1, <3>1 DEF WorkerInv, ViewInv
    <3>5. HandlerInv(t)'
      BY ZenonT(30), <2>1, <3>1, <3>2 DEF WorkerInv, HandlerInv
    <3> QED
      BY <3>3, <3>4, <3>5 DEF WorkerInv
  <2> QED
    BY <2>1, <2>2, <2>3, NothingCommitted DEF TxInv, vars
<1>2. ASSUME NEW t \in Workers, Begin(t) \/ Work(t) \/ Rollback(t)
      PROVE  TxInv' /\ [Next]_vars
  <2>1. CASE Begin(t)
    BY ZenonT(30), <2>1, BeginKeeps DEF Begin, vars
  <2>2. CASE Rollback(t)
    BY ZenonT(30), <2>2, RollbackKeeps DEF Rollback, vars
  <2>3. CASE InsertNew(t) \/ InsertConflict(t)
    BY ZenonT(30), <2>3, InsertNewKeeps, InsertConflictKeeps DEF InsertNew, InsertConflict,
        vars
  <2>4. CASE LockIdentity(t) \/ LockMissing(t)
    BY <2>4, LockIdentityKeeps, LockMissingKeeps DEF LockIdentity, LockMissing, vars
  <2>5. CASE ProcessDecides(t)
    BY ZenonT(30), <2>5, ProcessDecidesKeeps DEF ProcessDecides, vars
  <2>6. CASE AttemptRuns(t)
    BY ZenonT(30), <2>6, AttemptRunsKeeps DEF AttemptRuns, vars
  <2>7. CASE BatchStarts(t)
    BY ZenonT(30), <2>7, BatchStartsKeeps DEF BatchStarts, vars
  <2>8. CASE PruneNext(t)
    BY ZenonT(30), <2>8, PruneNextKeeps DEF PruneNext, vars
  <2>9. CASE \/ ProcessSucceeds(t) \/ AttemptClosed(t) \/ AttemptReturns(t)
             \/ BatchAllSettled(t) \/ BatchReturns(t) \/ Forget(t) \/ Confirm(t)
             \/ PruneTerminalDone(t) \/ PruneDone(t)
    <3>1. Commits(t)
      BY <2>9, ProcessCommits, AttemptClosedCommits, AttemptReturnsCommits,
         BatchAllSettledCommits, BatchReturnsCommits, ForgetCommits, ConfirmCommits,
         PruneTerminalCommits, PruneCommits
    <3> QED
      BY <3>1, CommitKeeps
  <2> QED
    BY <1>2, <2>1, <2>2, <2>3, <2>4, <2>5, <2>6, <2>7, <2>8, <2>9 DEF Work
<1> QED
  BY <1>1, <1>2 DEF TxNext

\* The locks, the transactions and the committed rows fit together at all times.
THEOREM TxInvariance == TxSpec => []TxInv
<1>1. TxInv /\ [TxNext]_txVars => TxInv'
  BY TxStep
<1> QED
  BY <1>1, TxStart, PTL DEF TxSpec

\* Whatever the interleaving, the failures and the rollbacks, the transactions
\* commit what the same store calls do one at a time.
THEOREM SerializableCorrect == TxSpec => Serializable
<1>1. TxInit => Init
  BY DEF TxInit
<1>2. TxInv /\ [TxNext]_txVars => [Next]_vars
  BY TxStep
<1> QED
  BY <1>1, <1>2, TxInvariance, PTL DEF TxSpec, Serializable, Spec

\* With it, what the ledger promises holds of the concurrent store: a retained
\* identity stands for at most one committed business effect.
THEOREM OnceUnderConcurrency == TxSpec => []EffectivelyOnce
BY SerializableCorrect, OnceCorrect, PTL DEF Serializable

-----------------------------------------------------------------------------
(* Handlers.                                                                *)

\* A handler runs only for an identity its transaction holds, and only while its
\* generation is open.
LEMMA ExclusiveInv == TxInv => HandlerExclusive
<1> SUFFICES ASSUME TxInv, NEW t \in Workers, NEW k \in tx[t].active
             PROVE  /\ owner[k] = {t}
                    /\ ~Completed(db[k])
                    /\ tx[t].op # "Process" => ~Closed(db[k], Slot(t, k))
  BY ZenonT(30) DEF HandlerExclusive
<1> DEFINE item == tx[t].items[k]
           r    == Opened(k, item.first)
           s    == Slot(t, k)
<1>1. tx[t].pc = "handler" /\ tx[t].op \in HandlerOps
  BY ZenonT(30) DEF TxInv, WorkerInv, PhaseInv
<1>2. k \in Held(t) /\ ~Completed(tx[t].view[k])
  BY ZenonT(30), <1>1
     DEF TxInv, WorkerInv, HandlerInv, HandlerOps, BatchActive, BatchMatches, HandleExisting
<1>3. /\ owner[k] = {t} /\ k \in Keys
      /\ tx[t].view[k] = r /\ (k \in tx[t].fresh <=> ~Present(db[k]))
  BY ZenonT(30), <1>1, <1>2, ViewIsOpened DEF Held, HandlerOps
<1>4. item \in Groups
  <2>1. CASE tx[t].op \in Single
    BY <1>1, <1>2, <2>1, SingleHolds DEF SingleItem
  <2>2. CASE tx[t].op = "ProcessBatchAttempt"
    BY ZenonT(30), <1>1, <1>2, <2>2, BatchItem
  <2> QED
    BY ZenonT(30), <1>1, <2>1, <2>2 DEF HandlerOps, Single
<1>5. item.first \in Fps /\ item.gen \in Gens
  BY <1>4 DEF Groups, Items
<1>6. WellFormed(r) /\ Present(r) /\ (Present(db[k]) => r = db[k])
  BY ZenonT(30), <1>3, <1>5, OpenedGood DEF TxInv
<1>7. s \in Slots
  <2>1. r.ident.fp \in Fps
    BY ZenonT(30), <1>6, TablesAssumption DEF WellFormed, Rows, Present, Identity
  <2>2. tx[t].view[k].ident.fp \in Fps /\ tx[t].items[k].gen \in Gens
    BY ZenonT(30), <1>3, <1>5, <2>1
  <2>3. \A fp \in Fps, gen \in Gens : AttemptFingerprint(fp, gen) \in Slots
    BY DEF AttemptFingerprint, Slots
  <2> QED
    BY ZenonT(30), <2>2, <2>3 DEF Slot
<1>8. ~Completed(db[k])
  BY ZenonT(30), <1>2, <1>3, <1>6 DEF Completed, Present
<1>9. ASSUME tx[t].op # "Process" PROVE db[k].term[s] = Null
  <2> HIDE DEF r, s
  <2>1. tx[t].op \in {"ProcessAttempt", "ProcessBatchAttempt"} /\ tx[t].arg \in Nat \ {0}
    BY ZenonT(30), <1>1, <1>9, CallsAssumption DEF HandlerOps, TxInv, WorkerInv, CallInv
  <2>2. CASE ~Present(db[k])
    BY <1>3, <1>7, <2>2 DEF TxInv, IInv, Kept, WellFormed, RowsOwned
  <2>3. CASE Present(db[k]) /\ tx[t].op = "ProcessAttempt"
    <3>1. NextAttempt(r, s, tx[t].arg).closed = ""
      BY ZenonT(30), <1>1, <1>2, <1>3, <2>3 DEF TxInv, WorkerInv, HandlerInv,
          AttemptDecision, s
    <3>2. tx[t].arg \in Nat
      BY <2>1
    <3>3. WellFormed(r)
      BY <1>6
    <3>4. r.term[s] = Null
      BY ZenonT(30), <1>7, <3>1, <3>2, <3>3, RunDecision
    <3> QED
      BY <1>6, <2>3, <3>4
  <2>4. CASE Present(db[k]) /\ tx[t].op = "ProcessBatchAttempt"
    <3>1. ~BatchClosed(r, s, tx[t].arg)
      BY ZenonT(30), <1>1, <1>2, <1>3, <2>4 DEF TxInv, WorkerInv, HandlerInv, BatchActive, s
    <3> QED
      BY ZenonT(30), <1>6, <1>7, <2>1, <2>4, <3>1, BatchDecision
  <2> QED
    BY <2>1, <2>2, <2>3, <2>4
<1> QED
  BY ZenonT(30), <1>3, <1>8, <1>9 DEF Closed

\* No two handlers run for one identity, and none for a settled generation.
THEOREM ExclusiveCorrect == TxSpec => []HandlerExclusive
BY ExclusiveInv, TxInvariance, PTL

-----------------------------------------------------------------------------
(* Waiting.                                                                 *)

\* Whoever holds an identity that another transaction waits for, and waits
\* itself, is in the same phase and waits for one that ranks higher.
LEMMA HolderIsAhead ==
    ASSUME TxInv, NEW t \in Workers, NEW u \in Workers, NEW w, WaitsFor(t, u), WaitsFor(u, w)
    PROVE  /\ Pending(t) \in Keys /\ Pending(u) \in Keys
           /\ tx[t].pc = "lock" =>
                 tx[u].pc = "lock" /\ DbOrder[Pending(t)] < DbOrder[Pending(u)]
           /\ tx[t].pc = "insert" /\ tx[u].pc = "insert" =>
                 GoOrder[Pending(t)] < GoOrder[Pending(u)]
<1> DEFINE k == Pending(t)
<1>1. /\ tx[t].pc \in {"insert", "lock"} /\ tx[t].todo # {}
      /\ tx[u].pc \in {"insert", "lock"} /\ tx[u].todo # {}
      /\ owner[k] = {u}
      /\ Present(db[k]) <=> tx[t].pc = "lock"
  BY ZenonT(30) DEF WaitsFor
<1>2. k \in Keys /\ Pending(u) \in Keys /\ Pending(u) \in tx[u].todo
  BY <1>1, PendingIsNext
<1>3. k \in Held(u)
  BY <1>1, <1>2 DEF Held
<1>4. ASSUME tx[t].pc = "lock"
      PROVE  tx[u].pc = "lock" /\ DbOrder[k] < DbOrder[Pending(u)]
  <2>1. k \notin tx[u].fresh
    BY ZenonT(30), <1>1, <1>3, <1>4 DEF TxInv, WorkerInv, ViewInv
  <2>2. tx[u].pc = "lock"
    BY ZenonT(30), <1>1, <1>3, <2>1 DEF TxInv, WorkerInv, PhaseInv
  <2> QED
    BY ZenonT(30), <1>2, <1>3, <2>1, <2>2 DEF TxInv, WorkerInv, OrderInv
<1>5. ASSUME tx[u].pc = "insert" PROVE GoOrder[k] < GoOrder[Pending(u)]
  BY <1>2, <1>3, <1>5 DEF TxInv, WorkerInv, OrderInv
<1> QED
  BY ZenonT(30), <1>2, <1>4, <1>5

\* Among transactions that all wait for each other, one waits for the identity
\* that ranks last, and its holder would have to wait for a later one.
LEMMA DeadlockFreeInv == TxInv => NoDeadlock
<1> SUFFICES ASSUME TxInv, NEW ts \in SUBSET Workers, ts # {},
                    \A t \in ts : \E u \in ts : WaitsFor(t, u)
             PROVE  FALSE
  BY DEF NoDeadlock
<1> DEFINE L == {t \in ts : tx[t].pc = "lock"}
<1>1. \A t \in ts : tx[t].pc \in {"insert", "lock"} /\ Pending(t) \in Keys
  BY ZenonT(30), HolderIsAhead DEF WaitsFor
<1>2. CASE L # {}
  <2> DEFINE ks == {Pending(t) : t \in L}
  <2>1. ks \in (SUBSET Keys) \ {{}}
    BY <1>1, <1>2
  <2>2. PICK last \in ks : \A k \in ks : DbOrder[k] <= DbOrder[last]
    BY ZenonT(30), <2>1, OrderAssumption DEF Sorts
  <2>3. PICK t \in L : last = Pending(t)
    OBVIOUS
  <2>4. PICK u \in ts : WaitsFor(t, u)
    OBVIOUS
  <2>5. PICK w \in ts : WaitsFor(u, w)
    OBVIOUS
  <2>6. /\ tx[u].pc = "lock" /\ DbOrder[last] < DbOrder[Pending(u)]
        /\ last \in Keys /\ Pending(u) \in Keys
    BY <2>3, <2>4, <2>5, HolderIsAhead
  <2>7. DbOrder[Pending(u)] <= DbOrder[last]
    BY <2>2, <2>6
  <2> QED
    BY <2>6, <2>7, OrderAssumption DEF Sorts
<1>3. CASE L = {}
  <2> DEFINE ks == {Pending(t) : t \in ts}
  <2>1. ks \in (SUBSET Keys) \ {{}}
    BY <1>1
  <2>2. PICK last \in ks : \A k \in ks : GoOrder[k] <= GoOrder[last]
    BY ZenonT(30), <2>1, OrderAssumption DEF Sorts
  <2>3. PICK t \in ts : last = Pending(t)
    OBVIOUS
  <2>4. PICK u \in ts : WaitsFor(t, u)
    OBVIOUS
  <2>5. PICK w \in ts : WaitsFor(u, w)
    OBVIOUS
  <2>6. tx[t].pc = "insert" /\ tx[u].pc = "insert"
    BY <1>1, <1>3
  <2>7. GoOrder[last] < GoOrder[Pending(u)] /\ last \in Keys /\ Pending(u) \in Keys
    BY <2>3, <2>4, <2>5, <2>6, HolderIsAhead
  <2>8. GoOrder[Pending(u)] <= GoOrder[last]
    BY <2>2
  <2> QED
    BY <2>7, <2>8, OrderAssumption DEF Sorts
<1> QED
  BY <1>2, <1>3

\* Transactions of the store never wait for each other in a circle.
THEOREM DeadlockFree == TxSpec => []NoDeadlock
BY DeadlockFreeInv, TxInvariance, PTL
=============================================================================
