----------------------------- MODULE InboxLedger -----------------------------
(***************************************************************************)
(* What the Inbox promises its callers: every call of the store takes      *)
(* effect in one indivisible step on the rows of the identities it names.  *)
(* Calls that change nothing (a duplicate of a completed identity, a       *)
(* fingerprint conflict, a rolled-back transaction) are stuttering steps.  *)
(*                                                                         *)
(* effects[k] counts the business effects committed since the identity     *)
(* row of k was inserted.  It is not a table: the business writes are made *)
(* by the handler inside the same SQL transaction.                         *)
(***************************************************************************)
EXTENDS InboxTables, InboxCalls

VARIABLES db, effects

vars == <<db, effects>>

\* One group of a batch: the fingerprint of its first entry, the fingerprints of
\* all its entries, and the generation they share.
Items == [first : Fps, fps : SUBSET Fps, gen : Gens]

Init == /\ db = [k \in Keys |-> NoRows]
        /\ effects = [k \in Keys |-> 0]

\* The rows a call works on: a missing identity is inserted with fingerprint fp.
Opened(k, fp) == IF Present(db[k]) THEN db[k] ELSE InsertIdentity(db[k], fp)

Gained(k, kind) == IF kind = "success" THEN effects[k] + 1 ELSE effects[k]

\* Effects are counted per retained identity: they restart when the row is gone.
Recount(k, rows, count) == IF Present(rows) THEN count ELSE 0

Write(k, rows, count) ==
    /\ db' = [db EXCEPT ![k] = rows]
    /\ effects' = [effects EXCEPT ![k] = Recount(k, rows, count)]

\* The unbounded path refuses other content and identities with attempts, and
\* recognises a duplicate.
HandleExisting(r, fp) == r.ident.fp = fp /\ ~Completed(r) /\ ~HasAttempts(r)

\* Process: only a success writes anything.
Process(k, fp) ==
    LET r == Opened(k, fp)
    IN  /\ HandleExisting(r, fp)
        /\ Write(k, MarkComplete(r), effects[k] + 1)

\* Variant: a completed identity is not recognised as a duplicate.
ProcessAttemptReruns(k, fp, gen, max, kind) ==
    LET r == Opened(k, fp)
        s == AttemptFingerprint(fp, gen)
        d == IF Present(db[k]) THEN NextAttempt(r, s, max) ELSE FirstAttempt
    IN  /\ r.ident.fp = fp
        /\ d.closed = ""
        /\ Write(k, FinishAttempt(r, s, d, max, kind), Gained(k, kind))

\* ProcessAttempt: a closed generation is observed again, an open one runs.
ProcessAttempt(k, fp, gen, max, kind) ==
    LET r == Opened(k, fp)
        s == AttemptFingerprint(fp, gen)
        d == IF Present(db[k]) THEN NextAttempt(r, s, max) ELSE FirstAttempt
    IN  /\ r.ident.fp = fp
        /\ ~Completed(r)
        /\ IF d.closed # ""
           THEN Write(k, RecordTerminal(r, s, d.attempt, d.closed), effects[k])
           ELSE Write(k, FinishAttempt(r, s, d, max, kind), Gained(k, kind))

\* What a batch does to one identity, given the group's item and its outcome.
BatchRows(k, item, max, kind) ==
    LET r == Opened(k, item.first)
        s == AttemptFingerprint(r.ident.fp, item.gen)
    IN  IF r.ident.fp \notin item.fps \/ Completed(r) THEN r
        ELSE IF BatchClosed(r, s, max)
        THEN RecordTerminal(r, s, r.att[s].n, BatchClosedKind(r, s))
        ELSE FinishBatchItem(r, s, max, kind)

BatchRuns(k, item, max) ==
    LET r == Opened(k, item.first)
    IN  /\ r.ident.fp \in item.fps
        /\ ~Completed(r)
        /\ ~BatchClosed(r, AttemptFingerprint(r.ident.fp, item.gen), max)

\* What ProcessBatchAttempt reports for an entry with fingerprint fp: "ack",
\* "defer", "retry" or the reason for which it is to be dead-lettered.
BatchOutcome(k, item, fp, max, kind) ==
    LET r == Opened(k, item.first)
        s == AttemptFingerprint(r.ident.fp, item.gen)
    IN  IF r.ident.fp # fp             THEN "identity_conflict"
        ELSE IF Completed(r)           THEN "ack"
        ELSE IF BatchClosed(r, s, max) THEN BatchClosedKind(r, s)
        ELSE IF kind = "success"       THEN "ack"
        ELSE IF kind \in {"defer", "permanent"} THEN kind
        ELSE IF StoredAttempt(r, s) + 1 >= max THEN "attempts_exhausted" ELSE "retry"

\* ProcessBatchAttempt: all items in one transaction.
ProcessBatchAttempt(batch, max, kinds) ==
    /\ db' = [k \in Keys |->
                IF k \in DOMAIN batch THEN BatchRows(k, batch[k], max, kinds[k]) ELSE db[k]]
    /\ effects' = [k \in Keys |->
                IF k \in DOMAIN batch /\ BatchRuns(k, batch[k], max)
                THEN Gained(k, kinds[k]) ELSE effects[k]]

ForgetAttempts(k, fp, gen) ==
    LET rows == ForgetAttempt(db[k], AttemptFingerprint(fp, gen))
    IN  /\ Present(db[k]) /\ db[k].ident.fp = fp
        /\ ~Completed(db[k])
        /\ Write(k, rows, effects[k])

ConfirmTerminalHandoff(k, fp, gen, now) ==
    LET s == AttemptFingerprint(fp, gen)
    IN  /\ Present(db[k]) /\ db[k].ident.fp = fp
        /\ Closed(db[k], s)
        /\ Write(k, ConfirmHandoff(db[k], s, now), effects[k])

\* Variant: the counters of every generation are deleted.
PruneSlotsAllCounters(r, gone) ==
    IF gone = {} THEN r
    ELSE [ident |-> r.ident,
          att   |-> [s \in Slots |-> Null],
          term  |-> [s \in Slots |-> IF s \in gone THEN Null ELSE r.term[s]]]

\* Retention removes from the incomplete identities any set of generations whose
\* handoff was confirmed before the cutoff, and the identities left with no row.
PruneSlots(r, gone) ==
    LET left == [ident |-> r.ident,
                 att   |-> [s \in Slots |-> IF s \in gone THEN Null ELSE r.att[s]],
                 term  |-> [s \in Slots |-> IF s \in gone THEN Null ELSE r.term[s]]]
    IN  IF gone # {} /\ ~HasAttempts(left) /\ ~HasMarkers(left)
        THEN WithIdent(left, Null) ELSE left

PruneTerminalAttempts(gone, before) ==
    /\ \A k \in Keys : \A s \in gone[k] :
          Present(db[k]) /\ ~Completed(db[k]) /\ ConfirmedBefore(db[k], s, before)
    /\ db' = [k \in Keys |-> PruneSlots(db[k], gone[k])]
    /\ effects' = [k \in Keys |-> Recount(k, db'[k], effects[k])]

\* Prune removes completed identities; which ones are old enough is left open.
Prune(doomed) ==
    /\ \A k \in doomed : Completed(db[k])
    /\ db' = [k \in Keys |-> IF k \in doomed THEN PruneCompleted(db[k]) ELSE db[k]]
    /\ effects' = [k \in Keys |-> IF k \in doomed THEN 0 ELSE effects[k]]

Next ==
    \/ /\ "Process" \in Ops
       /\ \E k \in Keys, fp \in Fps : Process(k, fp)
    \/ /\ "ProcessAttempt" \in Ops
       /\ \E k \in Keys, fp \in Fps, gen \in Gens, max \in Limits, kind \in FailureKinds :
             ProcessAttempt(k, fp, gen, max, kind)
    \/ /\ "ProcessBatchAttempt" \in Ops
       /\ \E ks \in SUBSET Keys, max \in Limits :
             \E batch \in [ks -> Items], kinds \in [ks -> FailureKinds] :
                /\ \A k \in ks : batch[k].first \in batch[k].fps
                /\ ProcessBatchAttempt(batch, max, kinds)
    \/ /\ "ForgetAttempt" \in Ops
       /\ \E k \in Keys, fp \in Fps, gen \in Gens : ForgetAttempts(k, fp, gen)
    \/ /\ "ConfirmTerminalHandoff" \in Ops
       /\ \E k \in Keys, fp \in Fps, gen \in Gens, now \in Times :
             ConfirmTerminalHandoff(k, fp, gen, now)
    \/ /\ "PruneTerminalAttempts" \in Ops
       /\ \E gone \in [Keys -> SUBSET Slots], before \in Times :
             PruneTerminalAttempts(gone, before)
    \/ /\ "Prune" \in Ops
       /\ \E doomed \in SUBSET Keys : Prune(doomed)

Spec == Init /\ [][Next]_vars

-----------------------------------------------------------------------------
(* Properties.                                                             *)

\* Every table row has the shape its migration gives it.
TypeOK == /\ db \in [Keys -> Rows]
          /\ effects \in [Keys -> Nat]

\* A completed identity stands for exactly one committed business effect and an
\* incomplete one for none: redelivery, replay generations, batches, resets and
\* retention never let a second effect commit while the identity is retained.
EffectivelyOnce ==
    \A k \in Keys : effects[k] = IF Completed(db[k]) THEN 1 ELSE 0

\* No counter or marker outlives its identity row or belongs to another
\* fingerprint: the fresh-identity shortcut of ProcessAttempt, which skips
\* reading the counters, can never collide with a leftover row.
RowsOwned(r) ==
    \A s \in Slots : r.att[s] # Null \/ r.term[s] # Null
                       => Present(r) /\ r.ident.fp = s[1]

ChildRowsOwned == \A k \in Keys : RowsOwned(db[k])

\* A marker and the counter it closes tell the same story: the marker never
\* stands without its counter, and the counter's terminal flag is set exactly
\* when the recorded reason is "permanent".
RowsAgree(r) ==
    \A s \in Slots :
        /\ r.term[s] # Null => r.att[s] # Null
        /\ r.att[s] # Null => (r.att[s].terminal <=> TerminalKind(r, s) = "permanent")

MarkersAgree == \A k \in Keys : RowsAgree(db[k])

\* An incomplete identity always has a counter row (a first deferral leaves a
\* zero row), so no identity is stranded where neither retention path finds it.
NotStranded(r) == Present(r) /\ ~Completed(r) => HasAttempts(r)

NothingStranded == \A k \in Keys : NotStranded(db[k])

\* While its marker is retained a closed generation is frozen: no restart and no
\* larger MaxAttempts moves its counter, its reason or its recorded count.
ClosedFrozen ==
    [][\A k \in Keys, s \in Slots :
         Closed(db[k], s) /\ Closed(db'[k], s)
           => /\ db'[k].att[s] = db[k].att[s]
              /\ db'[k].term[s].kind = db[k].term[s].kind
              /\ db'[k].term[s].attempts = db[k].term[s].attempts]_vars

\* Unless a caller resets it with ForgetAttempt, the counter of a generation
\* that is still open survives every step on an incomplete identity: pruning
\* or resetting a sibling never takes it or its identity away.
OpenSurvives ==
    [][\A k \in Keys, s \in Slots :
         Open(db[k], s) /\ ~Completed(db[k])
           => db'[k].att[s] # Null \/ ForgetAttempts(k, s[1], s[2])]_vars
=============================================================================
