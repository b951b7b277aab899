---------------------------- MODULE KafkaConsumer ----------------------------
(***************************************************************************)
(* The Kafka consumer, one record at a time or in batches: the worker loop *)
(* with its retry partition scheduler, the Inbox call, and the transaction *)
(* that produces retries and dead letters together with the offsets.       *)
(*                                                                         *)
(* part[w], held[w]   the partition and the records the worker selected    *)
(* early[w]           the positions of the polled partitions before it     *)
(* deferred[w]        whether the record after them is not due yet         *)
(* lost[w]            a partition was revoked since the poll               *)
(* paused[w]          partitions the worker's client does not fetch        *)
(* sched[w][p]        the record p waits for, or 0                         *)
(* owned[w]           pauses that the scheduler made                       *)
(***************************************************************************)
EXTENDS KafkaBroker

CONSTANT MaxMessages             \* of BatchConfig

VARIABLES pc, part, held, early, deferred, lost, paused, sched, owned

selection == <<part, held, early, deferred>>
pauses    == <<paused, sched, owned>>
members   == <<pc, selection, lost, pauses>>
vars      == <<shared, members>>

NoWait == [p \in Parts |-> 0]

MemberInit ==
    /\ pc = [w \in Workers |-> IF w \in setup.workers THEN "poll" ELSE "down"]
    /\ part = [w \in Workers |-> "source"]
    /\ held = [w \in Workers |-> <<>>]
    /\ early = [w \in Workers |-> <<>>]
    /\ deferred = [w \in Workers |-> FALSE]
    /\ lost = [w \in Workers |-> FALSE]
    /\ paused = [w \in Workers |-> {}]
    /\ sched = [w \in Workers |-> NoWait]
    /\ owned = [w \in Workers |-> {}]

Init == BrokerInit /\ MemberInit

Goto(w, label) == pc' = [pc EXCEPT ![w] = label]
Owns(w, p) == owner[p] = w
Up == {w \in Workers : pc[w] # "down"}

\* The loop drops what it selected.
Release(w) ==
    /\ part' = [part EXCEPT ![w] = "source"]
    /\ held' = [held EXCEPT ![w] = <<>>]
    /\ early' = [early EXCEPT ![w] = <<>>]
    /\ deferred' = [deferred EXCEPT ![w] = FALSE]
    /\ lost' = [lost EXCEPT ![w] = FALSE]

-----------------------------------------------------------------------------
(* Sessions and the group.                                                 *)

\* A worker opens a session: a new client has no pauses and no schedule.
Join(w) ==
    /\ w \in setup.workers /\ pc[w] = "down"
    /\ Goto(w, "poll")
    /\ UNCHANGED <<shared, selection, lost, pauses>>

\* The group gives a partition to a member, which starts at the group's offset.
\* A member with a batch does not allow a rebalance before it has committed.
\* Who owns a partition is of no consequence while all of it is committed.
Assign(w, p) ==
    /\ pc[w] # "down" /\ owner[p] = Null /\ committed[p] < Len(log[p])
    /\ setup.shape = "batch" => pc[w] \in {"poll", "confirm"}
    /\ owner' = [owner EXCEPT ![p] = w]
    /\ pos' = [pos EXCEPT ![p] = committed[p]]
    /\ mark' = [mark EXCEPT ![p] = committed[p]]
    /\ UNCHANGED <<store, topics, committed, clock, faults, setup, members>>

\* The group takes a partition back.  A worker that processes a batch has not
\* allowed it, and loses the partition when the group stops waiting.
Revoke(p) ==
    /\ Fault
    /\ owner[p] # Null
    /\ owner' = [owner EXCEPT ![p] = Null]
    /\ lost' = [lost EXCEPT ![owner[p]] = pc[owner[p]] # "poll"]
    /\ pos' = [pos EXCEPT ![p] = 0]
    /\ mark' = [mark EXCEPT ![p] = 0]
    /\ UNCHANGED <<store, topics, committed, clock, setup, pc, selection, pauses>>

\* The sessions of ws end; their partitions go back to the group.
Ends(ws) ==
    /\ pc' = [w \in Workers |-> IF w \in ws THEN "down" ELSE pc[w]]
    /\ owner' = [p \in Parts |-> IF owner[p] \in ws THEN Null ELSE owner[p]]
    /\ pos' = [p \in Parts |-> IF owner[p] \in ws THEN 0 ELSE pos[p]]
    /\ mark' = [p \in Parts |-> IF owner[p] \in ws THEN 0 ELSE mark[p]]
    /\ part' = [w \in Workers |-> IF w \in ws THEN "source" ELSE part[w]]
    /\ held' = [w \in Workers |-> IF w \in ws THEN <<>> ELSE held[w]]
    /\ early' = [w \in Workers |-> IF w \in ws THEN <<>> ELSE early[w]]
    /\ deferred' = [w \in Workers |-> w \notin ws /\ deferred[w]]
    /\ lost' = [w \in Workers |-> w \notin ws /\ lost[w]]
    /\ paused' = [w \in Workers |-> IF w \in ws THEN {} ELSE paused[w]]
    /\ sched' = [w \in Workers |-> IF w \in ws THEN NoWait ELSE sched[w]]
    /\ owned' = [w \in Workers |-> IF w \in ws THEN {} ELSE owned[w]]

\* An error of one worker ends Run in a single-message consumer; a batch worker
\* is restarted alone by its supervisor.
Failing(w) == IF setup.shape = "single" THEN Up ELSE {w}

\* A poll fails, a rewind is not confirmed, Begin or the produce call fails and
\* the transaction is aborted, a drain or a cancellation ends the loop.
Fails(w) ==
    /\ Fault /\ pc[w] # "down"
    /\ Ends(Failing(w))
    /\ UNCHANGED <<store, topics, committed, clock, setup>>

Crash ==
    /\ Fault /\ Up # {}
    /\ Ends(Up)
    /\ UNCHANGED <<store, topics, committed, clock, setup>>

-----------------------------------------------------------------------------
(* Polling.                                                                *)

\* What prepareRecord and the checks before the Inbox make of record n of p.  A
\* retry that would expire before it is due is not waited for.
Prepared(p, n) ==
    LET fp == log[p][n].fp
        waits == p = "retry" /\ n \notin due
    IN  IF fp \in Undecodable THEN "decode"
        ELSE IF fp \in expired \/ (waits /\ fp \in setup.brief) THEN "expired"
        ELSE IF waits THEN "early"
        ELSE IF fp \in waiting THEN "retry" ELSE "valid"

Ready(p, n) == Prepared(p, n) # "early"

\* Variant: whose pause it is, is asked after pausing.
OwnsPauseLate(w, p) == FALSE

\* The pause is the scheduler's own if the partition was not paused before.
OwnsPause(w, p) == p \notin paused[w]

\* pauseAndRewindRetryPartition and schedule, for record n of p.
Defer(w, p, n) ==
    /\ owned' = [owned EXCEPT ![w] = IF OwnsPause(w, p) THEN @ \cup {p} ELSE @]
    /\ paused' = [paused EXCEPT ![w] = @ \cup {p}]
    /\ sched' = [sched EXCEPT ![w][p] = n]

\* The first record polled is not due: every polled partition is rewound.
PollDeferred(w, p) ==
    /\ pc[w] = "poll" /\ Owns(w, p) /\ p \notin paused[w]
    /\ pos[p] < Len(log[p]) /\ ~Ready(p, pos[p] + 1)
    /\ Defer(w, p, pos[p] + 1)
    /\ UNCHANGED <<shared, pc, selection, lost>>

\* Variant: the due partitions are taken off the heap and not resumed.
ReleaseDueForgets(w, p) ==
    /\ pc[w] = "poll" /\ sched[w][p] # 0 /\ Ready(p, sched[w][p])
    /\ sched' = [sched EXCEPT ![w][p] = 0]
    /\ UNCHANGED <<shared, pc, selection, lost, paused, owned>>

\* releaseDue: a partition whose record is due is fetched again, if the pause
\* was the scheduler's.
ReleaseDue(w, p) ==
    /\ pc[w] = "poll" /\ sched[w][p] # 0 /\ Ready(p, sched[w][p])
    /\ sched' = [sched EXCEPT ![w][p] = 0]
    /\ owned' = [owned EXCEPT ![w] = @ \ {p}]
    /\ paused' = [paused EXCEPT ![w] = IF p \in owned[w] THEN @ \ {p} ELSE @]
    /\ UNCHANGED <<shared, pc, selection, lost>>

Rec(w, d) == log[part[w]][early[w][part[w]] + d]

\* Whether n records of p can be in one batch: all are due, and no identity
\* occurs in two generations.
Selectable(p, n) ==
    LET ns == pos[p] + 1 .. pos[p] + n
        decoded == {m \in ns : Prepared(p, m) \in {"retry", "valid"}}
    IN  /\ \A m \in ns : Ready(p, m)
        /\ \A m, o \in decoded : log[p][m].key = log[p][o].key => log[p][m].gen = log[p][o].gen

\* Where each polled partition has to be rewound to.
EarliestOffsets(take) == [q \in {q \in Parts : take[q] > 0} |-> pos[q]]

\* Room in the retry topic for n more records (a bound of the model).
Room(n) == n > 0 => Len(log["retry"]) + n <= MaxRetries

\* A poll returns take[q] records of each partition, and the first n records of
\* one of them are selected: the first record polled decides which partition,
\* and MaxBytes, MaxMessages, a record that is not due or another generation
\* ends the selection.  A single-message worker polls one record.
Poll(w, p, take, n) ==
    /\ pc[w] = "poll"
    /\ \A q \in Parts : take[q] > 0 => Owns(w, q) /\ q \notin paused[w] /\ pos[q] + take[q] <= Len(log[q])
    /\ n \in 1 .. take[p] /\ Selectable(p, n)
    /\ Room(Cardinality({d \in 1 .. n : Prepared(p, pos[p] + d) = "retry"}))
    /\ part' = [part EXCEPT ![w] = p]
    /\ early' = [early EXCEPT ![w] = EarliestOffsets(take)]
    /\ pos' = [q \in Parts |-> pos[q] + take[q]]
    /\ deferred' = [deferred EXCEPT ![w] = n < take[p] /\ ~Ready(p, pos[p] + n + 1)]
    /\ held' = [held EXCEPT ![w] = [d \in 1 .. n |-> Prepared(p, pos[p] + d)]]
    /\ Goto(w, IF \E d \in 1 .. n : Prepared(p, pos[p] + d) = "valid" THEN "process" ELSE "commit")
    /\ UNCHANGED <<store, topics, committed, owner, mark, clock, faults, setup, lost, pauses>>

PollAny(w) ==
    /\ pc[w] = "poll"
    /\ \E p \in Parts :
          IF setup.shape = "single"
          THEN Poll(w, p, [q \in Parts |-> IF q = p THEN 1 ELSE 0], 1)
          ELSE \E take \in [Parts -> 0 .. MaxMessages], n \in 1 .. MaxMessages : Poll(w, p, take, n)

-----------------------------------------------------------------------------
(* Processing.                                                             *)

Valid(w) == {d \in DOMAIN held[w] : held[w][d] = "valid"}

\* The valid records get their outcomes, and the transaction is next.
Settled(w, outcome) ==
    /\ held' = [held EXCEPT ![w] = [d \in DOMAIN @ |-> IF @[d] = "valid" THEN outcome[d] ELSE @[d]]]
    /\ Goto(w, "commit")
    /\ UNCHANGED <<topics, group, clock, setup, part, early, deferred, lost, pauses>>

\* The decision of ProcessAttempt, and what it reports of a handler's outcome.
Attempted(r, max, kind) ==
    LET rows == db[r.key]
        d == IF Store!Present(rows)
             THEN Store!NextAttempt(rows, Store!AttemptFingerprint(r.fp, r.gen), max)
             ELSE Store!FirstAttempt
        n == IF kind = "defer" THEN d.attempt - 1 ELSE d.attempt
    IN  IF d.closed # ""           THEN d.closed
        ELSE IF kind = "success"   THEN "ack"
        ELSE IF kind = "permanent" THEN "permanent"
        ELSE IF n >= max           THEN "attempts_exhausted" ELSE "retry"

\* The answer of the store arrives, or is lost after its commit: then the
\* records are retried.
Reported(known, out) == IF known THEN out ELSE "retry"
Answer(known) == IF known THEN UNCHANGED faults ELSE Fault

\* A single record: the identity has other content, or is completed, or the
\* handler runs.
Process(w, max, kind, known) ==
    LET r == Rec(w, 1)
        rows == db[r.key]
        out == IF Store!Present(rows) /\ rows.ident.fp # r.fp THEN "identity_conflict"
               ELSE IF Store!Completed(rows) THEN "ack"
               ELSE Attempted(r, max, kind)
    IN  /\ pc[w] = "process" /\ setup.shape = "single"
        /\ Answer(known)
        /\ Reported(known, out) = "retry" => Room(1)
        /\ Settled(w, [d \in Valid(w) |-> Reported(known, out)])
        /\ IF Store!Present(rows) /\ (rows.ident.fp # r.fp \/ rows.ident.completed)
           THEN UNCHANGED store
           ELSE /\ Store!ProcessAttempt(r.key, r.fp, r.gen, max, kind)
                /\ won' = IF out = "ack" THEN won \cup {<<r.key, r.fp>>} ELSE won

\* The items of the batch, grouped by identity.
Group(w, k) == {d \in Valid(w) : Rec(w, d).key = k}
Names(w) == {Rec(w, d).key : d \in Valid(w)}

Items(w) ==
    [k \in Names(w) |->
        LET first == CHOOSE d \in Group(w, k) : \A e \in Group(w, k) : d <= e
        IN  [first |-> Rec(w, first).fp, fps |-> {Rec(w, d).fp : d \in Group(w, k)},
             gen |-> Rec(w, first).gen]]

BatchOut(w, max, kinds, d) ==
    LET r   == Rec(w, d)
        out == Store!BatchOutcome(r.key, Items(w)[r.key], r.fp, max, kinds[r.key])
    IN  IF out = "defer" THEN "retry" ELSE out

ProcessBatch(w, max, kinds, known) ==
    LET out == [d \in Valid(w) |-> Reported(known, BatchOut(w, max, kinds, d))]
    IN  /\ pc[w] = "process" /\ setup.shape = "batch"
        /\ Answer(known)
        /\ Room(Cardinality({d \in Valid(w) : out[d] = "retry"}))
        /\ Settled(w, out)
        /\ Store!ProcessBatchAttempt(Items(w), max, kinds)
        /\ won' = won \cup {<<k, db'[k].ident.fp>> :
                     k \in {k \in Names(w) : kinds[k] = "success" /\ Store!BatchRuns(k, Items(w)[k], max)}}

\* The store fails, or the handler of a batch does: the records are retried.
ProcessFails(w) ==
    /\ pc[w] = "process"
    /\ Fault
    /\ Room(Cardinality(Valid(w)))
    /\ Settled(w, [d \in Valid(w) |-> "retry"])
    /\ UNCHANGED store

\* A batch handler breaks its contract: the batch is rewound and Run fails.
FailsClosed(w) ==
    /\ Fault /\ pc[w] = "process" /\ setup.shape = "batch"
    /\ Ends(Up)
    /\ UNCHANGED <<store, topics, committed, clock, setup>>

-----------------------------------------------------------------------------
(* The transaction.                                                        *)

Picked(w, fates) == {d \in DOMAIN held[w] : held[w][d] \in fates}

\* What is made of the selected records with one of the fates, in their order.
Gather(w, fates, made) ==
    LET ds == SelectSeq([d \in DOMAIN held[w] |-> d], LAMBDA d : held[w][d] \in fates)
    IN  [i \in DOMAIN ds |-> made[ds[i]]]

Terminal == {"decode", "expired", "identity_conflict"} \cup HandlerFates

\* A retry keeps the identity, the generation and the source position.
Retry(w, d) == Rec(w, d)

DeadLetter(w, d) ==
    [key |-> Rec(w, d).key, fp |-> Rec(w, d).fp, gen |-> Rec(w, d).gen,
     origin |-> Rec(w, d).origin, reason |-> held[w][d]]

\* setKafkaBatchProcessedOffsets: a batch sets the offsets of every polled
\* partition before its transaction, after the selected records and at the
\* start of the others.
ProcessedOffsets(w) ==
    IF setup.shape = "single" THEN <<>>
    ELSE [early[w] EXCEPT ![part[w]] = @ + Len(held[w])]

\* SetOffsets moves the head of the client and its marker.
HeadAfter(w, q) == IF q \in DOMAIN ProcessedOffsets(w) THEN ProcessedOffsets(w)[q] ELSE pos[q]
MarkAfter(w, q) == IF q \in DOMAIN ProcessedOffsets(w) THEN ProcessedOffsets(w)[q] ELSE mark[q]

\* Variant: the transaction carries no offset.
UncommittedNone(w) == {}

\* UncommittedOffsets: where the head is not what the client holds for
\* committed.  A batch has set both, so its partitions are not among them.
UncommittedOffsets(w) == {q \in Parts : Owns(w, q) /\ HeadAfter(w, q) # MarkAfter(w, q)}

\* The broker commits the produced records and the uncommitted offsets together.
Committed(w) ==
    /\ log' = [log EXCEPT !["retry"] = @ \o Gather(w, {"retry"}, [d \in DOMAIN held[w] |-> Retry(w, d)])]
    /\ dlq' = dlq \o Gather(w, Terminal, [d \in DOMAIN held[w] |-> DeadLetter(w, d)])
    /\ committed' = [q \in Parts |-> IF q \in UncommittedOffsets(w) THEN HeadAfter(w, q) ELSE committed[q]]

CanConfirm(w) == Picked(w, HandlerFates) # {}

\* A batch that stopped at a record that is not due pauses its partition there.
PauseRest(w) ==
    IF deferred[w] THEN Defer(w, part[w], early[w][part[w]] + Len(held[w]) + 1) ELSE UNCHANGED pauses

\* End commits.
Commit(w) ==
    /\ pc[w] = "commit" /\ ~lost[w]
    /\ Committed(w)
    /\ pos' = [q \in Parts |-> IF Owns(w, q) THEN HeadAfter(w, q) ELSE pos[q]]
    /\ mark' = [q \in Parts |-> IF Owns(w, q) THEN HeadAfter(w, q) ELSE mark[q]]
    /\ PauseRest(w)
    /\ IF CanConfirm(w)
       THEN Goto(w, "confirm") /\ UNCHANGED <<selection, lost>>
       ELSE Goto(w, "poll") /\ Release(w)
    /\ UNCHANGED <<store, owner, clock, faults, setup>>

\* Variant: the hand-off is confirmed although the transaction was not committed.
AbortConfirms(w) ==
    /\ pc[w] = "commit"
    /\ IF lost[w] THEN UNCHANGED faults ELSE Fault
    /\ pos' = [q \in Parts |-> IF Owns(w, q) THEN MarkAfter(w, q) ELSE pos[q]]
    /\ mark' = [q \in Parts |-> IF Owns(w, q) THEN MarkAfter(w, q) ELSE mark[q]]
    /\ IF CanConfirm(w)
       THEN Goto(w, "confirm") /\ UNCHANGED <<selection, lost>>
       ELSE Goto(w, "poll") /\ Release(w)
    /\ UNCHANGED <<store, topics, committed, owner, clock, setup, pauses>>

\* End aborts, as it must once a partition was revoked: the client goes back to
\* its marker, and the worker goes on with the session.
Abort(w) ==
    /\ pc[w] = "commit"
    /\ IF lost[w] THEN UNCHANGED faults ELSE Fault
    /\ pos' = [q \in Parts |-> IF Owns(w, q) THEN MarkAfter(w, q) ELSE pos[q]]
    /\ mark' = [q \in Parts |-> IF Owns(w, q) THEN MarkAfter(w, q) ELSE mark[q]]
    /\ Goto(w, "poll") /\ Release(w)
    /\ UNCHANGED <<store, topics, committed, owner, clock, setup, pauses>>

\* The answer to End is lost after the commit: the worker fails.
CommitUnknown(w) ==
    /\ Fault /\ pc[w] = "commit" /\ ~lost[w]
    /\ Committed(w)
    /\ Ends(Failing(w))
    /\ UNCHANGED <<store, clock, setup>>

Confirm(w, now) ==
    /\ pc[w] = "confirm"
    /\ \E d \in Picked(w, HandlerFates) :
          LET r == Rec(w, d)
          IN  /\ Store!ConfirmTerminalHandoff(r.key, r.fp, r.gen, now)
              /\ held' = [held EXCEPT ![w][d] = "ack"]
    /\ UNCHANGED <<won, topics, group, clock, faults, setup, pc, part, early, deferred, lost, pauses>>

\* All confirmations are made; one that fails is logged and not repeated.
Confirmed(w) ==
    /\ pc[w] = "confirm"
    /\ Goto(w, "poll") /\ Release(w)
    /\ UNCHANGED <<shared, pauses>>

-----------------------------------------------------------------------------
Processing(w) ==
    /\ pc[w] = "process"
    /\ \E max \in Limits, known \in BOOLEAN :
          \/ \E kind \in Store!FailureKinds : Process(w, max, kind, known)
          \/ \E kinds \in [Names(w) -> Store!FailureKinds] : ProcessBatch(w, max, kinds, known)

Member(w) ==
    \/ Join(w) \/ Fails(w) \/ PollAny(w) \/ Processing(w) \/ ProcessFails(w) \/ FailsClosed(w)
    \/ Commit(w) \/ Abort(w) \/ CommitUnknown(w) \/ Confirmed(w)
    \/ \E now \in Times : Confirm(w, now)
    \/ \E p \in Parts : Assign(w, p) \/ PollDeferred(w, p) \/ ReleaseDue(w, p)

Next ==
    \/ Outside /\ UNCHANGED members
    \/ \E p \in Parts : Revoke(p)
    \/ \E w \in Workers : Member(w)
    \/ Crash

Spec == Init /\ [][Next]_vars

\* What a worker and the group do when nothing fails.
Progress(w) ==
    \/ Join(w) \/ PollAny(w) \/ Processing(w) \/ Commit(w) \/ Abort(w) \/ Confirmed(w)
    \/ \E p \in Parts : Assign(w, p) \/ PollDeferred(w, p) \/ ReleaseDue(w, p)

TimePasses ==
    /\ (\E n \in DOMAIN log["retry"] : Ripen(n)) \/ (\E fp \in Fps : Mature(fp))
    /\ UNCHANGED members

\* The goroutine of each worker runs, the group hands out what nobody owns, and
\* time passes: a retry becomes due and a scheduled message ready.
FairSpec ==
    /\ Spec
    /\ \A w \in Workers : WF_vars(Progress(w))
    /\ WF_vars(TimePasses)

-----------------------------------------------------------------------------
(* Properties.                                                             *)

\* A partition that a worker's client does not fetch is one the scheduler will
\* resume: it has a deadline and the pause is the scheduler's own, so that no
\* retry waits for a resume that nobody will make.
PausedIsScheduled ==
    \A w \in Workers : \A p \in paused[w] : sched[w][p] # 0 /\ p \in owned[w]
=============================================================================
