------------------------------ MODULE NatsBatch ------------------------------
(***************************************************************************)
(* The NATS JetStream batch consumer.  A worker collects a batch from two  *)
(* pulls, settles what needs no handler, runs the rest in one Inbox        *)
(* transaction and then settles its deliveries one by one: acknowledged    *)
(* and returned ones in parallel, dead letters in turn after them.         *)
(*                                                                         *)
(* held[w] is the batch: for each delivery the stream position, the step   *)
(* it waits for and the reason it is dead-lettered for.                    *)
(***************************************************************************)
EXTENDS JetStream

CONSTANT MaxMessages             \* of BatchConfig

VARIABLES phase, held, fatal     \* of each worker

batchWorker == <<phase, held, fatal>>

Delivery(i, step, reason) == [msg |-> i, step |-> step, fate |-> reason]

BatchInit ==
    /\ phase = [w \in Workers |-> "idle"]
    /\ held = [w \in Workers |-> <<>>]
    /\ fatal = [w \in Workers |-> FALSE]

Of(d) == stream[d.msg]
Deliveries(w) == DOMAIN held[w]
In(w, steps) == {d \in Deliveries(w) : held[w][d].step \in steps}

Enter(w, label) == phase' = [phase EXCEPT ![w] = label]
Settle(w, d, step) == held' = [held EXCEPT ![w][d].step = step]

\* The worker forgets its batch; a fatal error makes Run cancel its own context.
Leave(w, failed) ==
    /\ Enter(w, "idle")
    /\ held' = [held EXCEPT ![w] = <<>>]
    /\ fatal' = [fatal EXCEPT ![w] = FALSE]
    /\ mode' = IF failed THEN "cancelled" ELSE mode

-----------------------------------------------------------------------------
(* Collecting.                                                             *)

\* Whether a delivery can be joined by others: it decoded, has not expired and
\* need not wait.
Eligible(m) == m.fp \notin Undecodable \cup expired \cup waiting

FetchFirst(w, i) ==
    /\ w \in setup.workers /\ mode = "running" /\ phase[w] = "idle" /\ i \notin acked
    /\ held' = [held EXCEPT ![w] = <<Delivery(i, "valid", "decode")>>]
    /\ Enter(w, IF Eligible(stream[i]) /\ MaxMessages > 1 THEN "filling" ELSE "collected")
    /\ UNCHANGED <<shared, fatal>>

\* Another generation of an identity in the batch is given back at once; what
\* does not decode has no identity.
ConflictingGeneration(w, m) ==
    /\ m.fp \notin Undecodable
    /\ \E d \in Deliveries(w) :
          LET n == Of(held[w][d]) IN n.fp \notin Undecodable /\ n.key = m.key /\ n.gen # m.gen

\* What the batch holds already may be delivered into it again.
FetchFill(w, i) ==
    /\ mode = "running" /\ phase[w] = "filling" /\ i \notin acked
    /\ ~ConflictingGeneration(w, stream[i])
    /\ held' = [held EXCEPT ![w] = Append(@, Delivery(i, "valid", "decode"))]
    /\ Enter(w, IF Len(held[w]) + 1 = MaxMessages THEN "collected" ELSE "filling")
    /\ UNCHANGED <<shared, fatal>>

\* MaxWait is over, MaxBytes reached or admission cancelled.
FillEnds(w) ==
    /\ phase[w] = "filling"
    /\ Enter(w, "collected")
    /\ UNCHANGED <<shared, held, fatal>>

\* A pull fails for another reason: what was collected is left to redelivery.
PullFails(w) ==
    /\ stops < setup.stops /\ stops' = stops + 1
    /\ w \in setup.workers /\ mode = "running" /\ phase[w] \in {"idle", "filling"}
    /\ Leave(w, TRUE)
    /\ UNCHANGED <<store, broker, clock>>

-----------------------------------------------------------------------------
(* Processing.                                                             *)

Classified(d) ==
    LET m == Of(d)
    IN  IF m.fp \in Undecodable  THEN Delivery(d.msg, "publish", "decode")
        ELSE IF m.fp \in expired THEN Delivery(d.msg, "publish", "expired")
        ELSE IF m.fp \in waiting THEN Delivery(d.msg, "nak", "decode") ELSE d

\* The clock is read once, before the Inbox is asked.
Classify(w) ==
    /\ phase[w] = "collected"
    /\ held' = [held EXCEPT ![w] = [d \in Deliveries(w) |-> Classified(held[w][d])]]
    /\ Enter(w, IF \E d \in Deliveries(w) : Eligible(Of(held[w][d])) THEN "process" ELSE "settle")
    /\ UNCHANGED <<shared, fatal>>

Group(w, k) == {d \in In(w, {"valid"}) : Of(held[w][d]).key = k}

\* The items of the Inbox call, grouped by identity.
BatchItems(w) ==
    [k \in {Of(held[w][d]).key : d \in In(w, {"valid"})} |->
        LET first == CHOOSE d \in Group(w, k) : \A e \in Group(w, k) : d <= e
        IN  [first |-> Of(held[w][first]).fp,
             fps   |-> {Of(held[w][d]).fp : d \in Group(w, k)},
             gen   |-> Of(held[w][first]).gen]]

\* Variant: a conflicting copy is taken for a duplicate.
DecidedConflictAcked(w, d, outcome) ==
    Delivery(held[w][d].msg,
             CASE outcome \in {"ack", "identity_conflict"} -> "ack"
               [] outcome \in {"defer", "retry"} -> "nak" [] OTHER -> "publish",
             IF outcome \in {"ack", "defer", "retry"} THEN "decode" ELSE outcome)

\* The delivery as the report of the Inbox wants it settled.
Decided(w, d, outcome) ==
    Delivery(held[w][d].msg,
             CASE outcome = "ack" -> "ack" [] outcome \in {"defer", "retry"} -> "nak" [] OTHER -> "publish",
             IF outcome \in {"ack", "defer", "retry"} THEN "decode" ELSE outcome)

Wins(w, max, kinds) ==
    {<<k, db'[k].ident.fp, BatchItems(w)[k].gen>> :
        k \in {k \in DOMAIN BatchItems(w) : kinds[k] = "success" /\ BatchRuns(k, BatchItems(w)[k], max)}}

\* The transaction commits and reports an outcome for every delivery.
BatchProcessed(w, max, kinds) ==
    /\ phase[w] = "process"
    /\ ProcessBatchAttempt(BatchItems(w), max, kinds)
    /\ won' = won \cup Wins(w, max, kinds)
    /\ held' = [held EXCEPT ![w] = [d \in Deliveries(w) |->
                  LET m == Of(held[w][d])
                  IN  IF held[w][d].step = "valid"
                      THEN Decided(w, d, BatchOutcome(m.key, BatchItems(w)[m.key], m.fp, max, kinds[m.key]))
                      ELSE held[w][d]]]
    /\ Enter(w, "settle")
    /\ UNCHANGED <<broker, clock, mode, stops, fatal>>

\* A top-level error returns every valid delivery; the settled ones stay settled.
ReturnValid(w) ==
    /\ held' = [held EXCEPT ![w] = [d \in Deliveries(w) |->
                  IF held[w][d].step = "valid" THEN Decided(w, d, "retry") ELSE held[w][d]]]
    /\ Enter(w, "settle")
    /\ UNCHANGED fatal

\* The store or the handler fails and the transaction is rolled back.
BatchRolledBack(w) ==
    /\ phase[w] = "process"
    /\ ReturnValid(w)
    /\ UNCHANGED shared

\* The answer to the commit is lost.
BatchCommitUnknown(w, max, kinds) ==
    /\ phase[w] = "process"
    /\ ProcessBatchAttempt(BatchItems(w), max, kinds)
    /\ won' = won \cup Wins(w, max, kinds)
    /\ ReturnValid(w)
    /\ UNCHANGED <<broker, clock, mode, stops>>

\* A handler that breaks its contract: nothing of the batch is settled.
BatchFailsClosed(w) ==
    /\ phase[w] = "process"
    /\ Leave(w, TRUE)
    /\ UNCHANGED <<store, broker, clock, stops>>

-----------------------------------------------------------------------------
(* Settling.                                                               *)

\* AckSync is tried once; a delivery it fails for is delivered again.
BatchAck(w, d) ==
    /\ phase[w] = "settle" /\ d \in In(w, {"ack"})
    /\ Acknowledge(held[w][d].msg)
    /\ Settle(w, d, "done")
    /\ UNCHANGED <<store, stream, dlq, setup, clock, mode, stops, phase, fatal>>

\* NakWithDelay is repeated until it is sent.
BatchNak(w, d) ==
    /\ phase[w] = "settle" /\ d \in In(w, {"nak"})
    /\ Settle(w, d, "done")
    /\ UNCHANGED <<shared, phase, fatal>>

\* The run context ends: the tasks that are left are abandoned.
SettleCancelled(w) ==
    /\ phase[w] = "settle" /\ mode = "cancelled" /\ In(w, {"ack", "nak"}) # {}
    /\ held' = [held EXCEPT ![w] = [d \in Deliveries(w) |->
                  IF d \in In(w, {"ack", "nak"}) THEN [@[d] EXCEPT !.step = "done"] ELSE @[d]]]
    /\ fatal' = [fatal EXCEPT ![w] = TRUE]
    /\ UNCHANGED <<shared, phase>>

\* The dead letter whose turn it is, once the other tasks are over.
Turn(w, d) ==
    /\ phase[w] = "settle" /\ In(w, {"ack", "nak"}) = {}
    /\ d \in In(w, {"publish", "ack_record"})
    /\ \A e \in In(w, {"publish", "ack_record"}) : d <= e

\* A record that cannot be prepared is fatal, and the next delivery follows.
BatchPreparationFails(w, d) ==
    /\ Turn(w, d) /\ held[w][d].step = "publish" /\ Of(held[w][d]).fp \in Unrecordable
    /\ Settle(w, d, "done")
    /\ fatal' = [fatal EXCEPT ![w] = TRUE]
    /\ UNCHANGED <<shared, phase>>

BatchPublishRecord(w, d) ==
    /\ Turn(w, d) /\ held[w][d].step = "publish" /\ Of(held[w][d]).fp \notin Unrecordable
    /\ StoreRecord(Of(held[w][d]), held[w][d].fate)
    /\ Settle(w, d, "ack_record")
    /\ UNCHANGED <<store, stream, acked, setup, clock, mode, stops, phase, fatal>>

\* The answer is lost after the record is stored; the loop publishes again.
BatchPublishUnknown(w, d) ==
    /\ Turn(w, d) /\ held[w][d].step = "publish" /\ Of(held[w][d]).fp \notin Unrecordable
    /\ StoreRecord(Of(held[w][d]), held[w][d].fate)
    /\ UNCHANGED <<store, stream, acked, setup, clock, mode, stops, batchWorker>>

BatchAckRecord(w, d) ==
    /\ Turn(w, d) /\ held[w][d].step = "ack_record"
    /\ acked' = acked \cup {held[w][d].msg}
    /\ Settle(w, d, IF held[w][d].fate \in HandlerFates THEN "confirm" ELSE "done")
    /\ UNCHANGED <<store, stream, dlq, setup, clock, mode, stops, phase, fatal>>

BatchAckUnknown(w, d) ==
    /\ Turn(w, d) /\ held[w][d].step = "ack_record"
    /\ acked' = acked \cup {held[w][d].msg}
    /\ UNCHANGED <<store, stream, dlq, setup, clock, mode, stops, batchWorker>>

\* Both loops end with the run context.
BatchHandoffCancelled(w, d) ==
    /\ Turn(w, d) /\ mode = "cancelled"
    /\ Settle(w, d, "done")
    /\ fatal' = [fatal EXCEPT ![w] = TRUE]
    /\ UNCHANGED <<shared, phase>>

\* Only when every dead letter has had its turn are the hand-offs confirmed.
TurnsOver(w) == phase[w] = "settle" /\ In(w, {"ack", "nak", "publish", "ack_record"}) = {}

BatchConfirm(w, d, now) ==
    /\ TurnsOver(w) /\ d \in In(w, {"confirm"})
    /\ LET m == Of(held[w][d]) IN ConfirmTerminalHandoff(m.key, m.fp, m.gen, now)
    /\ Settle(w, d, "done")
    /\ UNCHANGED <<won, broker, clock, mode, stops, phase, fatal>>

\* A failed confirmation is logged; the five seconds end the others.
BatchConfirmFails(w, d) ==
    /\ TurnsOver(w) /\ d \in In(w, {"confirm"})
    /\ Settle(w, d, "done")
    /\ UNCHANGED <<shared, phase, fatal>>

Finished(w) ==
    /\ TurnsOver(w) /\ In(w, {"confirm"}) = {}
    /\ Leave(w, fatal[w])
    /\ UNCHANGED <<store, broker, clock, stops>>

-----------------------------------------------------------------------------
BatchCrash ==
    /\ stops < setup.stops /\ stops' = stops + 1
    /\ phase' = [w \in Workers |-> "idle"]
    /\ held' = [w \in Workers |-> <<>>]
    /\ fatal' = [w \in Workers |-> FALSE]
    /\ mode' = "running"
    /\ UNCHANGED <<store, broker, clock>>

BatchRestart ==
    /\ mode # "running"
    /\ \A w \in Workers : phase[w] = "idle"
    /\ mode' = "running"
    /\ UNCHANGED <<store, broker, clock, stops, batchWorker>>

BatchOutcomes(w) ==
    /\ phase[w] = "process"
    /\ \E max \in Limits : \E kinds \in [DOMAIN BatchItems(w) -> FailureKinds] :
          BatchProcessed(w, max, kinds) \/ BatchCommitUnknown(w, max, kinds)

BatchHandoff(w, d) ==
    \/ BatchAck(w, d) \/ BatchNak(w, d)
    \/ BatchPreparationFails(w, d) \/ BatchPublishRecord(w, d) \/ BatchPublishUnknown(w, d)
    \/ BatchAckRecord(w, d) \/ BatchAckUnknown(w, d) \/ BatchHandoffCancelled(w, d)
    \/ BatchConfirmFails(w, d) \/ \E now \in Times : BatchConfirm(w, d, now)

BatchNext ==
    \/ \E w \in Workers :
          \/ \E i \in DOMAIN stream : FetchFirst(w, i) \/ FetchFill(w, i)
          \/ FillEnds(w) \/ PullFails(w) \/ Classify(w)
          \/ BatchOutcomes(w) \/ BatchRolledBack(w) \/ BatchFailsClosed(w)
          \/ SettleCancelled(w) \/ Finished(w)
          \/ \E d \in Deliveries(w) : BatchHandoff(w, d)
    \/ BatchCrash \/ BatchRestart
=============================================================================
