---------------------------- MODULE NatsConsumer ----------------------------
(***************************************************************************)
(* The NATS JetStream single-message consumer: its pull loop hands each    *)
(* message to a worker, which processes it in the Inbox and then           *)
(* acknowledges it, gives it back or dead-letters it.                      *)
(***************************************************************************)
EXTENDS JetStream

VARIABLES pc, msg, fate          \* of each worker

worker == <<pc, msg, fate>>

WorkerInit ==
    /\ pc = [w \in Workers |-> "idle"]
    /\ msg = [w \in Workers |-> 0]
    /\ fate = [w \in Workers |-> "decode"]

Fp(w)   == stream[msg[w]].fp
Gen(w)  == stream[msg[w]].gen
Key(w)  == stream[msg[w]].key
Slot(w) == AttemptFingerprint(Fp(w), Gen(w))
Stored(w) == db[Key(w)]
Win(w)  == <<Key(w), Fp(w), Gen(w)>>

Goto(w, label)  == pc' = [pc EXCEPT ![w] = label]
Doom(w, reason) == Goto(w, "publish") /\ fate' = [fate EXCEPT ![w] = reason]

-----------------------------------------------------------------------------
(* The consumer.  A message is checked, processed in the Inbox and then    *)
(* acknowledged, given back or dead-lettered.                              *)

\* The pull loop hands a message to the workers; the channel between them holds
\* it until one begins, whatever a drain or a cancellation did in between.
Receive(w, i) ==
    /\ w \in setup.workers /\ mode = "running" /\ pc[w] = "idle" /\ i \notin acked
    /\ msg' = [msg EXCEPT ![w] = i]
    /\ Goto(w, "assigned")
    /\ UNCHANGED <<store, broker, clock, mode, stops, fate>>

Begin(w) ==
    /\ pc[w] = "assigned"
    /\ IF Fp(w) \in Undecodable THEN Doom(w, "decode")
       ELSE IF Fp(w) \in expired THEN Doom(w, "expired")
       ELSE /\ Goto(w, IF Fp(w) \in waiting THEN "nak" ELSE "process")
            /\ UNCHANGED fate
    /\ UNCHANGED <<store, broker, clock, mode, stops, msg>>

\* An error with the run context cancelled leaves the message to redelivery.
Fail(w, label) == Goto(w, IF mode = "cancelled" THEN "idle" ELSE label)

FailTerminal(w, reason) ==
    IF mode = "cancelled" THEN Goto(w, "idle") /\ UNCHANGED fate ELSE Doom(w, reason)

\* What ProcessAttempt decides for the message of w under limit max.
AttemptDecision(w, max) ==
    IF Present(Stored(w)) THEN NextAttempt(Stored(w), Slot(w), max) ELSE FirstAttempt

\* Variant: a deferral reports the attempt it did not consume.
ReportedCounted(w, max, kind) == AttemptDecision(w, max).attempt

\* The attempt reported with a failed handler: a deferral is not counted.
Reported(w, max, kind) ==
    IF kind = "defer" THEN AttemptDecision(w, max).attempt - 1 ELSE AttemptDecision(w, max).attempt

AfterHandler(w, max, kind) ==
    IF kind = "success" THEN Goto(w, "ack") /\ UNCHANGED fate
    ELSE IF kind = "permanent" THEN FailTerminal(w, "permanent")
    ELSE IF Reported(w, max, kind) >= max THEN FailTerminal(w, "attempts_exhausted")
    ELSE Fail(w, "nak") /\ UNCHANGED fate

\* Variant: an identity conflict is retried like any other error.
ConflictsRetried(w) ==
    /\ pc[w] = "process"
    /\ Present(Stored(w)) /\ Stored(w).ident.fp # Fp(w)
    /\ Fail(w, "nak")
    /\ UNCHANGED <<store, broker, clock, mode, stops, msg, fate>>

\* ProcessAttempt finds the identity under other content, or completed.
Conflicts(w) ==
    /\ pc[w] = "process"
    /\ Present(Stored(w)) /\ Stored(w).ident.fp # Fp(w)
    /\ FailTerminal(w, "identity_conflict")
    /\ UNCHANGED <<store, broker, clock, mode, stops, msg>>

Duplicate(w) ==
    /\ pc[w] = "process"
    /\ Completed(Stored(w)) /\ Stored(w).ident.fp = Fp(w)
    /\ Goto(w, "ack")
    /\ UNCHANGED <<store, broker, clock, mode, stops, msg, fate>>

\* ProcessAttempt commits: the generation is closed, or the handler ran.
Processed(w, max, kind) ==
    /\ pc[w] = "process"
    /\ ProcessAttempt(Key(w), Fp(w), Gen(w), max, kind)
    /\ IF AttemptDecision(w, max).closed # ""
       THEN FailTerminal(w, AttemptDecision(w, max).closed) /\ UNCHANGED won
       ELSE /\ AfterHandler(w, max, kind)
            /\ won' = IF kind = "success" THEN won \cup {Win(w)} ELSE won
    /\ UNCHANGED <<broker, clock, mode, stops, msg>>

\* The answer to the commit is lost: the consumer sees an error of the store.
CommitUnknown(w, max, kind) ==
    /\ pc[w] = "process"
    /\ ProcessAttempt(Key(w), Fp(w), Gen(w), max, kind)
    /\ won' = IF AttemptDecision(w, max).closed = "" /\ kind = "success"
              THEN won \cup {Win(w)} ELSE won
    /\ Fail(w, "nak")
    /\ UNCHANGED <<broker, clock, mode, stops, msg, fate>>

\* The transaction is rolled back: a store failure or an ended context.
RolledBack(w) ==
    /\ pc[w] = "process"
    /\ Fail(w, "nak")
    /\ UNCHANGED <<store, broker, clock, mode, stops, msg, fate>>

\* After success DoubleAck is tried once, under a context of its own.
Ack(w) ==
    /\ pc[w] = "ack"
    /\ Acknowledge(msg[w])
    /\ Goto(w, "idle")
    /\ UNCHANGED <<store, stream, dlq, setup, clock, mode, stops, msg, fate>>

\* NakWithDelay: the message is delivered again, whether or not it arrives.
Nak(w) ==
    /\ pc[w] = "nak"
    /\ Goto(w, "idle")
    /\ UNCHANGED <<store, broker, clock, mode, stops, msg, fate>>

-----------------------------------------------------------------------------
(* The dead-letter hand-off.                                               *)

\* prepareDLQ fails: the consumer stops itself.
PreparationFails(w) ==
    /\ pc[w] = "publish" /\ Fp(w) \in Unrecordable
    /\ mode' = "cancelled"
    /\ Goto(w, "idle")
    /\ UNCHANGED <<store, broker, clock, stops, msg, fate>>

PublishRecord(w) ==
    /\ pc[w] = "publish" /\ Fp(w) \notin Unrecordable
    /\ StoreRecord(stream[msg[w]], fate[w])
    /\ Goto(w, "ack_record")
    /\ UNCHANGED <<store, stream, acked, setup, clock, mode, stops, msg, fate>>

\* The answer is lost after the record is stored; the loop publishes again.
PublishUnknown(w) ==
    /\ pc[w] = "publish" /\ Fp(w) \notin Unrecordable
    /\ StoreRecord(stream[msg[w]], fate[w])
    /\ UNCHANGED <<store, stream, acked, setup, clock, mode, stops, worker>>

\* The source is acknowledged until the broker confirms it; only then is the
\* hand-off of a handler failure confirmed in the Inbox.
AckRecord(w) ==
    /\ pc[w] = "ack_record"
    /\ acked' = acked \cup {msg[w]}
    /\ Goto(w, IF fate[w] \in HandlerFates THEN "confirm" ELSE "idle")
    /\ UNCHANGED <<store, stream, dlq, setup, clock, mode, stops, msg, fate>>

AckUnknown(w) ==
    /\ pc[w] = "ack_record"
    /\ acked' = acked \cup {msg[w]}
    /\ UNCHANGED <<store, stream, dlq, setup, clock, mode, stops, worker>>

\* Variant: an interrupted hand-off is confirmed like a finished one.
HandoffCancelledConfirmed(w) ==
    /\ mode = "cancelled" /\ pc[w] \in {"publish", "ack_record"}
    /\ Goto(w, IF fate[w] \in HandlerFates THEN "confirm" ELSE "idle")
    /\ UNCHANGED <<store, broker, clock, mode, stops, msg, fate>>

\* Both loops end when the run context does.
HandoffCancelled(w) ==
    /\ mode = "cancelled" /\ pc[w] \in {"publish", "ack_record"}
    /\ Goto(w, "idle")
    /\ UNCHANGED <<store, broker, clock, mode, stops, msg, fate>>

Confirm(w, now) ==
    /\ pc[w] = "confirm"
    /\ ConfirmTerminalHandoff(Key(w), Fp(w), Gen(w), now)
    /\ Goto(w, "idle")
    /\ UNCHANGED <<won, broker, clock, mode, stops, msg, fate>>

\* A failed confirmation is logged and not repeated.
ConfirmFails(w) ==
    /\ pc[w] = "confirm"
    /\ Goto(w, "idle")
    /\ UNCHANGED <<store, broker, clock, mode, stops, msg, fate>>

-----------------------------------------------------------------------------
(* Drain, cancellation, crash, and the start of a new consumer.            *)

Crash ==
    /\ stops < setup.stops /\ stops' = stops + 1
    /\ pc' = [w \in Workers |-> "idle"]
    /\ mode' = "running"
    /\ UNCHANGED <<store, broker, clock, msg, fate>>

Restart ==
    /\ mode # "running"
    /\ \A w \in Workers : pc[w] = "idle"
    /\ mode' = "running"
    /\ UNCHANGED <<store, broker, clock, stops, worker>>

Outcome(w) ==
    \E max \in Limits, kind \in FailureKinds :
        Processed(w, max, kind) \/ CommitUnknown(w, max, kind)

Handoff(w) ==
    \/ PreparationFails(w) \/ PublishRecord(w) \/ PublishUnknown(w)
    \/ AckRecord(w) \/ AckUnknown(w) \/ HandoffCancelled(w)
    \/ ConfirmFails(w) \/ \E now \in Times : Confirm(w, now)

ConsumerNext ==
    \/ \E w \in Workers :
          \/ \E i \in DOMAIN stream : Receive(w, i)
          \/ Begin(w) \/ Conflicts(w) \/ Duplicate(w) \/ Outcome(w) \/ RolledBack(w)
          \/ Ack(w) \/ Nak(w) \/ Handoff(w)
    \/ Crash \/ Restart

\* The store answers, and the handler does not defer.
Answered(w) ==
    \/ Conflicts(w) \/ Duplicate(w)
    \/ \E max \in Limits, kind \in FailureKinds \ {"defer"} : Processed(w, max, kind)
=============================================================================
