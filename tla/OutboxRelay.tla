----------------------------- MODULE OutboxRelay -----------------------------
(***************************************************************************)
(* The outbox producer, which stages messages in the caller's transaction, *)
(* and the relay jobs, which publish the staged messages one at a time or  *)
(* in batches through the route of either broker.  The table of jobs, its  *)
(* leases and its count of attempts belong to the outbox library.          *)
(***************************************************************************)
EXTENDS KafkaTransport, NatsPublish

CONSTANTS
    Garbled,                     \* messages whose stored payload does not decode
    MaxAttempts,
    MaxBatch

VARIABLES
    jobs,                        \* per message: state of its job, attempts used
    claim                        \* per relay worker: the claimed messages, in order

outboxVars == <<jobs, claim>>
relay == <<fleet, call, topic, times, mishaps, transport, natsRoute, outboxVars>>

OutboxInit ==
    /\ PublicationInit /\ TransportInit /\ NatsInit
    /\ jobs = [m \in Msgs |-> [state |-> "none", tries |-> 0]]
    /\ claim = [c \in Callers |-> <<>>]

JobsIn(state) == {m \in Msgs : jobs[m].state = state}

SetJobs(ms, state) == jobs' = [m \in Msgs |-> IF m \in ms THEN [jobs[m] EXCEPT !.state = state] ELSE jobs[m]]

\* The jobs are put in the transaction of the caller, all or none, and the relay
\* sees them when it commits; a message that is a job already keeps it.
Stage(ms) ==
    /\ ms \cap JobsIn("none") # {}
    /\ SetJobs(ms \cap JobsIn("none"), "ready")
    /\ UNCHANGED <<claim, call, topic, times, mishaps>>

Deliver(m) == Stage({m})

DeliverBatch(ms) == ms # {} /\ Cardinality(ms) <= MaxBatch /\ Stage(ms)

\* A relay worker claims jobs; what does not decode is not published.  The
\* single relay takes one job.
Claim(c, items, batch) ==
    LET payloads == SelectSeq(items, LAMBDA m : m \notin Garbled)
    IN  /\ call[c].pc = "idle"
        /\ ~batch => Len(items) = 1
        /\ SetJobs({items[i] : i \in DOMAIN items}, "claimed")
        /\ claim' = [claim EXCEPT ![c] = items]
        /\ call' = [call EXCEPT ![c] = [pc |-> IF payloads = <<>> THEN "answered" ELSE "call",
                                        items |-> payloads, batch |-> batch,
                                        ans |-> [i \in DOMAIN payloads |-> ""]]]
        /\ UNCHANGED <<topic, times, mishaps>>

\* Variant: the answers are read by the index of the item, not of the payload.
PositionIgnored(c, i) == i

\* positions, inverted: the payload an item became.
Position(c, i) == Cardinality({j \in 1..i : claim[c][j] \notin Garbled})

\* What became of an item of the claim.
ItemAnswer(c, i) ==
    IF claim[c][i] \in Garbled THEN "permanent"
    ELSE IF Position(c, i) \in DOMAIN call[c].ans THEN call[c].ans[Position(c, i)] ELSE "ok"

\* The outcome of a job: a permanent error ends it, a retry of a single relay
\* and a plain error use an attempt, a deferred batch item uses none.
JobOutcome(job, answer, batch) ==
    LET tries == IF answer = "later" /\ batch THEN job.tries ELSE job.tries + 1
    IN  [state |-> CASE answer = "ok" -> "done"
                     [] answer = "permanent" -> "dead"
                     [] OTHER -> IF tries >= MaxAttempts THEN "dead" ELSE "ready",
         tries |-> tries]

\* Handle and HandleBatch return, and the outbox records the result.
Finished(c) ==
    /\ call[c].pc = "answered"
    /\ jobs' = [m \in Msgs |->
                 IF \E i \in DOMAIN claim[c] : claim[c][i] = m
                 THEN LET i == CHOOSE i \in DOMAIN claim[c] : claim[c][i] = m
                      IN  JobOutcome(jobs[m], ItemAnswer(c, i), call[c].batch)
                 ELSE jobs[m]]
    /\ claim' = [claim EXCEPT ![c] = <<>>]
    /\ call' = [call EXCEPT ![c] = Idle]
    /\ UNCHANGED <<topic, times, mishaps>>

\* The process ends, or its lease does, before the result is recorded: the jobs
\* are claimed again, published or not.
ResultLost(c) ==
    /\ call[c].pc = "answered" /\ Mishap
    /\ SetJobs({claim[c][i] : i \in DOMAIN claim[c]}, "ready")
    /\ claim' = [claim EXCEPT ![c] = <<>>]
    /\ call' = [call EXCEPT ![c] = Idle]
    /\ UNCHANGED <<topic, times>>

OutboxStep ==
    /\ \/ \E m \in fleet.msgs : Deliver(m)
       \/ \E ms \in SUBSET fleet.msgs : DeliverBatch(ms)
       \/ \E c \in fleet.callers :
             \/ Finished(c) \/ ResultLost(c)
             \/ \E n \in 1..MaxBatch : \E batch \in BOOLEAN : \E items \in [1..n -> JobsIn("ready")] :
                   IsInjective(items) /\ Claim(c, items, batch)
    /\ UNCHANGED <<fleet, transport, natsRoute>>

OutboxNext ==
    \/ OutboxStep
    \/ TimeGoesBy /\ UNCHANGED <<transport, natsRoute, outboxVars>>
    \/ fleet.via = "kafka" /\ TransportNext /\ UNCHANGED <<natsRoute, outboxVars>>
    \/ fleet.via = "nats" /\ NatsNext /\ UNCHANGED <<transport, outboxVars>>

OutboxSpec == OutboxInit /\ [][OutboxNext]_relay

\* A job is done only if the broker has its message, whatever other items its
\* batch had, however the transaction of Kafka or the futures of JetStream were
\* answered or cancelled, and whoever claimed it before: no message of a
\* committed host transaction is dropped as published.
DoneIsPublished == JobsIn("done") \subseteq topic
=============================================================================
