----------------------------- MODULE KafkaBroker -----------------------------
(***************************************************************************)
(* The Kafka side of a consumer group as the consumer code uses it: the    *)
(* partitions of the source topic, of a retry topic and of the replay      *)
(* topic, the dead-letter topic, the group's offsets and assignment, the   *)
(* Inbox and the clock.                                                    *)
(*                                                                         *)
(* Offsets count records: committed[p] records of p are committed for the  *)
(* group, the next record for the member that owns p is pos[p] + 1 (the    *)
(* head of its client), and its client holds the first mark[p] records for *)
(* committed (CommittedOffsets).                                           *)
(***************************************************************************)
EXTENDS Naturals, Sequences, FiniteSets

CONSTANTS
    Workers,                     \* members of all instances
    Keys, Fps, Undecodable,      \* identities, contents, contents decode rejects
    Limits, Times, Null,
    MaxRetries,                  \* bound on the records of the retry topic
    Setups                       \* the instances a run looks at

Parts == {"source", "retry", "replay"}
NoGen == 0
Gens  == 0 .. 1
Ops   == {"ProcessAttempt", "ProcessBatchAttempt", "ConfirmTerminalHandoff"}

VARIABLES
    db, effects, won,            \* the Inbox, and the contents that had an effect (history)
    log,                         \* the records of each partition
    dlq,                         \* the dead-letter topic
    committed, owner, pos, mark, \* group offsets, assignment, the owner's head and marker
    due,                         \* retry records whose not-before time has come
    expired, waiting,            \* contents past their ExpiresAt, before their NotBefore
    faults, setup

store  == <<db, effects, won>>
topics == <<log, dlq>>
group  == <<committed, owner, pos, mark>>
clock  == <<due, expired, waiting>>
shared == <<store, topics, group, clock, faults, setup>>

Store == INSTANCE InboxLedger

\* A record keeps the topic position it descends from through every retry.
Record == [key : Keys, fp : Fps, gen : Gens, origin : {"source", "replay"} \X Nat]
HandlerFates == {"permanent", "attempts_exhausted"}

\* An instance: single messages or batches, the members of the group, the
\* source records, the contents with an ExpiresAt (and those whose ExpiresAt is
\* before the end of any retry delay), the contents with a NotBefore, whether
\* a dead letter is replayed, and a bound on rebalances, failures and crashes.
Setup == [shape : {"single", "batch"}, workers : SUBSET Workers,
          source : Seq(Record), expirable : SUBSET Fps, brief : SUBSET Fps,
          scheduled : SUBSET Fps, replays : BOOLEAN, faults : Nat]

ASSUME BrokerAssumption ==
    /\ Undecodable \subseteq Fps
    /\ MaxRetries \in Nat
    /\ Setups \subseteq Setup

BrokerInit ==
    /\ Store!Init /\ won = {}
    /\ setup \in Setups
    /\ log = [p \in Parts |-> IF p = "source" THEN setup.source ELSE <<>>]
    /\ dlq = <<>>
    /\ committed = [p \in Parts |-> 0]
    /\ owner = [p \in Parts |-> Null]
    /\ pos = [p \in Parts |-> 0]
    /\ mark = [p \in Parts |-> 0]
    /\ due = {} /\ expired = {} /\ waiting = setup.scheduled
    /\ faults = 0

Fault == faults < setup.faults /\ faults' = faults + 1

-----------------------------------------------------------------------------
(* The clock and the operator.                                             *)

\* The not-before time in the control headers of a retry record passes; a
\* retry of a scheduled message is not due before the message.
Ripen(n) ==
    /\ n > committed["retry"] /\ n \notin due /\ log["retry"][n].fp \notin waiting
    /\ due' = due \cup {n}
    /\ UNCHANGED <<store, topics, group, expired, waiting, faults, setup>>

Expire(fp) ==
    /\ fp \in setup.expirable \ expired
    /\ expired' = expired \cup {fp}
    /\ UNCHANGED <<store, topics, group, due, waiting, faults, setup>>

Mature(fp) ==
    /\ fp \in waiting
    /\ waiting' = waiting \ {fp}
    /\ UNCHANGED <<store, topics, group, due, expired, faults, setup>>

\* A dead letter can be replayed if its original still is a valid message of
\* its source topic; what did not decode is not.
PlanDLQReplay(record) == record.fp \notin Undecodable

\* The original bytes under a generation of their own.
ReplayDLQ(record) == [key |-> record.key, fp |-> record.fp, gen |-> 1, origin |-> <<"replay", 1>>]

\* The record goes to the consumer's replay topic, in a transaction of its own.
PublishReplay(n) ==
    /\ setup.replays /\ log["replay"] = <<>>
    /\ PlanDLQReplay(dlq[n])
    /\ log' = [log EXCEPT !["replay"] = Append(@, ReplayDLQ(dlq[n]))]
    /\ UNCHANGED <<store, dlq, group, clock, faults, setup>>

Outside ==
    \/ \E n \in DOMAIN log["retry"] : Ripen(n)
    \/ \E fp \in Fps : Expire(fp) \/ Mature(fp)
    \/ \E n \in DOMAIN dlq : PublishReplay(n)

-----------------------------------------------------------------------------
(* Properties.                                                             *)

Origins == {log["source"][n].origin : n \in DOMAIN log["source"]} \cup
           {log["replay"][n].origin : n \in DOMAIN log["replay"]}

\* The records that still carry the message published at origin o: those the
\* group will be given again.
Carriers(o) ==
    {<<p, n>> \in UNION {{p} \X (committed[p] + 1 .. Len(log[p])) : p \in Parts} : log[p][n].origin = o}

DeadLetters(o) == {n \in DOMAIN dlq : dlq[n].origin = o}

Published(o) == log[o[1]][o[2]]

InOnePlace(o) ==
    LET places == Cardinality(Carriers(o)) + Cardinality(DeadLetters(o))
    IN  /\ places <= 1
        /\ places = 0 => <<Published(o).key, Published(o).fp>> \in won

\* A message of a single-record consumer is in exactly one place: carried by
\* one record that the group will be given again, or dead-lettered once, or its
\* effect is committed.  Neither a rebalance during the handler, nor a
\* transaction that is aborted or whose answer is lost, nor a crash between the
\* Inbox and the broker, nor a deferred retry duplicates a retry or skips a
\* record.
OnePlace == setup.shape = "single" => \A o \in Origins : InOnePlace(o)

\* The same of a batch consumer, whose one transaction is documented to publish
\* the retries and dead letters and to commit the offset of the range.
RangeInOnePlace == setup.shape = "batch" => \A o \in Origins : InOnePlace(o)

\* Retention may only ever see a confirmation of a hand-off whose dead letter
\* is committed.
ConfirmedIsHandedOff ==
    \A k \in Keys, s \in Store!Slots :
        Store!Closed(db[k], s) /\ db[k].term[s].confirmed # Null =>
            \E n \in DOMAIN dlq : dlq[n].key = k /\ dlq[n].fp = s[1] /\ dlq[n].gen = s[2]

\* Every message of a single-record consumer is eventually handled or
\* dead-lettered, and its record and its retries are committed, despite
\* finitely many rebalances, failures and crashes and retries that come back
\* before they are due.
Settles == setup.shape = "single" => <>[](\A o \in Origins : Carriers(o) = {})
=============================================================================
