------------------------------ MODULE Topology ------------------------------
(***************************************************************************)
(* ApplyTopology of the Kafka and NATS adapters, and the checks a consumer *)
(* makes of the topology when it starts.                                   *)
(*                                                                         *)
(* A resource is a record.  Of a topic or a stream "fixed" stands for what *)
(* may never change (partitions and replication, storage and retention),   *)
(* and "limit" for the bounds that may only grow, with Unlimited above     *)
(* every number; a stream also has its subjects, its largest age, for      *)
(* which 0 means unlimited, and a note, the description, which may change  *)
(* at will.  A durable consumer has its contract, its filter and a note.   *)
(* A declaration maps the names it declares to such records.  Of a         *)
(* consumer's Kafka topics "dlq" stands for the replay topic too, which    *)
(* obeys the same rules; in NATS "consumer" reads "stream", and "dlq" is   *)
(* the stream of its dead letters.                                         *)
(***************************************************************************)
EXTENDS Integers, Sequences, FiniteSets, Functions

CONSTANTS
    Appliers,                    \* concurrent calls of ApplyTopology
    KafkaStates, NatsStates,     \* what the broker may hold at first: functions of names to records
    KafkaDeclared, NatsDeclared, \* what may be declared
    StartedConsumers,            \* the specs consumers are started with
    DLQSubject,                  \* the subject of their dead letters
    Absent,                      \* no such resource
    DefaultMaxDLQMessageBytes,   \* what a message of the DLQ stream must be allowed
    MaxTopologyFaults            \* faults, and changes made by others (bound)

Unlimited == -1

VARIABLES
    broker,                      \* "kafka" or "nats"
    held,                        \* what the broker holds: a record or Absent, per name
    mutex,                       \* holder of topologyMu, or Absent
    apply,                       \* each call: pc, declaration, changes left to apply, result
    breaks,                      \* faults so far (bound)
    meddled                      \* somebody else has changed the broker

topologyVars == <<broker, held, mutex, apply, breaks, meddled>>

NotCalled == [pc |-> "idle", want |-> <<>>, plan |-> <<>>, ret |-> "none", touched |-> FALSE]

TopologyInit ==
    /\ \/ broker = "kafka" /\ held \in KafkaStates
       \/ broker = "nats" /\ held \in NatsStates
    /\ mutex = Absent
    /\ apply = [a \in Appliers |-> NotCalled]
    /\ breaks = 0
    /\ meddled = FALSE

-----------------------------------------------------------------------------
(* Kafka.                                                                  *)

\* compareConfig of a configuration in which -1 means unlimited.
CompareConfig(current, desired) ==
    IF current = desired THEN "none"
    ELSE IF desired = Unlimited \/ (current # Unlimited /\ current < desired) THEN "update"
    ELSE "conflict"

\* One topic of buildTopologyPlan.
TopicChange(current, desired) ==
    IF current = Absent THEN "create"
    ELSE IF current.fixed # desired.fixed THEN "conflict"
    ELSE CompareConfig(current.limit, desired.limit)

\* A retry topic keeps everything.
ValidateServiceTopicSpec(t, spec) == t = "retry" => spec.limit = Unlimited

\* ValidateTopology: a family is complete and its topics have the partitions of
\* the source.
ValidateTopology(want) ==
    /\ DOMAIN want # {}
    /\ \A t \in DOMAIN want : ValidateServiceTopicSpec(t, want[t])
    /\ (\E t \in DOMAIN want : t # "source") =>
          /\ DOMAIN want = {"source", "retry", "dlq"}
          /\ \A t \in DOMAIN want : want[t].fixed = want["source"].fixed

\* ensureTopics, the startup check of a Kafka consumer.
EnsureTopics ==
    /\ \A t \in {"source", "retry", "dlq"} : held[t] # Absent /\ held[t].fixed = held["source"].fixed
    /\ held["retry"].limit = Unlimited

-----------------------------------------------------------------------------
(* NATS.                                                                   *)

DecreasesLimit(current, desired) ==
    IF current < 0 THEN desired >= 0 ELSE desired >= 0 /\ desired < current

DecreasesDuration(current, desired) ==
    IF current = 0 THEN desired > 0 ELSE desired > 0 /\ desired < current

CompareStream(current, desired) ==
    IF \/ current.fixed # desired.fixed
       \/ ~(current.subjects \subseteq desired.subjects)
       \/ DecreasesLimit(current.limit, desired.limit)
       \/ DecreasesDuration(current.age, desired.age)
    THEN "conflict"
    ELSE IF current # desired THEN "update" ELSE "none"

CompareConsumer(current, desired) ==
    IF current.contract # desired.contract \/ current.filter # desired.filter THEN "conflict"
    ELSE IF current # desired THEN "update" ELSE "none"

Compare(name, current, desired) ==
    IF name = "consumer" THEN CompareConsumer(current, desired) ELSE CompareStream(current, desired)

\* validateConsumerAgainstDeclaredStream.
ValidateDeclared(want) ==
    {"stream", "consumer"} \subseteq DOMAIN want => want["consumer"].filter \in want["stream"].subjects

\* resolveConsumerStreamSubjects: as declared, or else as they are.
StreamSubjects(want) ==
    IF "stream" \in DOMAIN want THEN want["stream"].subjects
    ELSE IF held["stream"] = Absent THEN {} ELSE held["stream"].subjects

\* One resource of planTopology; a consumer needs a stream, here or declared, that
\* has its subject.
ResourceChange(name, want) ==
    IF name = "consumer" /\ want[name].filter \notin StreamSubjects(want) THEN "conflict"
    ELSE IF held[name] = Absent THEN "create"
    ELSE Compare(name, held[name], want[name])

\* ensureDLQStream: a dead letter fits the connection and the stream its subject
\* belongs to.
EnsureDLQStream(maxPayload, subject) ==
    /\ maxPayload >= DefaultMaxDLQMessageBytes
    /\ held["dlq"] # Absent /\ subject \in held["dlq"].subjects
    /\ held["dlq"].limit = Unlimited \/ held["dlq"].limit >= DefaultMaxDLQMessageBytes

\* ensureConsumer finds the consumer it wants, or the stream to create it in.
EnsureConsumer(spec) ==
    /\ held["stream"] # Absent
    /\ IF held["consumer"] = Absent THEN spec.filter \in held["stream"].subjects
       ELSE CompareConsumer(held["consumer"], spec) # "conflict"

-----------------------------------------------------------------------------
(* ApplyTopology.                                                          *)

\* The order of the changes: Kafka's by name, NATS streams before consumers.
Order == IF broker = "kafka" THEN <<"dlq", "retry", "source">> ELSE <<"dlq", "stream", "consumer">>

Changes(want) ==
    LET action(name) == IF broker = "kafka" THEN TopicChange(held[name], want[name])
                                            ELSE ResourceChange(name, want)
        declared == SelectSeq(Order, LAMBDA name : name \in DOMAIN want)
    IN  [i \in DOMAIN declared |-> [name |-> declared[i], action |-> action(declared[i])]]

SetApply(a, call) == apply' = [apply EXCEPT ![a] = call]

ReturnApply(a, result) ==
    /\ apply' = [apply EXCEPT ![a].pc = "returned", ![a].ret = result, ![a].plan = <<>>]
    /\ mutex' = IF mutex = a THEN Absent ELSE mutex

\* An invalid declaration changes nothing.  In NATS one call at a time is made:
\* there is no lock, and the broker's update takes no condition.
CallApply(a, want) ==
    /\ apply[a].pc \in {"idle", "returned"}
    /\ broker = "nats" => \A b \in Appliers : apply[b].pc \in {"idle", "returned"}
    /\ IF IF broker = "kafka" THEN ~ValidateTopology(want) ELSE ~ValidateDeclared(want)
       THEN SetApply(a, [NotCalled EXCEPT !.pc = "returned", !.ret = "invalid"])
       ELSE SetApply(a, [NotCalled EXCEPT !.pc = "lock", !.want = want])
    /\ UNCHANGED <<broker, held, mutex, breaks, meddled>>

\* Variant: the mutex is not taken.
LockTopologyNot(a) ==
    /\ apply[a].pc = "lock"
    /\ SetApply(a, [apply[a] EXCEPT !.pc = "plan"])
    /\ UNCHANGED <<broker, held, mutex, breaks, meddled>>

\* topologyMu, held over the plan and its application; NATS has none.
LockTopology(a) ==
    /\ apply[a].pc = "lock"
    /\ IF broker = "kafka" THEN mutex = Absent /\ mutex' = a ELSE UNCHANGED mutex
    /\ SetApply(a, [apply[a] EXCEPT !.pc = "plan"])
    /\ UNCHANGED <<broker, held, breaks, meddled>>

\* Variant: the changes that do not conflict are applied.
PlanTopologyPartly(a) ==
    /\ apply[a].pc = "plan"
    /\ SetApply(a, [apply[a] EXCEPT !.pc = "change",
          !.plan = SelectSeq(Changes(apply[a].want), LAMBDA c : c.action \in {"create", "update"})])
    /\ UNCHANGED <<broker, held, mutex, breaks, meddled>>

\* planTopology; any conflict refuses all of it.
PlanTopology(a) ==
    LET changes == Changes(apply[a].want)
    IN  /\ apply[a].pc = "plan"
        /\ IF \E i \in DOMAIN changes : changes[i].action = "conflict"
           THEN ReturnApply(a, "drift")
           ELSE /\ SetApply(a, [apply[a] EXCEPT !.pc = "change",
                     !.plan = SelectSeq(changes, LAMBDA c : c.action # "none")])
                /\ UNCHANGED mutex
        /\ UNCHANGED <<broker, held, breaks, meddled>>

Changing(a, pc) == apply[a].pc = pc /\ apply[a].plan # <<>>

Inspects(a) == Changing(a, "change") /\ broker = "nats" /\ Head(apply[a].plan).action = "update"

\* The plan cannot be made: the transport is closed, or the broker does not list
\* or describe what it holds; or NATS does not when it is asked again.
InspectionFails(a) ==
    /\ \/ apply[a].pc = "plan"
       \/ Inspects(a)
    /\ breaks < MaxTopologyFaults
    /\ ReturnApply(a, "error")
    /\ breaks' = breaks + 1
    /\ UNCHANGED <<broker, held, meddled>>

\* What a change does to the broker, or Absent if it refuses: what exists is not
\* created, unless NATS has it just so, what does not is not updated.
Changed(a, change) ==
    LET current == held[change.name]
        desired == apply[a].want[change.name]
    IN  IF change.action = "create"
        THEN IF current = Absent \/ (broker = "nats" /\ current = desired) THEN desired ELSE Absent
        ELSE IF current = Absent THEN Absent
        ELSE IF broker = "kafka" THEN [current EXCEPT !.limit = desired.limit] ELSE desired

\* An update of NATS looks again at what it is about to update; what has come to
\* conflict since is refused then.
InspectAgain(a) ==
    LET change == Head(apply[a].plan)
        again == Compare(change.name, held[change.name], apply[a].want[change.name])
    IN  /\ Inspects(a)
        /\ IF again = "conflict" THEN ReturnApply(a, "drift")
           ELSE /\ SetApply(a, IF again = "none" THEN [apply[a] EXCEPT !.plan = Tail(@)]
                                                 ELSE [apply[a] EXCEPT !.pc = "write"])
                /\ UNCHANGED mutex
        /\ UNCHANGED <<broker, held, breaks, meddled>>

\* The call of the broker that makes the change.
Writes(a) ==
    \/ Changing(a, "write")
    \/ Changing(a, "change") /\ (broker = "kafka" \/ Head(apply[a].plan).action = "create")

\* createManagedTopic, updateManagedTopic, applyStreamChange, applyConsumerChange.
ApplyChange(a) ==
    LET change == Head(apply[a].plan)
    IN  /\ Writes(a)
        /\ IF Changed(a, change) = Absent
           THEN ReturnApply(a, "error") /\ UNCHANGED held
           ELSE /\ held' = [held EXCEPT ![change.name] = Changed(a, change)]
                /\ SetApply(a, [apply[a] EXCEPT !.pc = "change", !.plan = Tail(@), !.touched = TRUE])
                /\ UNCHANGED mutex
        /\ UNCHANGED <<broker, breaks, meddled>>

\* The broker's answer is an error, or is lost after the change was made.
ChangeFails(a, made) ==
    LET change == Head(apply[a].plan)
    IN  /\ Writes(a) /\ breaks < MaxTopologyFaults
        /\ made => Changed(a, change) # Absent
        /\ held' = IF made THEN [held EXCEPT ![change.name] = Changed(a, change)] ELSE held
        /\ ReturnApply(a, "error")
        /\ breaks' = breaks + 1
        /\ UNCHANGED <<broker, meddled>>

Applied(a) ==
    /\ apply[a].pc = "change" /\ apply[a].plan = <<>>
    /\ ReturnApply(a, "ok")
    /\ UNCHANGED <<broker, held, breaks, meddled>>

\* Somebody raises a limit of a stream on the NATS server, though not while an
\* update is on its way.
Operator(name) ==
    /\ broker = "nats" /\ held[name] # Absent /\ breaks < MaxTopologyFaults
    /\ \A a \in Appliers : apply[a].pc # "write"
    /\ held[name].limit # Unlimited
    /\ held' = [held EXCEPT ![name].limit = Unlimited]
    /\ breaks' = breaks + 1
    /\ meddled' = TRUE
    /\ UNCHANGED <<broker, mutex, apply>>

\* A NATS consumer starts: it creates its durable consumer, or updates the note of
\* the one there is.
StartConsumer(spec) ==
    /\ broker = "nats" /\ breaks < MaxTopologyFaults
    /\ \A a \in Appliers : apply[a].pc # "write"
    /\ EnsureDLQStream(DefaultMaxDLQMessageBytes, DLQSubject) /\ EnsureConsumer(spec)
    /\ held["consumer"] # spec
    /\ held' = [held EXCEPT !["consumer"] = spec]
    /\ breaks' = breaks + 1
    /\ meddled' = TRUE
    /\ UNCHANGED <<broker, mutex, apply>>

TopologyNext ==
    \/ \E name \in {"stream", "dlq"} : Operator(name)
    \/ \E spec \in StartedConsumers : StartConsumer(spec)
    \/ \E a \in Appliers :
          \/ \E want \in IF broker = "kafka" THEN KafkaDeclared ELSE NatsDeclared : CallApply(a, want)
          \/ LockTopology(a) \/ PlanTopology(a) \/ InspectionFails(a)
          \/ InspectAgain(a) \/ ApplyChange(a) \/ Applied(a)
          \/ \E made \in BOOLEAN : ChangeFails(a, made)

-----------------------------------------------------------------------------
(* Properties.                                                             *)

\* A NATS declaration holds all a consumer needs: its stream, itself and a stream
\* of dead letters that takes one of any size.
Complete(want) ==
    /\ DOMAIN want = {"stream", "consumer", "dlq"}
    /\ DLQSubject \in want["dlq"].subjects
    /\ want["dlq"].limit = Unlimited \/ want["dlq"].limit >= DefaultMaxDLQMessageBytes

\* Once an ApplyTopology of a whole family, or of a complete NATS declaration, has
\* returned without an error, a consumer passes its startup checks (on a NATS server
\* whose messages may be as large as a dead letter), whatever was applied, refused or
\* left half done before and is applied, started or raised after.
AppliedStarts ==
    \A a \in Appliers : apply[a].ret = "ok" =>
        IF broker = "kafka"
        THEN "retry" \in DOMAIN apply[a].want => EnsureTopics
        ELSE Complete(apply[a].want) =>
                /\ EnsureDLQStream(DefaultMaxDLQMessageBytes, DLQSubject)
                /\ EnsureConsumer(apply[a].want["consumer"])

LimitHolds(before, after) ==
    after = Unlimited \/ (before # Unlimited /\ after >= before)

Keeps(name, before, after) ==
    IF name = "consumer" THEN after.contract = before.contract /\ after.filter = before.filter
    ELSE /\ after.fixed = before.fixed /\ LimitHolds(before.limit, after.limit)
         /\ broker = "nats" =>
               /\ before.subjects \subseteq after.subjects
               /\ after.age = 0 \/ (before.age # 0 /\ after.age >= before.age)

\* No step of ApplyTopology or of a starting consumer takes a resource away, changes
\* what is fixed, gives up a subject or lowers a limit or an age, even when another
\* declaration was applied on the same transport or somebody raised the limit since
\* the plan was made.  A call refused for drift has changed nothing, but for one in
\* NATS that found the conflict at its second look, at what somebody else had
\* changed since the plan.
NeverShrinks ==
    /\ [][\A name \in DOMAIN held : held[name] # Absent =>
             held'[name] # Absent /\ Keeps(name, held[name], held'[name])]_topologyVars
    /\ [](\A a \in Appliers :
             apply[a].ret = "drift" /\ apply[a].touched => broker = "nats" /\ meddled)
=============================================================================
