----------------------------- MODULE MCOutbound -----------------------------
(***************************************************************************)
(* What a host does around its consumers: it builds a Messenger and sends  *)
(* through it, its middleware invokes handlers, its relay publishes the    *)
(* outbox through either broker, it applies a topology, and all of it      *)
(* computes with the functions of Contracts.  These parts share no state,  *)
(* so one of them is chosen and the others stay as they are.               *)
(***************************************************************************)
EXTENDS Messenger, Invocation, OutboxRelay, Topology, Contracts

CONSTANTS c1, c2, s1, m1, m2, m3, m4, g

VARIABLE part

outbound == <<part, messenger, invocation, relay, topologyVars, contract>>

-----------------------------------------------------------------------------
(* Messenger: two types claim one command name, an event and a query have  *)
(* one each; two services claim one ID.                                    *)

Described == {[kind |-> "command", key |-> "c", type |-> 1], [kind |-> "command", key |-> "c", type |-> 2],
              [kind |-> "event", key |-> "e", type |-> 1], [kind |-> "query", key |-> "q", type |-> 1]}

Named == [command |-> {"", "h"}, event |-> {"h", "g"}, query |-> {"h"}]

Service(id, value) == [id |-> id, value |-> value]

Routed ==
    LET route(class, name, service) == [class |-> class, name |-> name, service |-> service]
    IN  {route("sync", "r", None), route("sync", "", None), route("durable", "r", None)}
        \cup {route("async", "r", Service("a", v)) : v \in {"p1", "p2"}}

Used == {Service("a", "p1"), Service("a", "plain"), Service("", "p1"), Service("a", "nil")}

-----------------------------------------------------------------------------
(* The relay over Kafka: two workers race a Shutdown, or one meets every    *)
(* kind of job; and the same jobs over NATS, whose route has no Shutdown.  *)

Fleeting ==
    LET together(via, callers, stoppers, msgs) ==
            [via |-> via, callers |-> callers, stoppers |-> stoppers, msgs |-> msgs]
    IN  {together("kafka", {c1, c2}, {s1}, {m3, m4}), together("kafka", {c1}, {}, {m1, m2, g}),
         together("nats", {c1, c2}, {}, {m3, m4}), together("nats", {c1}, {}, {m1, m2, m3})}

-----------------------------------------------------------------------------
(* Topologies: every drift from the declaration, and incomplete families.  *)

Topic(fixed, limit) == [fixed |-> fixed, limit |-> limit]

KafkaBefore ==
    [source : {Absent} \cup {Topic(p, l) : p \in {1, 2}, l \in {1, 2, Unlimited}},
     retry : {Absent} \cup {Topic(1, l) : l \in {1, Unlimited}},
     dlq : {Absent, Topic(1, 1)}]

KafkaWanted ==
    {[source |-> Topic(p, l), retry |-> Topic(p, rl), dlq |-> Topic(p, 1)] :
        p \in {1, 2}, l \in {1, 2, Unlimited}, rl \in {1, Unlimited}}
    \cup {[source |-> Topic(1, l)] : l \in {1, 2}}
    \cup {[source |-> Topic(1, 1), retry |-> Topic(1, Unlimited)]}

Stream(subjects, limit, age, note) ==
    [fixed |-> 1, subjects |-> subjects, limit |-> limit, age |-> age, note |-> note]
Durable(terms, filter, note) == [contract |-> terms, filter |-> filter, note |-> note]

NatsBefore ==
    {before \in [stream : {Absent, Stream({"s"}, 1, 1, 0), Stream({"s", "t"}, 2, 0, 0), Stream({"s"}, Unlimited, 1, 1)},
               dlq : {Absent, Stream({"d"}, 1, 0, 0), Stream({"d"}, 2, 0, 0)},
               consumer : {Absent, Durable(1, "s", 0), Durable(2, "s", 0)}] :
        before.stream = Absent => before.consumer = Absent}

NatsWanted ==
    {[stream |-> s, dlq |-> d, consumer |-> c] :
        s \in {Stream({"s"}, 2, 1, 1), Stream({"s", "t"}, 2, 0, 1)},
        d \in {Stream({"d"}, l, 0, 1) : l \in {1, 2}},
        c \in {Durable(1, "s", 1), Durable(1, "t", 0)}}
    \cup {[consumer |-> Durable(1, f, 0)] : f \in {"s", "t"}}

Started == {Durable(1, "s", 1), Durable(2, "t", 0)}

-----------------------------------------------------------------------------
(* Durations around every boundary of a 6 bit number.                      *)

DurationsTried == {-1, 0, 1, 2, 3, 5, 10, 15, 16, 30, 31}

-----------------------------------------------------------------------------

Parts == {"messenger", "invocation", "relay", "topology", "contracts"}

\* The parts that are not chosen start in one state.
OutboundInit ==
    /\ part \in Parts
    /\ MessengerInit /\ (part # "messenger" => ~builder.errors)
    /\ IF part = "invocation" THEN InvocationInit
       ELSE /\ shape = "local" /\ chain = <<>> /\ fate = [err |-> "none", items |-> "exact"]
            /\ at = "down" /\ depth = 0 /\ passed = [i \in {0} |-> {0}]
            /\ called = {} /\ ended = {}
            /\ handlerRuns = 0 /\ handlerCtx = {} /\ completion = "none"
            /\ out = Err("none")
    /\ OutboxInit
    /\ part # "relay" => fleet = CHOOSE f \in Fleets : TRUE
    /\ IF part = "topology" THEN TopologyInit
       ELSE /\ broker = "nats" /\ held = [name \in {"stream", "dlq", "consumer"} |-> Absent]
            /\ mutex = Absent /\ apply = [a \in Appliers |-> NotCalled] /\ breaks = 0 /\ meddled = FALSE
    /\ IF part = "contracts" THEN ContractsInit
       ELSE fn = "none" /\ arg = <<>> /\ computed = Uncomputed

OutboundNext ==
    /\ \/ part = "messenger" /\ MessengerNext /\ UNCHANGED <<invocation, relay, topologyVars, contract>>
       \/ part = "invocation" /\ InvocationNext /\ UNCHANGED <<messenger, relay, topologyVars, contract>>
       \/ part = "relay" /\ OutboxNext /\ UNCHANGED <<messenger, invocation, topologyVars, contract>>
       \/ part = "topology" /\ TopologyNext /\ UNCHANGED <<messenger, invocation, relay, contract>>
       \/ part = "contracts" /\ ContractsNext /\ UNCHANGED <<messenger, invocation, relay, topologyVars>>
    /\ UNCHANGED part

OutboundSpec == OutboundInit /\ [][OutboundNext]_outbound
=============================================================================
