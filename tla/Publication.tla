----------------------------- MODULE Publication -----------------------------
(***************************************************************************)
(* What the routes of both brokers share when they publish stored          *)
(* envelopes: the calls of PublishEnvelope and PublishEnvelopeBatch, the   *)
(* messages the broker has, and the clock.                                 *)
(*                                                                         *)
(* A call is a record: the messages it is to publish, whether they came as *)
(* a batch, and the answer for each of them so far.                        *)
(***************************************************************************)
EXTENDS Naturals, Sequences, FiniteSets, FiniteSetsExt

CONSTANTS
    Callers,                     \* concurrent calls of PublishEnvelope and PublishEnvelopeBatch
    Msgs,
    Fleets,                      \* the broker, callers, stoppers and messages that may take part together
    Unready,                     \* messages whose NotBefore has not come at first
    Expirable,                   \* messages with an ExpiresAt
    MaxTransportFaults           \* failed calls to the broker, cancelled calls, lost results

VARIABLES
    fleet,                       \* the member of Fleets that runs
    call,
    topic,                       \* the messages the broker has
    expired, unready,
    mishaps                      \* faults so far (bound)

times == <<expired, unready>>

Idle == [pc |-> "idle", items |-> <<>>, batch |-> FALSE, ans |-> <<>>]

PublicationInit ==
    /\ fleet \in Fleets
    /\ call = [c \in Callers |-> Idle]
    /\ topic = {}
    /\ expired = {} /\ unready = Unready \cap fleet.msgs
    /\ mishaps = 0

\* One fault less is left.
Mishap == mishaps < MaxTransportFaults /\ mishaps' = mishaps + 1

Goto(c, label) == call' = [call EXCEPT ![c].pc = label]

\* The items without an answer get this one, and the call goes on at label.
Answer(c, a, label) ==
    call' = [call EXCEPT ![c].pc = label,
                         ![c].ans = [i \in DOMAIN @ |-> IF @[i] = "" THEN a ELSE @[i]]]

Pending(c) == {call[c].items[i] : i \in {i \in DOMAIN call[c].ans : call[c].ans[i] = ""}}

\* The checks of a message's ExpiresAt and NotBefore.
Timed(m) == IF m \in expired THEN "permanent" ELSE IF m \in unready THEN "later" ELSE ""

TimeGoesBy ==
    /\ \/ \E m \in (Expirable \cap fleet.msgs) \ expired : expired' = expired \cup {m} /\ UNCHANGED unready
       \/ \E m \in unready : unready' = unready \ {m} /\ UNCHANGED expired
    /\ UNCHANGED <<fleet, call, topic, mishaps>>
=============================================================================
