----------------------------- MODULE NatsPublish -----------------------------
(***************************************************************************)
(* The NATS route: one message is published and confirmed by JetStream, a  *)
(* batch is published in chunks, each enqueued before its confirmations    *)
(* are awaited in order.                                                   *)
(*                                                                         *)
(* flow[c].valid   the items of the call that are to be published          *)
(* flow[c].start   how many of them are in the chunks before this one      *)
(* flow[c].next    how many were enqueued                                  *)
(***************************************************************************)
EXTENDS Publication

CONSTANT PublishWindow           \* Route.publishWindow

VARIABLES
    flow,
    flight                       \* messages sent and not yet at the broker

natsRoute == <<flow, flight>>

NoFlow == [valid |-> <<>>, start |-> 0, next |-> 0]

NatsInit == flow = [c \in Callers |-> NoFlow] /\ flight = {}

Item(c, n) == flow[c].valid[n]
Sent(c, n) == call[c].items[Item(c, n)]

\* prepareEnvelopeBatch, and preparePublishMessage of a single message: what is
\* too late or too early is answered, the rest is published.
Prepare(c) ==
    LET ans == [i \in DOMAIN call[c].items |-> Timed(call[c].items[i])]
        valid == SelectSeq([i \in DOMAIN ans |-> i], LAMBDA i : ans[i] = "")
    IN  /\ call[c].pc = "call"
        /\ call' = [call EXCEPT ![c].ans = ans,
                                ![c].pc = IF valid = <<>> THEN "answered"
                                          ELSE IF call[c].batch THEN "create" ELSE "publish"]
        /\ flow' = [flow EXCEPT ![c] = [NoFlow EXCEPT !.valid = valid]]
        /\ UNCHANGED <<fleet, topic, times, mishaps, flight>>

\* PublishMsg: the message is stored and the answer arrives, or either fails.
PublishMsg(c, stored, heard) ==
    /\ call[c].pc = "publish"
    /\ heard => stored
    /\ IF heard THEN UNCHANGED mishaps ELSE Mishap
    /\ topic' = IF stored THEN topic \cup Pending(c) ELSE topic
    /\ Answer(c, IF heard THEN "ok" ELSE "error", "answered")
    /\ UNCHANGED <<fleet, times, natsRoute>>

\* The asynchronous publisher of the batch; without it the call fails as a whole.
CreatePublisher(c, ok) ==
    /\ call[c].pc = "create"
    /\ IF ok THEN Goto(c, "enqueue") /\ UNCHANGED mishaps
             ELSE /\ Mishap
                  /\ call' = [call EXCEPT ![c].pc = "answered", ![c].ans = [i \in DOMAIN @ |-> "error"]]
    /\ UNCHANGED <<fleet, topic, times, natsRoute>>

ChunkEnd(c) == Min({flow[c].start + PublishWindow, Len(flow[c].valid)})

\* The next item of the chunk is sent, or refused by the publisher.
Enqueue(c, ok) ==
    LET n == flow[c].next + 1
    IN  /\ call[c].pc = "enqueue"
        /\ flow' = [flow EXCEPT ![c].next = n]
        /\ flight' = IF ok THEN flight \cup {Sent(c, n)} ELSE flight
        /\ IF ok THEN UNCHANGED mishaps ELSE Mishap
        /\ call' = [call EXCEPT ![c].pc = IF n = ChunkEnd(c) THEN "await" ELSE @,
                                ![c].ans[Item(c, n)] = IF ok THEN @ ELSE "error"]
        /\ UNCHANGED <<fleet, topic, times>>

\* The futures of the chunk that are not resolved, as indices into valid.
Unresolved(c) == {n \in flow[c].start + 1 .. flow[c].next : call[c].ans[Item(c, n)] = ""}

\* The first unresolved future is: with the confirmation of the broker, or with
\* an error, that of a confirmation that did not come in time included.
Await(c, ok) ==
    /\ call[c].pc = "await" /\ Unresolved(c) # {}
    /\ LET n == Min(Unresolved(c))
       IN  /\ ok => Sent(c, n) \in topic \ flight
           /\ call' = [call EXCEPT ![c].ans[Item(c, n)] = IF ok THEN "ok" ELSE "error"]
    /\ IF ok THEN UNCHANGED mishaps ELSE Mishap
    /\ UNCHANGED <<fleet, topic, times, natsRoute>>

ChunkOver(c) ==
    /\ call[c].pc = "await" /\ Unresolved(c) = {}
    /\ flow' = [flow EXCEPT ![c].start = flow[c].next]
    /\ Goto(c, IF flow[c].next = Len(flow[c].valid) THEN "answered" ELSE "enqueue")
    /\ UNCHANGED <<fleet, topic, times, mishaps, flight>>

\* The caller's context ends between two items, or while a future is awaited:
\* markRemaining gives its error to all that have no answer, of later chunks too.
CallCancelled(c) ==
    /\ call[c].pc = "enqueue" \/ (call[c].pc = "await" /\ Unresolved(c) # {})
    /\ Mishap
    /\ Answer(c, "error", "answered")
    /\ UNCHANGED <<fleet, topic, times, natsRoute>>

\* JetStream stores a message that was sent, also when nobody waits for it.
Arrives(m) ==
    /\ m \in flight
    /\ flight' = flight \ {m}
    /\ topic' = topic \cup {m}
    /\ UNCHANGED <<fleet, call, times, mishaps, flow>>

Vanishes(m) ==
    /\ m \in flight
    /\ Mishap
    /\ flight' = flight \ {m}
    /\ UNCHANGED <<fleet, call, topic, times, flow>>

NatsNext ==
    \/ \E c \in fleet.callers :
          \/ Prepare(c) \/ ChunkOver(c) \/ CallCancelled(c)
          \/ \E ok \in BOOLEAN : CreatePublisher(c, ok) \/ Enqueue(c, ok) \/ Await(c, ok)
          \/ \E stored, heard \in BOOLEAN : PublishMsg(c, stored, heard)
    \/ \E m \in flight : Arrives(m) \/ Vanishes(m)
=============================================================================
