------------------------------ MODULE JetStream ------------------------------
(***************************************************************************)
(* What the NATS consumers share: the source stream, the dead-letter       *)
(* stream, the Inbox, the clock and the state of the consumer process.     *)
(*                                                                         *)
(* The broker delivers a message any number of times, to several workers   *)
(* at once, until it has seen an acknowledgement; answers get lost after   *)
(* taking effect; the process can be killed, cancelled or drained at any   *)
(* step.  The Inbox is the serial ledger, which both stores implement.     *)
(***************************************************************************)
EXTENDS InboxLedger, Sequences

CONSTANTS
    Workers,                     \* goroutines of all instances
    Undecodable, Unrecordable,   \* contents that decode, or prepareDLQ, rejects
    MaxMsgs, MaxCopies,          \* bounds on the stream and on repeated dead letters
    Setups                       \* the instances a run looks at

VARIABLES
    stream, acked,               \* the source stream and its acknowledgement floor
    dlq,                         \* the dead-letter stream
    expired, waiting,            \* what the clock says of the contents
    mode, stops,                 \* the consumer: running, draining, cancelled
    won,                         \* identity and slot of each committed effect (history)
    setup                        \* the instance: see Setup

store  == <<db, effects, won>>
broker == <<stream, acked, dlq, setup>>
clock  == <<expired, waiting>>
shared == <<store, broker, clock, mode, stops>>

Message == [key : Keys, fp : Fps, gen : Gens]

\* An instance: the consumer's shape, its Concurrency goroutines, the messages
\* in the stream at the start and the ones producers add, the contents with an
\* ExpiresAt or a NotBefore, and bounds on the stream and on crashes, cancellations and drains.
Setup == [shape : {"single", "batch"}, workers : SUBSET Workers,
          first : Seq(Message), offers : SUBSET Message,
          expirable : SUBSET Fps, scheduled : SUBSET Fps, msgs : 0 .. MaxMsgs, stops : Nat]
HandlerFates == {"permanent", "attempts_exhausted"}
Fates == {"decode", "expired", "identity_conflict"} \cup HandlerFates

ASSUME StreamAssumption ==
    /\ Undecodable \cup Unrecordable \subseteq Fps
    /\ {MaxMsgs, MaxCopies} \subseteq Nat \ {0}
    /\ Setups \subseteq Setup

SharedInit ==
    /\ Init
    /\ setup \in Setups
    /\ stream = setup.first /\ acked = {} /\ dlq = <<>>
    /\ expired = {} /\ waiting = setup.scheduled
    /\ mode = "running" /\ stops = 0
    /\ won = {}

SlotOf(m) == AttemptFingerprint(m.fp, m.gen)

-----------------------------------------------------------------------------
(* The producer, the operator, the clock.                                  *)

\* A route publishes under the message id; outside the broker's deduplication
\* window the same id, with the same or another content, is stored again.  The
\* route refuses a message its own clock calls expired or not ready; clocks
\* differ, so that says nothing about expired and waiting.
Publish(m) ==
    /\ Len(stream) < setup.msgs
    /\ stream' = Append(stream, m)
    /\ UNCHANGED <<store, acked, dlq, setup, clock, mode, stops>>

\* ReplayDLQ publishes the original message in a generation that the record, here
\* the n-th, determines; a record that does not decode is refused.  Gens bounds
\* the records that are replayed: an instance has one generation for each of the
\* (MaxMsgs - 1) + (MaxCopies - 1) records there can be while the stream has room.
Replay(n) ==
    /\ Len(stream) < setup.msgs /\ n \in Gens
    /\ dlq[n].fp \notin Undecodable
    /\ stream' = Append(stream, [key |-> dlq[n].key, fp |-> dlq[n].fp, gen |-> n])
    /\ UNCHANGED <<store, acked, dlq, setup, clock, mode, stops>>

Expire(fp) ==
    /\ fp \in setup.expirable \ expired
    /\ expired' = expired \cup {fp}
    /\ UNCHANGED <<store, broker, waiting, mode, stops>>

Mature(fp) ==
    /\ fp \in waiting
    /\ waiting' = waiting \ {fp}
    /\ UNCHANGED <<store, broker, expired, mode, stops>>

\* Run's context is cancelled, or BeginDrain or Shutdown stops the pulls.
Stop(next) ==
    /\ stops < setup.stops /\ stops' = stops + 1
    /\ mode # "cancelled" /\ mode # next
    /\ mode' = next
    /\ UNCHANGED <<store, broker, clock>>

Outside ==
    \/ \E m \in setup.offers : Publish(m)
    \/ \E fp \in Fps : Expire(fp) \/ Mature(fp)
    \/ \E n \in DOMAIN dlq : Replay(n)
    \/ Stop("draining") \/ Stop("cancelled")

-----------------------------------------------------------------------------
(* The broker's answers.                                                   *)

\* The acknowledgement of message i takes effect, or does not.
Acknowledge(i) == acked' \in {acked, acked \cup {i}}

Recorded(m) == \E n \in DOMAIN dlq : dlq[n].key = m.key /\ dlq[n].fp = m.fp /\ dlq[n].gen = m.gen

\* The broker stores the record, unless it remembers its deduplication id.
StoreRecord(m, reason) ==
    \/ Recorded(m) /\ UNCHANGED dlq
    \/ /\ Recorded(m) => Len(dlq) < MaxCopies
       /\ dlq' = Append(dlq, [key |-> m.key, fp |-> m.fp, gen |-> m.gen, reason |-> reason])

-----------------------------------------------------------------------------
(* Properties.                                                             *)

\* Nothing is lost: a message the broker will not deliver again either had its
\* effect committed under its content or is in the dead-letter stream, with
\* its own generation, whatever crashed, was cancelled or got lost on the way,
\* and whatever became of the other messages of its batch.
NothingLost ==
    \A i \in acked :
        \/ \E gen \in Gens : <<stream[i].key, stream[i].fp, gen>> \in won
        \/ Recorded(stream[i])

\* A message dead-lettered for what its handler did is finished: the Inbox has
\* closed its generation, and that generation never committed an effect, so a
\* late copy of the message cannot succeed behind the operator's back.
DeadIsClosed ==
    \A n \in DOMAIN dlq :
        dlq[n].reason \in HandlerFates =>
            /\ Closed(db[dlq[n].key], SlotOf(dlq[n]))
            /\ <<dlq[n].key, dlq[n].fp, dlq[n].gen>> \notin won

\* Retention may only ever see a confirmation after the record is in the
\* dead-letter stream and a source message of that generation is acknowledged.
ConfirmedIsHandedOff ==
    \A k \in Keys, s \in Slots :
        Closed(db[k], s) /\ db[k].term[s].confirmed # Null =>
            /\ Recorded([key |-> k, fp |-> s[1], gen |-> s[2]])
            /\ \E i \in acked : stream[i] = [key |-> k, fp |-> s[1], gen |-> s[2]]

\* Replays run under generations of their own, and an expired copy of a handled
\* message is dead-lettered without asking the Inbox; still no identity commits
\* a second effect: at most one slot of it ever wins.
OneWinner == \A s, t \in won : s[1] = t[1] => s = t

\* Every published or replayed message is eventually acknowledged, that is,
\* handled or dead-lettered, despite finitely many crashes, drains and
\* cancellations and any number of lost answers.  A message that cannot be
\* recorded stays in the stream, and does not keep the others there.
Settles ==
    \A i \in 1 .. MaxMsgs :
        i \in DOMAIN stream /\ stream[i].fp \notin Unrecordable ~> i \in acked
=============================================================================
