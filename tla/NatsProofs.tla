------------------------------ MODULE NatsProofs ------------------------------
(***************************************************************************)
(* Safety of the NATS consumers, for every stream, every number of workers *)
(* and of identities, every batch size and every instance of either shape. *)
(*                                                                         *)
(* The invariant has a part about what all share, the ledger, the streams  *)
(* and the committed effects, and a part about the workers: what is true   *)
(* of a message while a worker is about to take a step with it (Owed).     *)
(* Nothing that is owed is ever undone (Sound), so a worker keeps its part *)
(* through the steps of the others.                                        *)
(***************************************************************************)
EXTENDS NatsGroup, InboxAnswerProofs

\* A leaf goes to the SMT solver unless it names another prover.
USE SMTT(30)

\* An effect of the content of m is committed.
Won(m) == \E gen \in Gens : <<m.key, m.fp, gen>> \in won

\* The generation of m is closed.
Dead(m) == Closed(db[m.key], SlotOf(m))

\* What is true of message i while a worker is about to take the given step with
\* it, for the given reason.
Owed(i, step, reason) ==
    /\ i \in DOMAIN stream
    /\ reason \in Fates
    /\ step = "ack" => Won(stream[i])
    /\ step \in {"ack_record", "confirm"} => Recorded(stream[i])
    /\ step = "confirm" => i \in acked /\ reason \in HandlerFates
    /\ step \in {"publish", "ack_record", "confirm"} /\ reason \in HandlerFates => Dead(stream[i])

Record == [key : Keys, fp : Fps, gen : Gens, reason : Fates]

BrokerInv ==
    /\ setup \in Setups
    /\ stream \in Seq(Message)
    /\ dlq \in Seq(Record)
    /\ acked \subseteq DOMAIN stream

\* The committed effects and the ledger tell the same: an identity is completed
\* exactly if one of its generations won, and that one is not closed.
WonInv ==
    /\ won \subseteq Keys \X Fps \X Gens
    /\ \A k \in Keys, fp \in Fps, gen \in Gens :
          <<k, fp, gen>> \in won =>
              /\ Completed(db[k]) /\ db[k].ident.fp = fp
              /\ ~Closed(db[k], AttemptFingerprint(fp, gen))
    /\ \A k \in Keys : Completed(db[k]) =>
          \E gen \in Gens : <<k, db[k].ident.fp, gen>> \in won

\* The handler failures in the dead-letter stream are closed in the ledger.
RecordsDead == \A n \in DOMAIN dlq : dlq[n].reason \in HandlerFates => Dead(dlq[n])

SharedInv ==
    /\ IInv /\ BrokerInv /\ WonInv /\ OneWinner
    /\ NothingLost /\ RecordsDead /\ ConfirmedIsHandedOff

Labels == {"idle", "assigned", "process", "nak", "ack", "publish", "ack_record", "confirm"}
Phases == {"idle", "filling", "collected", "process", "settle"}
Steps  == {"valid", "nak", "ack", "publish", "ack_record", "confirm", "done"}

SingleInv ==
    /\ pc \in [Workers -> Labels] /\ msg \in [Workers -> Nat] /\ fate \in [Workers -> Fates]
    /\ \A w \in Workers : pc[w] # "idle" => Owed(msg[w], pc[w], fate[w])

Item == [msg : Nat, step : Steps, fate : Fates]

\* Of the deliveries for the Inbox whose content decodes, those of one identity
\* are of one generation.
Joins(x) == x.step = "valid" /\ Of(x).fp \notin Undecodable

OneGeneration(batch) ==
    \A d, e \in DOMAIN batch :
        Joins(batch[d]) /\ Joins(batch[e]) /\ Of(batch[d]).key = Of(batch[e]).key
          => Of(batch[d]).gen = Of(batch[e]).gen

Decoded(batch) ==
    \A d \in DOMAIN batch : batch[d].step = "valid" => Of(batch[d]).fp \notin Undecodable

\* A batch in a phase: every delivery is owed its step, and up to the call of the
\* Inbox the deliveries of an identity are of one generation.
BatchGood(label, batch) ==
    /\ \A d \in DOMAIN batch : Owed(batch[d].msg, batch[d].step, batch[d].fate)
    /\ label \in {"filling", "collected", "process"} => OneGeneration(batch)
    /\ label = "process" => Decoded(batch)

BatchInv ==
    /\ phase \in [Workers -> Phases] /\ held \in [Workers -> Seq(Item)]
    /\ \A w \in Workers : BatchGood(phase[w], held[w])

NatsInv == SharedInv /\ SingleInv /\ BatchInv

-----------------------------------------------------------------------------
(* Sequences.                                                              *)

\* The elements of a sequence are typed, and its indices are natural numbers.
LEMMA SeqElement ==
    ASSUME NEW S, NEW s \in Seq(S), NEW i \in DOMAIN s
    PROVE  s[i] \in S /\ i \in Nat
OBVIOUS

\* Appending keeps what is there and adds one element.
LEMMA SeqAppended ==
    ASSUME NEW S, NEW s \in Seq(S), NEW x \in S
    PROVE  /\ Append(s, x) \in Seq(S)
           /\ \A i \in DOMAIN s : i \in DOMAIN Append(s, x) /\ Append(s, x)[i] = s[i]
           /\ \A i \in DOMAIN Append(s, x) \ DOMAIN s : Append(s, x)[i] = x
           /\ \E i \in DOMAIN Append(s, x) : Append(s, x)[i] = x
<1>1. Len(s) + 1 \in DOMAIN Append(s, x) /\ Append(s, x)[Len(s) + 1] = x
  OBVIOUS
<1> QED
  BY <1>1

\* A function on the indices of a sequence is a sequence.
LEMMA SeqMapped ==
    ASSUME NEW S, NEW s \in Seq(S), NEW T, NEW t,
           t = [i \in DOMAIN s |-> t[i]], \A i \in DOMAIN s : t[i] \in T
    PROVE  t \in Seq(T)
OBVIOUS

\* The messages and the records are typed.
LEMMA BrokerTyped ==
    ASSUME BrokerInv
    PROVE  /\ \A i \in DOMAIN stream :
                 /\ i \in Nat /\ stream[i] \in Message
                 /\ stream[i].key \in Keys /\ stream[i].fp \in Fps /\ stream[i].gen \in Gens
           /\ \A n \in DOMAIN dlq :
                 dlq[n].key \in Keys /\ dlq[n].fp \in Fps /\ dlq[n].gen \in Gens
<1>1. stream \in Seq(Message) /\ dlq \in Seq(Record)
  BY DEF BrokerInv
<1>2. \A i \in DOMAIN stream : i \in Nat /\ stream[i] \in Message
  BY ZenonT(30), <1>1, SeqElement
<1>3. \A n \in DOMAIN dlq : dlq[n] \in Record
  BY ZenonT(30), <1>1, SeqElement
<1> QED
  BY <1>2, <1>3 DEF Message, Record

-----------------------------------------------------------------------------
(* What no step undoes.                                                    *)

\* The streams only grow, an acknowledgement, an effect and a closed generation
\* stay.
Grows ==
    /\ \A i \in DOMAIN stream : i \in DOMAIN stream' /\ stream'[i] = stream[i]
    /\ \A n \in DOMAIN dlq : n \in DOMAIN dlq' /\ dlq'[n] = dlq[n]
    /\ acked \subseteq acked' /\ won \subseteq won'
    /\ \A k \in Keys, s \in Slots : Closed(db[k], s) => Closed(db'[k], s)

Confirmed(rows, s) == Closed(rows, s) /\ rows.term[s].confirmed # Null

\* The record of generation s of k is stored, and a message of it acknowledged.
HandedOff(k, s) ==
    /\ Recorded([key |-> k, fp |-> s[1], gen |-> s[2]])
    /\ \E i \in acked : stream[i] = [key |-> k, fp |-> s[1], gen |-> s[2]]

\* A step that undoes nothing, and has a reason for what it adds: a message is
\* acknowledged because its content won or its record is stored, a record of a
\* handler failure is stored because its generation is closed, and a hand-off is
\* confirmed because it took place.
Sound ==
    /\ Grows
    /\ IInv' /\ BrokerInv' /\ WonInv' /\ OneWinner'
    /\ \A i \in acked' \ acked : i \in DOMAIN stream /\ (Won(stream[i]) \/ Recorded(stream[i]))
    /\ \A n \in DOMAIN dlq' \ DOMAIN dlq : dlq'[n].reason \in HandlerFates => Dead(dlq'[n])
    /\ \A k \in Keys, s \in Slots :
          Confirmed(db'[k], s) => Confirmed(db[k], s) \/ HandedOff(k, s)

\* What a worker relies on survives the sound steps of the others.
LEMMA OwedKept ==
    ASSUME BrokerInv, Grows, NEW i, NEW step, NEW reason, Owed(i, step, reason)
    PROVE  Owed(i, step, reason)'
<1>1. i \in DOMAIN stream
  BY ZenonT(30) DEF Owed
<1>2. i \in DOMAIN stream' /\ stream'[i] = stream[i] /\ (i \in acked => i \in acked')
  BY ZenonT(30), <1>1 DEF Grows
<1>3. stream[i].key \in Keys /\ stream[i].fp \in Fps /\ stream[i].gen \in Gens
  BY ZenonT(30), <1>1, BrokerTyped
<1>4. Won(stream[i]) => Won(stream[i])'
  BY <1>2 DEF Grows, Won
<1>5. Recorded(stream[i]) => Recorded(stream[i])'
  BY <1>2 DEF Grows, Recorded
<1>6. Dead(stream[i]) => Dead(stream[i])'
  BY <1>2, <1>3 DEF Grows, Dead, SlotOf, AttemptFingerprint, Slots
<1> QED
  BY ZenonT(30), <1>2, <1>4, <1>5, <1>6 DEF Owed

\* A sound step keeps the shared part of the invariant.
LEMMA SharedKept ==
    ASSUME SharedInv, Sound
    PROVE  SharedInv'
<1>1. BrokerInv /\ Grows /\ acked \subseteq DOMAIN stream
  BY DEF SharedInv, Sound, BrokerInv
<1>2. \A i \in DOMAIN stream : stream'[i] = stream[i]
  BY <1>1 DEF Grows
<1>3. ASSUME NEW i \in DOMAIN stream
      PROVE  /\ Won(stream[i]) => Won(stream[i])'
             /\ Recorded(stream[i]) => Recorded(stream[i])'
  <2>1. Won(stream[i]) => Won(stream[i])'
    BY <1>1, <1>2 DEF Grows, Won
  <2>2. Recorded(stream[i]) => Recorded(stream[i])'
    BY <1>1, <1>2 DEF Grows, Recorded
  <2> QED
    BY <2>1, <2>2
<1>4. NothingLost'
  <2>1. \A i \in acked : Won(stream[i]) \/ Recorded(stream[i])
    BY ZenonT(30) DEF SharedInv, NothingLost, Won
  <2>2. \A i \in acked' \ acked : i \in DOMAIN stream /\ (Won(stream[i]) \/ Recorded(stream[i]))
    BY ZenonT(30) DEF Sound
  <2> QED
    BY ZenonT(30), <1>1, <1>3, <2>1, <2>2 DEF NothingLost, Won
<1>5. RecordsDead'
  <2>1. ASSUME NEW n \in DOMAIN dlq', dlq'[n].reason \in HandlerFates
        PROVE  Dead(dlq'[n])
    BY <1>1, <2>1 DEF SharedInv, RecordsDead, Sound, Grows
  <2>2. \A n \in DOMAIN dlq' : dlq'[n] \in Record
    BY ZenonT(30), SeqElement DEF Sound, BrokerInv
  <2>3. ASSUME NEW n \in DOMAIN dlq', Dead(dlq'[n])
        PROVE  Dead(dlq[n])'
    BY <1>1, <2>2, <2>3 DEF Grows, Dead, SlotOf, AttemptFingerprint, Slots, Record
  <2> QED
    BY ZenonT(30), <2>1, <2>3 DEF RecordsDead
<1>6. ConfirmedIsHandedOff'
  <2>1. ASSUME NEW k \in Keys, NEW s \in Slots, Confirmed(db'[k], s)
        PROVE  HandedOff(k, s)
    BY ZenonT(30), <2>1 DEF SharedInv, Sound, ConfirmedIsHandedOff, Confirmed, HandedOff
  <2>2. ASSUME NEW k \in Keys, NEW s \in Slots, HandedOff(k, s)
        PROVE  HandedOff(k, s)'
    BY <1>1, <2>2 DEF HandedOff, Grows, Recorded
  <2> QED
    BY ZenonT(30), <2>1, <2>2 DEF ConfirmedIsHandedOff, Confirmed, HandedOff
<1> QED
  BY <1>4, <1>5, <1>6 DEF SharedInv, Sound

-----------------------------------------------------------------------------
(* The steps on what is shared are sound.                                  *)

\* A step that leaves the ledger and the broker alone.
LEMMA QuietSound ==
    ASSUME SharedInv, UNCHANGED <<store, broker>>
    PROVE  Sound
<1>1. db' = db /\ effects' = effects /\ won' = won /\ stream' = stream /\ acked' = acked
      /\ dlq' = dlq /\ setup' = setup
  BY DEF store, broker
<1>2. IInv' /\ WonInv' /\ OneWinner'
  BY <1>1 DEF SharedInv, IInv, WonInv, OneWinner
<1>3. BrokerInv'
  BY <1>1 DEF SharedInv, BrokerInv
<1>4. Grows
  BY <1>1 DEF Grows
<1> QED
  BY <1>1, <1>2, <1>3, <1>4 DEF Sound

\* A step of the broker that leaves the ledger alone.
LEMMA BrokerSound ==
    ASSUME SharedInv, UNCHANGED store, BrokerInv',
           \A i \in DOMAIN stream : i \in DOMAIN stream' /\ stream'[i] = stream[i],
           \A n \in DOMAIN dlq : n \in DOMAIN dlq' /\ dlq'[n] = dlq[n],
           acked \subseteq acked',
           \A i \in acked' \ acked : i \in DOMAIN stream /\ (Won(stream[i]) \/ Recorded(stream[i])),
           \A n \in DOMAIN dlq' \ DOMAIN dlq : dlq'[n].reason \in HandlerFates => Dead(dlq'[n])
    PROVE  Sound
<1>1. db' = db /\ effects' = effects /\ won' = won
  BY DEF store
<1>2. IInv' /\ WonInv' /\ OneWinner'
  BY <1>1 DEF SharedInv, IInv, WonInv, OneWinner
<1>3. Grows
  BY <1>1 DEF Grows
<1> QED
  BY ZenonT(30), <1>1, <1>2, <1>3 DEF Sound

\* A message arrives: Publish and Replay.
LEMMA ArrivalSound ==
    ASSUME SharedInv, UNCHANGED <<store, acked, dlq, setup>>,
           NEW m \in Message, stream' = Append(stream, m)
    PROVE  Sound
<1>1. stream \in Seq(Message)
  BY DEF SharedInv, BrokerInv
<1>2. /\ stream' \in Seq(Message)
      /\ \A i \in DOMAIN stream : i \in DOMAIN stream' /\ stream'[i] = stream[i]
  BY <1>1, SeqAppended
<1>3. BrokerInv'
  BY <1>2 DEF SharedInv, BrokerInv
<1> QED
  BY ZenonT(30), <1>2, <1>3, BrokerSound

\* A record is stored, for a message whose generation is closed if its handler
\* failed; afterwards it is in the dead-letter stream.
LEMMA RecordSound ==
    ASSUME SharedInv, UNCHANGED <<store, stream, acked, setup>>,
           NEW i \in DOMAIN stream, NEW reason \in Fates,
           reason \in HandlerFates => Dead(stream[i]),
           StoreRecord(stream[i], reason)
    PROVE  Sound /\ Recorded(stream[i])'
<1> DEFINE x == [key |-> stream[i].key, fp |-> stream[i].fp, gen |-> stream[i].gen, reason |-> reason]
<1>1. dlq \in Seq(Record) /\ BrokerInv
  BY DEF SharedInv, BrokerInv
<1>2. x \in Record
  BY <1>1, BrokerTyped DEF Record
<1>3. CASE Recorded(stream[i]) /\ UNCHANGED dlq
  <2>1. Recorded(stream[i])'
    BY <1>3 DEF Recorded
  <2>2. UNCHANGED <<store, broker>>
    BY <1>3 DEF broker
  <2> QED
    BY <2>1, <2>2, QuietSound
<1>4. CASE dlq' = Append(dlq, x)
  <2> HIDE DEF x
  <2>1. /\ dlq' \in Seq(Record)
        /\ \A n \in DOMAIN dlq : n \in DOMAIN dlq' /\ dlq'[n] = dlq[n]
        /\ \A n \in DOMAIN dlq' \ DOMAIN dlq : dlq'[n] = x
        /\ \E n \in DOMAIN dlq' : dlq'[n] = x
    BY <1>1, <1>2, <1>4, SeqAppended
  <2>2. BrokerInv'
    BY <1>1, <2>1 DEF BrokerInv
  <2>3. x.reason \in HandlerFates => Dead(x)
    BY DEF x, Dead, SlotOf
  <2>4. Recorded(stream[i])'
    BY <2>1 DEF Recorded, x
  <2>5. Sound
    BY ZenonT(30), <2>1, <2>2, <2>3, BrokerSound
  <2> QED
    BY <2>4, <2>5
<1> QED
  BY ZenonT(30), <1>3, <1>4 DEF StoreRecord

\* A message is acknowledged whose content won or whose record is stored.
LEMMA AckSound ==
    ASSUME SharedInv, UNCHANGED <<store, stream, dlq, setup>>,
           NEW i \in DOMAIN stream, Won(stream[i]) \/ Recorded(stream[i]),
           acked' \in {acked, acked \cup {i}}
    PROVE  Sound
<1>1. BrokerInv'
  BY DEF SharedInv, BrokerInv
<1>2. acked \subseteq acked' /\ acked' \ acked \subseteq {i}
  BY ZenonT(30)
<1> QED
  BY ZenonT(30), <1>1, <1>2, BrokerSound

\* A call of the Inbox that commits the effects W: it opens and confirms nothing,
\* and completes exactly the identities of W, each of which was incomplete and
\* whose generation is not closed.
StoreStep(W) ==
    /\ won' = won \cup W /\ UNCHANGED broker
    /\ IInv'
    /\ \A k \in Keys : /\ Follows(db[k], db'[k])
                       /\ Completed(db'[k]) => Completed(db[k]) \/ \E t \in W : t[1] = k
    /\ W \subseteq Keys \X Fps \X Gens
    /\ \A t \in W : /\ ~Completed(db[t[1]])
                    /\ Completed(db'[t[1]]) /\ db'[t[1]].ident.fp = t[2]
                    /\ ~Closed(db'[t[1]], AttemptFingerprint(t[2], t[3]))
    /\ \A t, u \in W : t[1] = u[1] => t = u

\* A call of the Inbox is sound: no identity gets a second winner.
LEMMA StoreSound ==
    ASSUME SharedInv, NEW W, StoreStep(W)
    PROVE  Sound
<1>1. stream' = stream /\ acked' = acked /\ dlq' = dlq /\ setup' = setup /\ won' = won \cup W
  BY DEF StoreStep, broker
<1>2. BrokerInv'
  BY <1>1 DEF SharedInv, BrokerInv
<1>3. ASSUME NEW k \in Keys
      PROVE  /\ Completed(db[k]) => db'[k] = db[k]
             /\ Completed(db'[k]) => Completed(db[k]) \/ \E t \in W : t[1] = k
             /\ \A s \in Slots : Closed(db[k], s) => Closed(db'[k], s)
             /\ \A s \in Slots : Confirmed(db'[k], s) => Confirmed(db[k], s)
  BY ZenonT(30) DEF StoreStep, Follows, Confirmed
<1>4. WonInv'
  <2>1. won' \subseteq Keys \X Fps \X Gens
    BY <1>1 DEF SharedInv, WonInv, StoreStep
  <2>2. ASSUME NEW k \in Keys, NEW fp \in Fps, NEW gen \in Gens, <<k, fp, gen>> \in won'
        PROVE  /\ Completed(db'[k]) /\ db'[k].ident.fp = fp
               /\ ~Closed(db'[k], AttemptFingerprint(fp, gen))
    <3>1. CASE <<k, fp, gen>> \in won
      BY ZenonT(90), <1>3, <3>1 DEF SharedInv, WonInv
    <3>2. CASE <<k, fp, gen>> \in W
      BY <3>2 DEF StoreStep
    <3> QED
      BY <1>1, <2>2, <3>1, <3>2
  <2>3. ASSUME NEW k \in Keys, Completed(db'[k])
        PROVE  \E gen \in Gens : <<k, db'[k].ident.fp, gen>> \in won'
    <3>1. CASE Completed(db[k])
      BY ZenonT(30), <1>1, <1>3, <3>1 DEF SharedInv, WonInv
    <3>2. CASE \E t \in W : t[1] = k
      <4>1. PICK t \in W : t[1] = k
        BY <3>2
      <4>2. t \in Keys \X Fps \X Gens /\ db'[k].ident.fp = t[2]
        BY ZenonT(30), <4>1 DEF StoreStep
      <4>3. t = <<k, db'[k].ident.fp, t[3]>> /\ t[3] \in Gens
        BY <4>1, <4>2
      <4> QED
        BY <1>1, <4>1, <4>3
    <3> QED
      BY ZenonT(30), <1>3, <2>3, <3>1, <3>2
  <2> QED
    BY ZenonT(30), <2>1, <2>2, <2>3 DEF WonInv
<1>5. OneWinner'
  <2>1. \A t \in won : t \in Keys \X Fps \X Gens /\ Completed(db[t[1]])
    <3>1. ASSUME NEW t \in won PROVE t \in Keys \X Fps \X Gens /\ t = <<t[1], t[2], t[3]>>
      BY DEF SharedInv, WonInv
    <3> QED
      BY <3>1 DEF SharedInv, WonInv
  <2>2. \A t \in W : ~Completed(db[t[1]])
    BY ZenonT(30) DEF StoreStep
  <2>3. /\ \A t, u \in won : t[1] = u[1] => t = u
        /\ \A t, u \in W : t[1] = u[1] => t = u
    BY ZenonT(30) DEF SharedInv, OneWinner, StoreStep
  <2> QED
    BY ZenonT(30), <1>1, <2>1, <2>2, <2>3 DEF OneWinner
<1>6. Grows
  BY <1>1, <1>3 DEF Grows
<1> QED
  BY ZenonT(30), <1>1, <1>2, <1>3, <1>4, <1>5, <1>6 DEF Sound, StoreStep

\* The confirmation of a hand-off that took place.
LEMMA ConfirmSound ==
    ASSUME SharedInv, UNCHANGED <<won, broker>>,
           NEW i \in acked, Recorded(stream[i]), NEW now \in Times,
           ConfirmTerminalHandoff(stream[i].key, stream[i].fp, stream[i].gen, now)
    PROVE  Sound
<1> DEFINE k == stream[i].key
<1> DEFINE s == AttemptFingerprint(stream[i].fp, stream[i].gen)
<1>1. stream' = stream /\ acked' = acked /\ dlq' = dlq /\ setup' = setup /\ won' = won
  BY DEF broker
<1>2. BrokerInv'
  BY ZenonT(30), <1>1 DEF SharedInv, BrokerInv
<1>3. stream[i] \in Message /\ k \in Keys /\ stream[i].fp \in Fps /\ stream[i].gen \in Gens
  BY BrokerTyped DEF SharedInv, BrokerInv
<1>4. IInv'
  BY <1>3, ConfirmKept DEF SharedInv
<1>5. /\ \A j \in Keys \ {k} : db'[j] = db[j]
      /\ db'[k].ident = db[k].ident
      /\ \A x \in Slots : Closed(db'[k], x) <=> Closed(db[k], x)
      /\ \A x \in Slots \ {s} : db'[k].term[x] = db[k].term[x]
  BY ZenonT(30), <1>3, ConfirmSettles DEF SharedInv
<1>6. HandedOff(k, s)
  BY ZenonT(30), <1>3 DEF HandedOff, AttemptFingerprint, Recorded, Message
<1> HIDE DEF k, s
<1>7. \A j \in Keys : /\ db'[j].ident = db[j].ident
                      /\ \A x \in Slots : Closed(db'[j], x) <=> Closed(db[j], x)
  BY <1>5
<1>8. \A j \in Keys, x \in Slots : Confirmed(db'[j], x) => Confirmed(db[j], x) \/ HandedOff(j, x)
  BY ZenonT(30), <1>5, <1>6 DEF Confirmed, Closed
<1>9. WonInv'
  <2>1. \A j \in Keys : Completed(db'[j]) <=> Completed(db[j])
    BY <1>7 DEF Completed
  <2>2. \A fp \in Fps, gen \in Gens : AttemptFingerprint(fp, gen) \in Slots
    BY DEF Slots, AttemptFingerprint
  <2> QED
    BY ZenonT(30), <1>1, <1>7, <2>1, <2>2 DEF SharedInv, WonInv
<1>10. Grows
  BY <1>1, <1>7 DEF Grows
<1>11. OneWinner'
  BY <1>1 DEF SharedInv, OneWinner
<1> QED
  BY ZenonT(30), <1>1, <1>2, <1>4, <1>8, <1>9, <1>10, <1>11 DEF Sound

\* The effect a committed ProcessAttempt adds.
AttemptWins(k, fp, gen, max, kind) ==
    IF Planned(k, fp, gen, max).closed = "" /\ kind = "success" THEN {<<k, fp, gen>>} ELSE {}

\* A committed ProcessAttempt is sound, and what it reports is true: what it
\* succeeded for has won, and what it failed for good is closed.
LEMMA AttemptSound ==
    ASSUME SharedInv, NEW k \in Keys, NEW fp \in Fps, NEW gen \in Gens,
           NEW max \in Limits, NEW kind \in FailureKinds,
           ProcessAttempt(k, fp, gen, max, kind), UNCHANGED broker,
           won' = won \cup AttemptWins(k, fp, gen, max, kind)
    PROVE  LET d == Planned(k, fp, gen, max)
               s == AttemptFingerprint(fp, gen)
           IN  /\ Sound
               /\ d.closed # "" => d.closed \in HandlerFates /\ Closed(db'[k], s)
               /\ d.closed = "" => /\ kind = "success" => <<k, fp, gen>> \in won'
                                   /\ kind = "permanent" => Closed(db'[k], s)
                                   /\ kind \in {"retry_after", "ordinary"} /\ d.attempt >= max
                                        => Closed(db'[k], s)
                                   /\ ~(d.attempt - 1 >= max)
<1> DEFINE s == AttemptFingerprint(fp, gen)
           d == Planned(k, fp, gen, max)
           W == AttemptWins(k, fp, gen, max, kind)
           wins == d.closed = "" /\ kind = "success"
<1>1. IInv'
  BY ZenonT(30), ProcessAttemptKept DEF SharedInv
<1>2. /\ \A j \in Keys \ {k} : db'[j] = db[j]
      /\ ~Completed(db[k]) /\ Follows(db[k], db'[k]) /\ db'[k].ident.fp = fp
      /\ d.closed # "" => /\ d.closed \in TerminalKinds
                          /\ Closed(db'[k], s) /\ ~Completed(db'[k])
      /\ d.closed = "" => /\ ~Closed(db[k], s)
                          /\ Completed(db'[k]) <=> kind = "success"
                          /\ kind = "success" => ~Closed(db'[k], s)
                          /\ kind = "permanent" => Closed(db'[k], s)
                          /\ kind \in {"retry_after", "ordinary"} /\ d.attempt >= max
                               => Closed(db'[k], s)
                          /\ ~(d.attempt - 1 >= max)
  BY ZenonT(30), ProcessAttemptSettles DEF SharedInv
<1>3. W = IF wins THEN {<<k, fp, gen>>} ELSE {}
  BY ZenonT(30) DEF AttemptWins
<1> HIDE DEF s, d, W, wins
<1>4. /\ \A j \in Keys \ {k} : db'[j] = db[j]
      /\ ~Completed(db[k]) /\ Follows(db[k], db'[k]) /\ db'[k].ident.fp = fp
      /\ (Completed(db'[k]) <=> wins) /\ (wins => ~Closed(db'[k], s))
  BY ZenonT(30), <1>2 DEF wins
<1>5. \A j \in Keys : Follows(db[j], db'[j])
  BY ZenonT(30), <1>4 DEF Follows
<1>6. \A j \in Keys : Completed(db'[j]) => Completed(db[j]) \/ \E t \in W : t[1] = j
  <2>1. wins => <<k, fp, gen>> \in W
    BY ZenonT(30), <1>3
  <2>2. <<k, fp, gen>>[1] = k
    OBVIOUS
  <2> QED
    BY ZenonT(30), <1>4, <2>1, <2>2
<1>7. /\ W \subseteq Keys \X Fps \X Gens
      /\ \A t, u \in W : t[1] = u[1] => t = u
  BY <1>3
<1>8. \A t \in W : /\ ~Completed(db[t[1]])
                   /\ Completed(db'[t[1]]) /\ db'[t[1]].ident.fp = t[2]
                   /\ ~Closed(db'[t[1]], AttemptFingerprint(t[2], t[3]))
  BY <1>3, <1>4 DEF s
<1>9. StoreStep(W)
  BY ZenonT(30), <1>1, <1>5, <1>6, <1>7, <1>8 DEF StoreStep, W
<1>10. Sound
  BY ZenonT(30), <1>9, StoreSound
<1>11. wins => <<k, fp, gen>> \in won'
  BY <1>3 DEF W
<1>12. TerminalKinds = HandlerFates
  BY DEF TerminalKinds, HandlerFates
<1> QED
  BY ZenonT(30), <1>2, <1>10, <1>11, <1>12 DEF d, s, wins

-----------------------------------------------------------------------------
(* The single-message consumer.                                            *)

\* A worker keeps what it is owed through the sound steps of others.
LEMMA SingleKept ==
    ASSUME SharedInv, Sound, SingleInv, UNCHANGED worker
    PROVE  SingleInv'
<1>1. pc' = pc /\ msg' = msg /\ fate' = fate
  BY DEF worker
<1>2. BrokerInv /\ Grows
  BY DEF SharedInv, Sound
<1>3. ASSUME NEW w \in Workers, pc[w] # "idle"
      PROVE  Owed(msg[w], pc[w], fate[w])'
  <2>1. PICK i, step, reason : i = msg[w] /\ step = pc[w] /\ reason = fate[w]
    OBVIOUS
  <2>2. Owed(i, step, reason)
    BY ZenonT(30), <1>3, <2>1 DEF SingleInv
  <2>3. Owed(i, step, reason)'
    BY ZenonT(30), <1>2, <2>2, OwedKept
  <2> QED
    BY ZenonT(30), <1>1, <2>1, <2>3 DEF Owed
<1> QED
  BY <1>1, <1>3 DEF SingleInv

\* A step of worker w that leads to a label it is owed the right for.
LEMMA SingleMoved ==
    ASSUME SharedInv, Sound, SingleInv, NEW w \in Workers,
           NEW label \in Labels, NEW i \in Nat, NEW reason \in Fates,
           pc' = [pc EXCEPT ![w] = label],
           msg' = [msg EXCEPT ![w] = i],
           fate' = [fate EXCEPT ![w] = reason],
           label # "idle" => Owed(i, label, reason)'
    PROVE  SingleInv'
<1>1. /\ pc \in [Workers -> Labels] /\ msg \in [Workers -> Nat] /\ fate \in [Workers -> Fates]
      /\ BrokerInv /\ Grows
  BY DEF SharedInv, Sound, SingleInv
<1>2. /\ pc' \in [Workers -> Labels] /\ msg' \in [Workers -> Nat] /\ fate' \in [Workers -> Fates]
      /\ pc'[w] = label /\ msg'[w] = i /\ fate'[w] = reason
      /\ \A v \in Workers \ {w} : pc'[v] = pc[v] /\ msg'[v] = msg[v] /\ fate'[v] = fate[v]
  BY <1>1
<1>3. ASSUME NEW v \in Workers, pc'[v] # "idle"
      PROVE  Owed(msg[v], pc[v], fate[v])'
  <2>1. CASE v = w
    BY ZenonT(30), <1>2, <1>3, <2>1 DEF Owed
  <2>2. CASE v # w
    <3>1. PICK j, step, why : j = msg[v] /\ step = pc[v] /\ why = fate[v]
      OBVIOUS
    <3>2. Owed(j, step, why)
      BY ZenonT(30), <1>2, <1>3, <2>2, <3>1 DEF SingleInv
    <3>3. Owed(j, step, why)'
      BY ZenonT(30), <1>1, <3>2, OwedKept
    <3> QED
      BY ZenonT(30), <1>2, <2>2, <3>1, <3>3 DEF Owed
  <2> QED
    BY <2>1, <2>2
<1> QED
  BY ZenonT(30), <1>2, <1>3 DEF SingleInv

\* The variables of the workers are typed.
LEMMA SingleTyped ==
    ASSUME SingleInv
    PROVE  pc \in [Workers -> Labels] /\ msg \in [Workers -> Nat] /\ fate \in [Workers -> Fates]
BY ZenonT(30) DEF SingleInv

\* The message and the reason of a worker that is not idle.
LEMMA SingleOwed ==
    ASSUME SharedInv, SingleInv, NEW w \in Workers, pc[w] # "idle"
    PROVE  \E i \in DOMAIN stream, reason \in Fates :
              /\ i = msg[w] /\ reason = fate[w]
              /\ i \in Nat /\ stream[i].key \in Keys /\ stream[i].fp \in Fps /\ stream[i].gen \in Gens
              /\ Owed(i, pc[w], reason)
<1>1. Owed(msg[w], pc[w], fate[w])
  BY ZenonT(30) DEF SingleInv
<1>2. msg[w] \in DOMAIN stream /\ fate[w] \in Fates
  BY ZenonT(30), <1>1 DEF Owed
<1> QED
  BY ZenonT(30), <1>1, <1>2, BrokerTyped DEF SharedInv

\* A step that promises nothing: the worker begins, gives up or gives back.
LEMMA SingleReturns ==
    ASSUME SharedInv, SingleInv, UNCHANGED <<store, broker, msg, fate>>,
           NEW w \in Workers, pc[w] # "idle",
           NEW label \in {"idle", "process", "nak"}, Goto(w, label)
    PROVE  Sound /\ SingleInv'
<1>1. PICK i \in DOMAIN stream, reason \in Fates : i = msg[w] /\ reason = fate[w] /\ i \in Nat
  BY ZenonT(30), SingleOwed
<1>2. Sound
  BY QuietSound
<1>3. msg' = [msg EXCEPT ![w] = i] /\ fate' = [fate EXCEPT ![w] = reason] /\ label \in Labels
  BY ZenonT(30), <1>1, SingleTyped DEF Labels
<1>4. i \in DOMAIN stream'
  BY <1>2 DEF Sound, Grows
<1>5. Owed(i, label, reason)'
  BY ZenonT(30), <1>4 DEF Owed
<1> QED
  BY ZenonT(30), <1>1, <1>2, <1>3, <1>5, SingleMoved DEF Goto

\* A message is doomed for a reason that is not its handler's.
LEMMA SingleDoomed ==
    ASSUME SharedInv, SingleInv, UNCHANGED <<store, broker, msg>>,
           NEW w \in Workers, pc[w] # "idle",
           NEW reason \in Fates \ HandlerFates, Doom(w, reason)
    PROVE  Sound /\ SingleInv'
<1>1. PICK i \in DOMAIN stream : i = msg[w] /\ i \in Nat
  BY ZenonT(30), SingleOwed
<1>2. Sound
  BY QuietSound
<1>3. msg' = [msg EXCEPT ![w] = i] /\ "publish" \in Labels
  BY ZenonT(30), <1>1, SingleTyped DEF Labels
<1>4. i \in DOMAIN stream'
  BY <1>2 DEF Sound, Grows
<1>5. Owed(i, "publish", reason)'
  BY ZenonT(30), <1>4 DEF Owed
<1> QED
  BY ZenonT(30), <1>1, <1>2, <1>3, <1>5, SingleMoved DEF Doom, Goto

\* Receive hands a worker a message of the stream.
LEMMA ReceiveKept ==
    ASSUME SharedInv, SingleInv, NEW w \in Workers, NEW i \in DOMAIN stream, Receive(w, i)
    PROVE  Sound /\ SingleInv'
<1>1. PICK reason \in Fates : fate' = [fate EXCEPT ![w] = reason]
  BY SingleTyped DEF Receive
<1>2. Sound
  BY ZenonT(30), QuietSound DEF Receive
<1>3. i \in Nat /\ i \in DOMAIN stream' /\ "assigned" \in Labels
  BY ZenonT(30), <1>2, BrokerTyped DEF SharedInv, Sound, Grows, Labels
<1>4. Owed(i, "assigned", reason)'
  BY ZenonT(30), <1>1, <1>3 DEF Owed
<1> QED
  BY ZenonT(30), <1>1, <1>2, <1>3, <1>4, SingleMoved DEF Receive, Goto

\* Begin dooms what does not decode or has expired, without asking the Inbox.
LEMMA BeginKept ==
    ASSUME SharedInv, SingleInv, NEW w \in Workers, Begin(w)
    PROVE  Sound /\ SingleInv'
<1>1. UNCHANGED <<store, broker, msg>> /\ pc[w] # "idle"
  BY DEF Begin
<1>2. CASE \E reason \in {"decode", "expired"} : Doom(w, reason)
  BY ZenonT(30), <1>1, <1>2, SingleDoomed DEF Fates, HandlerFates
<1>3. CASE UNCHANGED fate /\ \E label \in {"nak", "process"} : Goto(w, label)
  <2>1. UNCHANGED <<store, broker, msg, fate>>
    BY <1>1, <1>3
  <2> QED
    BY ZenonT(30), <1>1, <1>3, <2>1, SingleReturns
<1> QED
  BY ZenonT(30), <1>2, <1>3 DEF Begin

\* The steps that give a message up, and the ones that give it back.
LEMMA ReturnKept ==
    ASSUME SharedInv, SingleInv, NEW w \in Workers,
           \/ Conflicts(w) \/ RolledBack(w) \/ Nak(w) \/ PreparationFails(w)
           \/ HandoffCancelled(w) \/ ConfirmFails(w)
    PROVE  Sound /\ SingleInv'
<1>1. CASE UNCHANGED <<store, broker, msg, fate>> /\ pc[w] # "idle"
           /\ \E label \in {"idle", "nak"} : Goto(w, label)
  BY ZenonT(30), <1>1, SingleReturns
<1>2. CASE UNCHANGED <<store, broker, msg>> /\ pc[w] # "idle" /\ Doom(w, "identity_conflict")
  BY ZenonT(30), <1>2, SingleDoomed DEF Fates, HandlerFates
<1>3. CASE Conflicts(w)
  BY ZenonT(30), <1>1, <1>2, <1>3 DEF Conflicts, FailTerminal
<1>4. CASE RolledBack(w) \/ Nak(w)
  BY <1>1, <1>4 DEF RolledBack, Fail, Nak
<1>5. CASE PreparationFails(w) \/ HandoffCancelled(w) \/ ConfirmFails(w)
  BY ZenonT(30), <1>1, <1>5 DEF PreparationFails, HandoffCancelled, ConfirmFails
<1> QED
  BY <1>3, <1>4, <1>5

\* A duplicate is acknowledged because its content won.
LEMMA DuplicateKept ==
    ASSUME SharedInv, SingleInv, NEW w \in Workers, Duplicate(w)
    PROVE  Sound /\ SingleInv'
<1>1. PICK i \in DOMAIN stream, reason \in Fates :
          /\ i = msg[w] /\ reason = fate[w]
          /\ i \in Nat /\ stream[i].key \in Keys /\ stream[i].fp \in Fps /\ stream[i].gen \in Gens
  BY ZenonT(30), SingleOwed DEF Duplicate
<1>2. Sound
  BY ZenonT(30), QuietSound DEF Duplicate
<1>3. Completed(db[stream[i].key]) /\ db[stream[i].key].ident.fp = stream[i].fp
  BY ZenonT(30), <1>1 DEF Duplicate, Stored, Key, Fp
<1>4. Won(stream[i])
  BY ZenonT(30), <1>1, <1>3 DEF SharedInv, WonInv, Won
<1>5. Won(stream[i])' /\ i \in DOMAIN stream'
  BY <1>2, <1>4 DEF Sound, Grows, Won
<1>6. Owed(i, "ack", reason)'
  BY ZenonT(30), <1>1, <1>5 DEF Owed
<1>7. /\ msg' = [msg EXCEPT ![w] = i] /\ fate' = [fate EXCEPT ![w] = reason]
      /\ Goto(w, "ack") /\ "ack" \in Labels
  BY <1>1, SingleTyped DEF Duplicate, Labels
<1> QED
  BY ZenonT(30), <1>1, <1>2, <1>6, <1>7, SingleMoved DEF Goto

\* What the answer of a committed ProcessAttempt makes a worker do next is right:
\* it acknowledges only what won, and dead-letters as failed only what is closed.
LEMMA ProcessedKept ==
    ASSUME SharedInv, SingleInv, NEW w \in Workers,
           NEW max \in Limits, NEW kind \in FailureKinds, Processed(w, max, kind)
    PROVE  Sound /\ SingleInv'
<1>0. pc[w] # "idle" /\ ProcessAttempt(Key(w), Fp(w), Gen(w), max, kind) /\ UNCHANGED <<broker, msg>>
  BY ZenonT(30) DEF Processed
<1>1. PICK i \in DOMAIN stream, reason \in Fates :
          /\ i = msg[w] /\ reason = fate[w]
          /\ i \in Nat /\ stream[i].key \in Keys /\ stream[i].fp \in Fps /\ stream[i].gen \in Gens
  BY ZenonT(30), <1>0, SingleOwed
<1> DEFINE k == stream[i].key
           fp == stream[i].fp
           gen == stream[i].gen
           d == Planned(k, fp, gen, max)
           s == AttemptFingerprint(fp, gen)
<1>2. AttemptDecision(w, max) = d
  BY ZenonT(30), <1>1 DEF AttemptDecision, Planned, Stored, Slot, Key, Fp, Gen
<1>3. ProcessAttempt(k, fp, gen, max, kind) /\ UNCHANGED broker /\ msg' = [msg EXCEPT ![w] = i]
  <2>1. msg' = msg /\ msg \in [Workers -> Nat]
    BY ZenonT(30), <1>0, SingleTyped
  <2>2. msg' = [msg EXCEPT ![w] = i]
    BY <1>1, <2>1
  <2> QED
    BY ZenonT(30), <1>0, <1>1, <2>2 DEF Key, Fp, Gen
<1>4. won' = won \cup AttemptWins(k, fp, gen, max, kind)
  BY ZenonT(30), <1>1, <1>2 DEF Processed, AttemptWins, Win, Key, Fp, Gen
<1>5. /\ Sound
      /\ d.closed # "" => d.closed \in HandlerFates /\ Closed(db'[k], s)
      /\ d.closed = "" => /\ kind = "success" => <<k, fp, gen>> \in won'
                          /\ kind = "permanent" => Closed(db'[k], s)
                          /\ kind \in {"retry_after", "ordinary"} /\ d.attempt >= max
                               => Closed(db'[k], s)
                          /\ ~(d.attempt - 1 >= max)
  BY ZenonT(30), <1>1, <1>3, <1>4, AttemptSound
<1>6. \E label \in {"idle", "nak", "ack", "publish"}, why \in Fates :
         /\ Goto(w, label) /\ fate' = [fate EXCEPT ![w] = why]
         /\ label = "ack" => <<k, fp, gen>> \in won'
         /\ label = "publish" => Closed(db'[k], s)
  <2>1. fate = [fate EXCEPT ![w] = reason]
    BY <1>1, SingleTyped
  <2>2. CASE d.closed # ""
    <3>1. \/ Goto(w, "idle") /\ fate' = fate
          \/ Goto(w, "publish") /\ fate' = [fate EXCEPT ![w] = d.closed]
      BY ZenonT(30), <1>2, <2>2 DEF Processed, FailTerminal, Doom
    <3> QED
      BY ZenonT(30), <1>5, <2>1, <2>2, <3>1 DEF Fates
  <2>3. CASE d.closed = ""
    <3>1. AfterHandler(w, max, kind)
      BY ZenonT(30), <1>2, <2>3 DEF Processed
    <3>2. CASE kind = "success"
      BY ZenonT(30), <1>5, <2>1, <2>3, <3>1, <3>2 DEF AfterHandler
    <3>3. CASE kind = "permanent"
      BY ZenonT(30), <1>5, <2>1, <2>3, <3>1, <3>3
         DEF AfterHandler, FailTerminal, Doom, Fates, HandlerFates
    <3>4. CASE kind = "defer"
      BY ZenonT(30), <1>2, <1>5, <2>1, <2>3, <3>1, <3>4 DEF AfterHandler, Reported, Fail
    <3>5. CASE kind \in {"retry_after", "ordinary"}
      BY ZenonT(30), <1>2, <1>5, <2>1, <2>3, <3>1, <3>5
         DEF AfterHandler, Reported, Fail, FailTerminal, Doom, Fates, HandlerFates
    <3> QED
      BY ZenonT(30), <3>2, <3>3, <3>4, <3>5 DEF FailureKinds
  <2> QED
    BY ZenonT(30), <2>2, <2>3
<1>7. PICK label \in {"idle", "nak", "ack", "publish"}, why \in Fates :
         /\ Goto(w, label) /\ fate' = [fate EXCEPT ![w] = why]
         /\ label = "ack" => <<k, fp, gen>> \in won'
         /\ label = "publish" => Closed(db'[k], s)
  BY ZenonT(30), <1>6
<1>8. i \in DOMAIN stream' /\ stream'[i] = stream[i] /\ label \in Labels
  BY ZenonT(30), <1>5 DEF Sound, Grows, Labels
<1>9. Owed(i, label, why)'
  BY ZenonT(30), <1>1, <1>7, <1>8 DEF Owed, Won, Dead, SlotOf
<1> QED
  BY ZenonT(30), <1>1, <1>3, <1>5, <1>7, <1>8, <1>9, SingleMoved DEF Goto

\* The caller that lost the answer of its commit only gives the message back.
LEMMA CommitUnknownKept ==
    ASSUME SharedInv, SingleInv, NEW w \in Workers,
           NEW max \in Limits, NEW kind \in FailureKinds, CommitUnknown(w, max, kind)
    PROVE  Sound /\ SingleInv'
<1>0. pc[w] # "idle" /\ ProcessAttempt(Key(w), Fp(w), Gen(w), max, kind) /\ UNCHANGED <<broker, msg, fate>>
  BY ZenonT(30) DEF CommitUnknown
<1>1. PICK i \in DOMAIN stream, reason \in Fates :
          /\ i = msg[w] /\ reason = fate[w]
          /\ i \in Nat /\ stream[i].key \in Keys /\ stream[i].fp \in Fps /\ stream[i].gen \in Gens
  BY ZenonT(30), <1>0, SingleOwed
<1> DEFINE k == stream[i].key
           fp == stream[i].fp
           gen == stream[i].gen
<1>2. AttemptDecision(w, max) = Planned(k, fp, gen, max)
  BY ZenonT(30), <1>1 DEF AttemptDecision, Planned, Stored, Slot, Key, Fp, Gen
<1>3. /\ ProcessAttempt(k, fp, gen, max, kind) /\ UNCHANGED broker
      /\ msg' = [msg EXCEPT ![w] = i] /\ fate' = [fate EXCEPT ![w] = reason]
  <2>1. msg' = msg /\ msg \in [Workers -> Nat] /\ fate' = fate /\ fate \in [Workers -> Fates]
    BY ZenonT(30), <1>0, SingleTyped
  <2>2. msg' = [msg EXCEPT ![w] = i] /\ fate' = [fate EXCEPT ![w] = reason]
    BY <1>1, <2>1
  <2> QED
    BY ZenonT(30), <1>0, <1>1, <2>2 DEF Key, Fp, Gen
<1>4. won' = won \cup AttemptWins(k, fp, gen, max, kind)
  BY ZenonT(30), <1>1, <1>2 DEF CommitUnknown, AttemptWins, Win, Key, Fp, Gen
<1>5. Sound
  BY ZenonT(30), <1>1, <1>3, <1>4, AttemptSound
<1>6. PICK label \in {"idle", "nak"} : Goto(w, label)
  BY ZenonT(30) DEF CommitUnknown, Fail
<1>7. i \in DOMAIN stream' /\ label \in Labels
  BY ZenonT(30), <1>5 DEF Sound, Grows, Labels
<1>8. Owed(i, label, reason)'
  BY ZenonT(30), <1>1, <1>6, <1>7 DEF Owed
<1> QED
  BY ZenonT(30), <1>1, <1>3, <1>5, <1>6, <1>7, <1>8, SingleMoved DEF Goto

\* Acknowledging what won is sound, whether or not the broker sees it.
LEMMA AckKept ==
    ASSUME SharedInv, SingleInv, NEW w \in Workers, Ack(w)
    PROVE  Sound /\ SingleInv'
<1>1. pc[w] = "ack" /\ UNCHANGED <<store, stream, dlq, setup>> /\ UNCHANGED <<msg, fate>>
  BY DEF Ack
<1>2. PICK i \in DOMAIN stream, reason \in Fates :
          i = msg[w] /\ reason = fate[w] /\ i \in Nat /\ Owed(i, "ack", reason)
  BY ZenonT(30), <1>1, SingleOwed
<1>3. acked' \in {acked, acked \cup {i}} /\ Won(stream[i])
  BY ZenonT(30), <1>2 DEF Ack, Acknowledge, Owed
<1>4. Sound
  BY ZenonT(30), <1>1, <1>3, AckSound
<1>5. msg' = [msg EXCEPT ![w] = i] /\ fate' = [fate EXCEPT ![w] = reason] /\ "idle" \in Labels
  BY <1>1, <1>2, SingleTyped DEF Labels
<1> QED
  BY ZenonT(30), <1>2, <1>4, <1>5, SingleMoved DEF Ack, Goto

\* Publishing a dead letter, once or again: a reason that blames the handler holds
\* only of a closed generation, and afterwards the record is stored.
LEMMA PublishKept ==
    ASSUME SharedInv, SingleInv, NEW w \in Workers, PublishRecord(w) \/ PublishUnknown(w)
    PROVE  Sound /\ SingleInv'
<1>1. /\ pc[w] = "publish" /\ StoreRecord(stream[msg[w]], fate[w])
      /\ UNCHANGED <<store, stream, acked, setup>> /\ UNCHANGED <<msg, fate>>
  BY DEF PublishRecord, PublishUnknown, worker
<1>2. PICK i \in DOMAIN stream, reason \in Fates :
          i = msg[w] /\ reason = fate[w] /\ i \in Nat /\ Owed(i, "publish", reason)
  BY ZenonT(30), <1>1, SingleOwed
<1>3. (reason \in HandlerFates => Dead(stream[i])) /\ StoreRecord(stream[i], reason)
  BY ZenonT(30), <1>1, <1>2 DEF Owed
<1>4. Sound /\ Recorded(stream[i])'
  BY ZenonT(30), <1>1, <1>3, RecordSound
<1>5. CASE PublishUnknown(w)
  <2>1. UNCHANGED worker
    BY <1>5 DEF PublishUnknown
  <2> QED
    BY ZenonT(30), <1>4, <2>1, SingleKept
<1>6. CASE PublishRecord(w)
  <2>1. /\ msg' = [msg EXCEPT ![w] = i] /\ fate' = [fate EXCEPT ![w] = reason]
        /\ "ack_record" \in Labels
    BY <1>1, <1>2, SingleTyped DEF Labels
  <2>2. Owed(i, "publish", reason)'
    BY ZenonT(30), <1>2, <1>4, OwedKept DEF SharedInv, Sound
  <2>3. Owed(i, "ack_record", reason)'
    BY ZenonT(30), <1>4, <2>2 DEF Owed
  <2> QED
    BY ZenonT(30), <1>2, <1>4, <1>6, <2>1, <2>3, SingleMoved DEF PublishRecord, Goto
<1> QED
  BY ZenonT(30), <1>5, <1>6

\* The source of a stored record is acknowledged, once or again; a hand-off is
\* confirmed only after that, and only for a handler failure.
LEMMA AckRecordKept ==
    ASSUME SharedInv, SingleInv, NEW w \in Workers, AckRecord(w) \/ AckUnknown(w)
    PROVE  Sound /\ SingleInv'
<1>1. /\ pc[w] = "ack_record" /\ acked' = acked \cup {msg[w]}
      /\ UNCHANGED <<store, stream, dlq, setup>> /\ UNCHANGED <<msg, fate>>
  BY ZenonT(30) DEF AckRecord, AckUnknown, worker
<1>2. PICK i \in DOMAIN stream, reason \in Fates :
          i = msg[w] /\ reason = fate[w] /\ i \in Nat /\ Owed(i, "ack_record", reason)
  BY ZenonT(30), <1>1, SingleOwed
<1>3. acked' \in {acked, acked \cup {i}} /\ i \in acked' /\ Recorded(stream[i])
  BY ZenonT(30), <1>1, <1>2 DEF Owed
<1>4. Sound
  BY ZenonT(30), <1>1, <1>3, AckSound
<1>5. CASE AckUnknown(w)
  <2>1. UNCHANGED worker
    BY <1>5 DEF AckUnknown
  <2> QED
    BY ZenonT(30), <1>4, <2>1, SingleKept
<1>6. CASE AckRecord(w)
  <2>1. PICK label \in {"idle", "confirm"} :
           Goto(w, label) /\ (label = "confirm" => reason \in HandlerFates)
    BY ZenonT(30), <1>2, <1>6 DEF AckRecord
  <2>2. /\ msg' = [msg EXCEPT ![w] = i] /\ fate' = [fate EXCEPT ![w] = reason]
        /\ label \in Labels
    BY <1>1, <1>2, SingleTyped DEF Labels
  <2>3. Owed(i, "ack_record", reason)'
    BY ZenonT(30), <1>2, <1>4, OwedKept DEF SharedInv, Sound
  <2>4. Owed(i, label, reason)'
    BY ZenonT(30), <1>3, <2>1, <2>3 DEF Owed
  <2> QED
    BY ZenonT(30), <1>2, <1>4, <2>1, <2>2, <2>4, SingleMoved DEF Goto
<1> QED
  BY <1>5, <1>6

\* The hand-off that is confirmed took place.
LEMMA ConfirmsKept ==
    ASSUME SharedInv, SingleInv, NEW w \in Workers, NEW now \in Times, Confirm(w, now)
    PROVE  Sound /\ SingleInv'
<1>1. /\ pc[w] = "confirm" /\ ConfirmTerminalHandoff(Key(w), Fp(w), Gen(w), now)
      /\ Goto(w, "idle") /\ UNCHANGED <<won, broker>> /\ UNCHANGED <<msg, fate>>
  BY ZenonT(30) DEF Confirm
<1>2. PICK i \in DOMAIN stream, reason \in Fates :
          i = msg[w] /\ reason = fate[w] /\ i \in Nat /\ Owed(i, "confirm", reason)
  BY ZenonT(30), <1>1, SingleOwed
<1>3. /\ i \in acked /\ Recorded(stream[i])
      /\ ConfirmTerminalHandoff(stream[i].key, stream[i].fp, stream[i].gen, now)
  BY ZenonT(30), <1>1, <1>2 DEF Owed, Key, Fp, Gen
<1>4. Sound
  BY ZenonT(30), <1>1, <1>3, ConfirmSound
<1>5. msg' = [msg EXCEPT ![w] = i] /\ fate' = [fate EXCEPT ![w] = reason] /\ "idle" \in Labels
  BY <1>1, <1>2, SingleTyped DEF Labels
<1> QED
  BY ZenonT(30), <1>1, <1>2, <1>4, <1>5, SingleMoved DEF Goto

\* A crash or a restart leaves every worker idle and forgets nothing else.
LEMMA CrashKept ==
    ASSUME SharedInv, SingleInv, Crash \/ Restart
    PROVE  Sound /\ SingleInv'
<1>1. UNCHANGED <<store, broker>> /\ UNCHANGED <<msg, fate>>
  BY DEF Crash, Restart, worker
<1>2. Sound
  BY <1>1, QuietSound
<1>3. pc' = [w \in Workers |-> "idle"]
  BY SingleTyped DEF Crash, Restart, worker
<1>4. pc' \in [Workers -> Labels] /\ \A w \in Workers : pc'[w] = "idle"
  BY <1>3 DEF Labels
<1>5. msg' \in [Workers -> Nat] /\ fate' \in [Workers -> Fates]
  BY <1>1, SingleTyped
<1> QED
  BY ZenonT(30), <1>2, <1>4, <1>5 DEF SingleInv

\* Every step of the single-message consumer is sound.
LEMMA SingleNext ==
    ASSUME SharedInv, SingleInv, ConsumerNext
    PROVE  Sound /\ SingleInv'
BY ZenonT(30), ReceiveKept, BeginKept, ReturnKept, DuplicateKept, ProcessedKept, CommitUnknownKept,
   AckKept, PublishKept, AckRecordKept, ConfirmsKept, CrashKept
   DEF ConsumerNext, Outcome, Handoff

-----------------------------------------------------------------------------
(* The batch consumer.                                                     *)

\* The variables of the workers are typed, and so are the deliveries.
LEMMA BatchTyped ==
    ASSUME BatchInv
    PROVE  /\ phase \in [Workers -> Phases] /\ held \in [Workers -> Seq(Item)]
           /\ \A w \in Workers : \A d \in Deliveries(w) :
                 /\ d \in Nat /\ held[w][d] \in Item
                 /\ held[w][d].msg \in Nat /\ held[w][d].step \in Steps /\ held[w][d].fate \in Fates
<1>1. phase \in [Workers -> Phases] /\ held \in [Workers -> Seq(Item)]
  BY ZenonT(30) DEF BatchInv
<1>2. \A w \in Workers : held[w] \in Seq(Item)
  BY <1>1
<1>3. \A w \in Workers : \A d \in Deliveries(w) : d \in Nat /\ held[w][d] \in Item
  BY ZenonT(30), <1>2, SeqElement DEF Deliveries
<1>4. \A x \in Item : x.msg \in Nat /\ x.step \in Steps /\ x.fate \in Fates
  BY DEF Item
<1> QED
  BY ZenonT(30), <1>1, <1>3, <1>4

\* A batch stays good through the sound steps of others.
LEMMA GoodKept ==
    ASSUME BrokerInv, Grows, NEW label, NEW batch, BatchGood(label, batch)
    PROVE  BatchGood(label, batch)'
<1>1. \A d \in DOMAIN batch : Owed(batch[d].msg, batch[d].step, batch[d].fate)
  BY ZenonT(30) DEF BatchGood
<1>2. \A d \in DOMAIN batch : Owed(batch[d].msg, batch[d].step, batch[d].fate)'
  BY ZenonT(30), <1>1, OwedKept
<1>3. \A d \in DOMAIN batch : Of(batch[d])' = Of(batch[d])
  BY ZenonT(30), <1>1 DEF Owed, Of, Grows
<1>4. OneGeneration(batch) => OneGeneration(batch)'
  BY ZenonT(30), <1>3 DEF OneGeneration, Joins
<1>5. Decoded(batch) => Decoded(batch)'
  BY ZenonT(30), <1>3 DEF Decoded
<1> QED
  BY ZenonT(30), <1>2, <1>4, <1>5 DEF BatchGood

\* The batch of a worker is good when what it holds next is.
LEMMA GoodAt ==
    ASSUME NEW w \in Workers, NEW label, NEW batch, phase'[w] = label, held'[w] = batch,
           BatchGood(label, batch)'
    PROVE  BatchGood(phase[w], held[w])'
<1>1. /\ \A d \in DOMAIN batch : Owed(batch[d].msg, batch[d].step, batch[d].fate)'
      /\ label \in {"filling", "collected", "process"} => OneGeneration(batch)'
      /\ label = "process" => Decoded(batch)'
  BY ZenonT(30) DEF BatchGood
<1>2. \A d \in DOMAIN held'[w] : Owed(held[w][d].msg, held[w][d].step, held[w][d].fate)'
  <2> TAKE d \in DOMAIN held'[w]
  <2>1. d \in DOMAIN batch /\ held'[w][d] = batch[d]
    BY ZenonT(30)
  <2>2. Owed(batch[d].msg, batch[d].step, batch[d].fate)'
    BY ZenonT(30), <1>1, <2>1
  <2> QED
    BY ZenonT(30), <2>1, <2>2 DEF Owed
<1>3. OneGeneration(batch)' => OneGeneration(held[w])'
  BY ZenonT(30) DEF OneGeneration, Joins, Of
<1>4. Decoded(batch)' => Decoded(held[w])'
  BY ZenonT(30) DEF Decoded, Of
<1> QED
  BY ZenonT(30), <1>1, <1>2, <1>3, <1>4 DEF BatchGood

\* A worker keeps a good batch through the sound steps of others.
LEMMA OthersKept ==
    ASSUME SharedInv, Sound, BatchInv, NEW w \in Workers, phase'[w] = phase[w], held'[w] = held[w]
    PROVE  BatchGood(phase[w], held[w])'
<1>1. PICK label, batch : label = phase[w] /\ batch = held[w]
  OBVIOUS
<1>2. BatchGood(label, batch)'
  BY ZenonT(30), <1>1, GoodKept DEF BatchInv, SharedInv, Sound
<1>3. phase'[w] = label /\ held'[w] = batch
  BY ZenonT(30), <1>1
<1> QED
  BY ZenonT(30), <1>2, <1>3, GoodAt

\* Batches that no step touches stay good.
LEMMA BatchesKept ==
    ASSUME SharedInv, Sound, BatchInv, UNCHANGED <<phase, held>>
    PROVE  BatchInv'
<1>1. phase' = phase /\ held' = held
  OBVIOUS
<1>2. \A w \in Workers : BatchGood(phase[w], held[w])'
  BY ZenonT(30), <1>1, OthersKept
<1> QED
  BY ZenonT(30), <1>1, <1>2 DEF BatchInv

\* A step of worker w that leads to a good batch.
LEMMA BatchMoved ==
    ASSUME SharedInv, Sound, BatchInv, NEW w \in Workers,
           NEW label \in Phases, NEW batch \in Seq(Item),
           phase' = [phase EXCEPT ![w] = label], held' = [held EXCEPT ![w] = batch],
           BatchGood(label, batch)'
    PROVE  BatchInv'
<1>1. /\ phase' \in [Workers -> Phases] /\ held' \in [Workers -> Seq(Item)]
      /\ phase'[w] = label /\ held'[w] = batch
      /\ \A v \in Workers \ {w} : phase'[v] = phase[v] /\ held'[v] = held[v]
  BY BatchTyped
<1>2. \A v \in Workers : BatchGood(phase[v], held[v])'
  BY ZenonT(30), <1>1, OthersKept, GoodAt
<1> QED
  BY ZenonT(30), <1>1, <1>2 DEF BatchInv

\* The steps that forget the batch.
LEMMA LeaveKept ==
    ASSUME SharedInv, BatchInv, NEW w \in Workers,
           PullFails(w) \/ BatchFailsClosed(w) \/ Finished(w)
    PROVE  Sound /\ BatchInv'
<1>1. UNCHANGED <<store, broker>>
  BY ZenonT(30) DEF PullFails, BatchFailsClosed, Finished
<1>2. phase' = [phase EXCEPT ![w] = "idle"] /\ held' = [held EXCEPT ![w] = <<>>]
  BY ZenonT(30) DEF PullFails, BatchFailsClosed, Finished, Leave, Enter
<1>3. Sound
  BY <1>1, QuietSound
<1>4. <<>> \in Seq(Item) /\ "idle" \in Phases /\ DOMAIN <<>> = {}
  BY DEF Phases
<1>5. BatchGood("idle", <<>>)'
  BY ZenonT(30), <1>4 DEF BatchGood
<1> QED
  BY ZenonT(30), <1>2, <1>3, <1>4, <1>5, BatchMoved

\* A step that leaves the ledger and the broker alone and leads to a good batch.
LEMMA BatchQuiet ==
    ASSUME SharedInv, BatchInv, UNCHANGED <<store, broker>>, NEW w \in Workers,
           NEW label \in Phases, NEW batch \in Seq(Item),
           phase' = [phase EXCEPT ![w] = label], held' = [held EXCEPT ![w] = batch],
           BatchGood(label, batch)
    PROVE  Sound /\ BatchInv'
<1>1. Sound
  BY QuietSound
<1>2. BatchGood(label, batch)'
  BY ZenonT(30), <1>1, GoodKept DEF SharedInv, Sound
<1> QED
  BY ZenonT(30), <1>1, <1>2, BatchMoved

\* A batch in which some deliveries are no longer for the Inbox.
LEMMA Remapped ==
    ASSUME NEW b \in Seq(Item), NEW t, t = [d \in DOMAIN b |-> t[d]],
           \A d \in DOMAIN b : t[d] = b[d] \/ (t[d] \in Item /\ t[d].step # "valid")
    PROVE  /\ t \in Seq(Item) /\ DOMAIN t = DOMAIN b
           /\ OneGeneration(b) => OneGeneration(t)
<1>1. DOMAIN t = DOMAIN b
  BY ZenonT(30)
<1>2. \A d \in DOMAIN b : t[d] \in Item
  BY ZenonT(30), SeqElement
<1>3. t \in Seq(Item)
  BY ZenonT(30), <1>2, SeqMapped
<1>4. \A d \in DOMAIN t : t[d].step = "valid" => d \in DOMAIN b /\ t[d] = b[d]
  BY ZenonT(30), <1>1
<1>5. ASSUME OneGeneration(b), NEW d \in DOMAIN t, NEW e \in DOMAIN t,
             Joins(t[d]), Joins(t[e]), Of(t[d]).key = Of(t[e]).key
      PROVE  Of(t[d]).gen = Of(t[e]).gen
  <2>1. d \in DOMAIN b /\ t[d] = b[d] /\ e \in DOMAIN b /\ t[e] = b[e]
    BY ZenonT(30), <1>4, <1>5 DEF Joins
  <2> QED
    BY ZenonT(30), <1>5, <2>1 DEF OneGeneration
<1> QED
  BY ZenonT(30), <1>1, <1>3, <1>5 DEF OneGeneration

\* The pulls collect at most one generation of an identity, of what decodes.
LEMMA FetchFirstKept ==
    ASSUME SharedInv, BatchInv, NEW w \in Workers, NEW i \in DOMAIN stream, FetchFirst(w, i)
    PROVE  Sound /\ BatchInv'
<1> DEFINE x == Delivery(i, "valid", "decode")
<1>1. UNCHANGED <<store, broker>> /\ held' = [held EXCEPT ![w] = <<x>>]
  BY ZenonT(30) DEF FetchFirst, shared
<1>2. PICK label \in {"filling", "collected"} : phase' = [phase EXCEPT ![w] = label]
  BY ZenonT(30) DEF FetchFirst, Enter
<1>3. i \in Nat
  BY ZenonT(30), BrokerTyped DEF SharedInv
<1>4. x \in Item /\ x.msg = i /\ x.step = "valid" /\ x.fate = "decode" /\ label \in Phases /\ label # "process"
  BY <1>3 DEF Delivery, Item, Fates, Steps, Phases
<1> HIDE DEF x
<1>5. <<x>> \in Seq(Item) /\ \A d \in DOMAIN <<x>> : <<x>>[d] = x
  BY <1>4
<1>6. Owed(x.msg, x.step, x.fate)
  BY ZenonT(30), <1>4 DEF Owed, Fates, HandlerFates
<1>7. BatchGood(label, <<x>>)
  BY ZenonT(30), <1>4, <1>5, <1>6 DEF BatchGood, OneGeneration
<1> QED
  BY ZenonT(30), <1>1, <1>2, <1>4, <1>5, <1>7, BatchQuiet

\* A further delivery joins a batch only in the generation its identity has there.
LEMMA FetchFillKept ==
    ASSUME SharedInv, BatchInv, NEW w \in Workers, NEW i \in DOMAIN stream, FetchFill(w, i)
    PROVE  Sound /\ BatchInv'
<1> DEFINE x == Delivery(i, "valid", "decode")
           b == held[w]
           t == Append(b, x)
<1>1. UNCHANGED <<store, broker>> /\ held' = [held EXCEPT ![w] = t]
  <2>1. UNCHANGED shared /\ held' = [held EXCEPT ![w] = Append(@, x)]
    BY ZenonT(30) DEF FetchFill
  <2> QED
    BY <2>1 DEF shared
<1>2. PICK label \in {"filling", "collected"} : phase' = [phase EXCEPT ![w] = label]
  BY ZenonT(30) DEF FetchFill, Enter
<1>3. phase[w] = "filling" /\ ~ConflictingGeneration(w, stream[i])
  BY ZenonT(30) DEF FetchFill
<1>4. i \in Nat /\ b \in Seq(Item)
  BY BrokerTyped, BatchTyped DEF SharedInv
<1>5. x \in Item /\ x.msg = i /\ x.step = "valid" /\ x.fate = "decode" /\ label \in Phases /\ label # "process"
  BY <1>4 DEF Delivery, Item, Fates, Steps, Phases
<1>6. /\ \A d \in DOMAIN b : Owed(b[d].msg, b[d].step, b[d].fate)
      /\ OneGeneration(b)
  BY ZenonT(30), <1>3 DEF BatchInv, BatchGood
<1>7. Owed(x.msg, x.step, x.fate)
  BY ZenonT(30), <1>5 DEF Owed, Fates, HandlerFates
<1>8. \A d \in DOMAIN b :
          Of(x).fp \notin Undecodable /\ Of(b[d]).fp \notin Undecodable /\ Of(b[d]).key = Of(x).key
              => Of(b[d]).gen = Of(x).gen
  BY ZenonT(30), <1>3, <1>5 DEF ConflictingGeneration, Deliveries, Of
<1> HIDE DEF x, b, t
<1>9. t \in Seq(Item) /\ \A d \in DOMAIN t : t[d] = x \/ (d \in DOMAIN b /\ t[d] = b[d])
  <2>1. /\ t \in Seq(Item)
        /\ \A d \in DOMAIN b : d \in DOMAIN t /\ t[d] = b[d]
        /\ \A d \in DOMAIN t \ DOMAIN b : t[d] = x
    BY <1>4, <1>5 DEF t
  <2> QED
    BY <2>1
<1>10. ASSUME NEW d \in DOMAIN t, NEW e \in DOMAIN t,
             Joins(t[d]), Joins(t[e]), Of(t[d]).key = Of(t[e]).key
      PROVE  Of(t[d]).gen = Of(t[e]).gen
  <2>1. CASE t[d] = x /\ t[e] = x
    BY ZenonT(30), <2>1
  <2>2. CASE t[d] = x /\ e \in DOMAIN b /\ t[e] = b[e]
    BY ZenonT(30), <1>8, <1>10, <2>2 DEF Joins
  <2>3. CASE t[e] = x /\ d \in DOMAIN b /\ t[d] = b[d]
    BY ZenonT(30), <1>8, <1>10, <2>3 DEF Joins
  <2>4. CASE d \in DOMAIN b /\ t[d] = b[d] /\ e \in DOMAIN b /\ t[e] = b[e]
    BY ZenonT(30), <1>6, <1>10, <2>4 DEF OneGeneration
  <2> QED
    BY ZenonT(30), <1>9, <2>1, <2>2, <2>3, <2>4
<1>11. BatchGood(label, t)
  BY ZenonT(30), <1>5, <1>6, <1>7, <1>9, <1>10 DEF BatchGood, OneGeneration
<1> QED
  BY ZenonT(30), <1>1, <1>2, <1>5, <1>9, <1>11, BatchQuiet

\* The end of the fill leaves the batch as it is.
LEMMA FillEndsKept ==
    ASSUME SharedInv, BatchInv, NEW w \in Workers, FillEnds(w)
    PROVE  Sound /\ BatchInv'
<1>1. UNCHANGED <<store, broker>> /\ phase[w] = "filling" /\ held' = held
  BY DEF FillEnds, shared
<1>2. phase' = [phase EXCEPT ![w] = "collected"] /\ "collected" \in Phases
  BY DEF FillEnds, Enter, Phases
<1>3. held' = [held EXCEPT ![w] = held[w]] /\ held[w] \in Seq(Item)
  BY <1>1, BatchTyped
<1>4. BatchGood("collected", held[w])
  BY ZenonT(30), <1>1 DEF BatchInv, BatchGood
<1> QED
  BY ZenonT(30), <1>1, <1>2, <1>3, <1>4, BatchQuiet

\* Classify sends to the Inbox only what decodes, and dooms the others without
\* blaming a handler.
LEMMA ClassifyKept ==
    ASSUME SharedInv, BatchInv, NEW w \in Workers, Classify(w)
    PROVE  Sound /\ BatchInv'
<1> DEFINE b == held[w]
           t == [d \in DOMAIN b |-> Classified(b[d])]
<1>1. UNCHANGED <<store, broker>> /\ held' = [held EXCEPT ![w] = t] /\ phase[w] = "collected"
  BY ZenonT(30) DEF Classify, Deliveries, shared
<1>2. PICK label \in {"process", "settle"} : phase' = [phase EXCEPT ![w] = label]
  BY ZenonT(30) DEF Classify, Enter
<1>3. label \in Phases
  BY DEF Phases
<1>4. /\ \A d \in DOMAIN b : Owed(b[d].msg, b[d].step, b[d].fate)
      /\ OneGeneration(b)
  BY ZenonT(30), <1>1 DEF BatchInv, BatchGood
<1>5. b \in Seq(Item) /\ \A d \in DOMAIN b : b[d].msg \in Nat
  BY BatchTyped DEF Deliveries
<1>6. ASSUME NEW d \in DOMAIN b
      PROVE  /\ \/ Classified(b[d]) = b[d] /\ Of(b[d]).fp \notin Undecodable
                \/ Classified(b[d]) \in Item /\ Classified(b[d]).step # "valid"
             /\ Owed(Classified(b[d]).msg, Classified(b[d]).step, Classified(b[d]).fate)
  <2>1. CASE Classified(b[d]) = b[d] /\ Of(b[d]).fp \notin Undecodable
    BY ZenonT(30), <1>4, <2>1
  <2>2. ASSUME NEW step \in {"publish", "nak"}, NEW reason \in {"decode", "expired"},
               Classified(b[d]) = Delivery(b[d].msg, step, reason)
        PROVE  /\ Classified(b[d]) \in Item /\ Classified(b[d]).step # "valid"
               /\ Owed(Classified(b[d]).msg, Classified(b[d]).step, Classified(b[d]).fate)
    <3>1. /\ Classified(b[d]) \in Item
          /\ Classified(b[d]).msg = b[d].msg /\ Classified(b[d]).step = step /\ Classified(b[d]).fate = reason
      BY <1>5, <2>2 DEF Delivery, Item, Steps, Fates
    <3>2. b[d].msg \in DOMAIN stream
      BY ZenonT(30), <1>4 DEF Owed
    <3>3. Owed(b[d].msg, step, reason)
      BY ZenonT(30), <3>2 DEF Owed, Fates, HandlerFates
    <3> QED
      BY ZenonT(30), <3>1, <3>3
  <2>3. \/ Classified(b[d]) = b[d] /\ Of(b[d]).fp \notin Undecodable
        \/ \E step \in {"publish", "nak"}, reason \in {"decode", "expired"} :
              Classified(b[d]) = Delivery(b[d].msg, step, reason)
    BY ZenonT(30) DEF Classified
  <2> QED
    BY ZenonT(30), <2>1, <2>2, <2>3
<1> HIDE DEF b
<1>7. \A d \in DOMAIN b : t[d] = Classified(b[d])
  OBVIOUS
<1>8. t = [d \in DOMAIN b |-> t[d]]
  BY ZenonT(30)
<1> HIDE DEF t
<1>9. /\ t \in Seq(Item) /\ DOMAIN t = DOMAIN b
      /\ OneGeneration(b) => OneGeneration(t)
  BY ZenonT(90), <1>5, <1>6, <1>7, <1>8, Remapped
<1>10. Decoded(t) /\ \A d \in DOMAIN t : Owed(t[d].msg, t[d].step, t[d].fate)
  BY ZenonT(30), <1>6, <1>7, <1>9 DEF Decoded
<1>11. BatchGood(label, t)
  BY ZenonT(30), <1>4, <1>9, <1>10 DEF BatchGood
<1> QED
  BY ZenonT(30), <1>1, <1>2, <1>3, <1>9, <1>11, BatchQuiet

\* A batch being settled: each delivery keeps its step, or moves to one it is owed.
LEMMA SettleMoved ==
    ASSUME SharedInv, Sound, BatchInv, NEW w \in Workers,
           phase' = [phase EXCEPT ![w] = "settle"], held' = [held EXCEPT ![w] = held'[w]],
           held'[w] = [d \in Deliveries(w) |-> held'[w][d]],
           \A d \in Deliveries(w) :
              \/ held'[w][d] = held[w][d]
              \/ held'[w][d] \in Item /\ Owed(held[w][d].msg, held[w][d].step, held[w][d].fate)'
    PROVE  BatchInv'
<1>1. PICK t : t = held'[w]
  BY ZenonT(30)
<1>2. held[w] \in Seq(Item) /\ t = [d \in DOMAIN held[w] |-> t[d]]
  BY ZenonT(30), BatchTyped, <1>1 DEF Deliveries
<1>3. ASSUME NEW d \in DOMAIN t
      PROVE  t[d] \in Item /\ Owed(t[d].msg, t[d].step, t[d].fate)'
  <2>1. d \in Deliveries(w)
    BY ZenonT(30), <1>2 DEF Deliveries
  <2>2. CASE t[d] = held[w][d]
    <3>1. PICK i, step, reason : i = t[d].msg /\ step = t[d].step /\ reason = t[d].fate
      BY ZenonT(30)
    <3>2. Owed(i, step, reason)
      BY ZenonT(30), <2>1, <2>2, <3>1 DEF BatchInv, BatchGood, Deliveries
    <3>3. Owed(i, step, reason)'
      BY ZenonT(30), <3>2, OwedKept DEF SharedInv, Sound
    <3>4. t[d] \in Item
      BY ZenonT(30), <2>1, <2>2, BatchTyped
    <3> QED
      BY ZenonT(30), <3>1, <3>3, <3>4
  <2>3. CASE t[d] \in Item /\ Owed(held[w][d].msg, held[w][d].step, held[w][d].fate)'
    BY ZenonT(30), <1>1, <2>3 DEF Owed
  <2> QED
    BY ZenonT(30), <1>1, <2>1, <2>2, <2>3
<1>4. DOMAIN t = DOMAIN held[w]
  BY ZenonT(30), <1>2
<1>5. t \in Seq(Item) /\ "settle" \in Phases
  <2>1. \A d \in DOMAIN held[w] : t[d] \in Item
    BY ZenonT(30), <1>3, <1>4
  <2>2. t \in Seq(Item)
    BY ZenonT(30), <1>2, <2>1, SeqMapped
  <2> QED
    BY <2>2 DEF Phases
<1>6. BatchGood("settle", t)'
  BY ZenonT(30), <1>3 DEF BatchGood
<1> QED
  BY ZenonT(30), <1>1, <1>5, <1>6, BatchMoved

\* A delivery that is given back or done with promises nothing.
LEMMA Harmless ==
    ASSUME Sound, BatchInv, NEW w \in Workers, NEW d \in Deliveries(w),
           held'[w][d].msg = held[w][d].msg, held'[w][d].step \in {"nak", "done"},
           held'[w][d].fate \in Fates
    PROVE  Owed(held[w][d].msg, held[w][d].step, held[w][d].fate)'
<1>1. held[w][d].msg \in DOMAIN stream
  BY ZenonT(30) DEF BatchInv, BatchGood, Deliveries, Owed
<1>2. held'[w][d].msg \in DOMAIN stream'
  BY ZenonT(30), <1>1 DEF Sound, Grows
<1> QED
  BY ZenonT(30), <1>2 DEF Owed

\* A top-level error gives the deliveries for the Inbox back.
LEMMA ReturnedKept ==
    ASSUME SharedInv, Sound, BatchInv, NEW w \in Workers, ReturnValid(w)
    PROVE  BatchInv'
<1>1. phase' = [phase EXCEPT ![w] = "settle"]
  BY DEF ReturnValid, Enter
<1> DEFINE t == [d \in Deliveries(w) |->
                    IF held[w][d].step = "valid" THEN Decided(w, d, "retry") ELSE held[w][d]]
<1>2. held' = [held EXCEPT ![w] = t]
  BY ZenonT(30) DEF ReturnValid
<1>3. held'[w] = t
  <2> HIDE DEF t
  <2> QED
    BY <1>2, BatchTyped
<1>4. held' = [held EXCEPT ![w] = held'[w]] /\ held'[w] = [d \in Deliveries(w) |-> held'[w][d]]
  BY ZenonT(30), <1>2, <1>3
<1>5. ASSUME NEW d \in Deliveries(w)
      PROVE  \/ held'[w][d] = held[w][d]
             \/ held'[w][d] \in Item /\ Owed(held[w][d].msg, held[w][d].step, held[w][d].fate)'
  <2>1. CASE held[w][d].step = "valid"
    <3>1. held'[w][d] = Decided(w, d, "retry")
      BY ZenonT(30), <1>3, <2>1
    <3>2. Decided(w, d, "retry") = Delivery(held[w][d].msg, "nak", "decode")
      BY ZenonT(30) DEF Decided
    <3>3. /\ held'[w][d] \in Item /\ held'[w][d].msg = held[w][d].msg
          /\ held'[w][d].step = "nak" /\ held'[w][d].fate \in Fates
      <4>1. held[w][d].msg \in Nat
        BY ZenonT(30), BatchTyped
      <4>2. held'[w][d] = Delivery(held[w][d].msg, "nak", "decode")
        BY ZenonT(30), <3>1, <3>2
      <4> QED
        BY <4>1, <4>2 DEF Delivery, Item, Steps, Fates
    <3> QED
      BY ZenonT(30), <3>3, Harmless
  <2>2. CASE held[w][d].step # "valid"
    BY ZenonT(30), <1>3, <2>2
  <2> QED
    BY ZenonT(30), <2>1, <2>2
<1> QED
  BY ZenonT(30), <1>1, <1>4, <1>5, SettleMoved

\* A call that changed nothing returns the valid deliveries to the broker.
LEMMA RolledBackKept ==
    ASSUME SharedInv, BatchInv, NEW w \in Workers, BatchRolledBack(w)
    PROVE  Sound /\ BatchInv'
<1>1. Sound
  BY QuietSound DEF BatchRolledBack, shared
<1> QED
  BY ZenonT(30), <1>1, ReturnedKept DEF BatchRolledBack

\* With the run context over, the tasks that are left are abandoned.
LEMMA SettleCancelledKept ==
    ASSUME SharedInv, BatchInv, NEW w \in Workers, SettleCancelled(w)
    PROVE  Sound /\ BatchInv'
<1>1. Sound
  BY QuietSound DEF SettleCancelled, shared
<1>2. phase[w] = "settle" /\ phase' = phase
  BY ZenonT(30) DEF SettleCancelled
<1>3. phase' = [phase EXCEPT ![w] = "settle"]
  BY <1>2, BatchTyped
<1> DEFINE t == [d \in Deliveries(w) |->
                    IF d \in In(w, {"ack", "nak"}) THEN [held[w][d] EXCEPT !.step = "done"] ELSE held[w][d]]
<1>4. held' = [held EXCEPT ![w] = t]
  BY ZenonT(30), BatchTyped DEF SettleCancelled
<1>5. held'[w] = t
  <2> HIDE DEF t
  <2> QED
    BY <1>4, BatchTyped
<1>6. held' = [held EXCEPT ![w] = held'[w]] /\ held'[w] = [d \in Deliveries(w) |-> held'[w][d]]
  BY ZenonT(30), <1>4, <1>5
<1>7. ASSUME NEW d \in Deliveries(w)
      PROVE  \/ held'[w][d] = held[w][d]
             \/ held'[w][d] \in Item /\ Owed(held[w][d].msg, held[w][d].step, held[w][d].fate)'
  <2>1. CASE d \in In(w, {"ack", "nak"})
    <3>1. held'[w][d] = [held[w][d] EXCEPT !.step = "done"]
      BY ZenonT(30), <1>5, <2>1
    <3>2. /\ held'[w][d] \in Item /\ held'[w][d].msg = held[w][d].msg
          /\ held'[w][d].step = "done" /\ held'[w][d].fate \in Fates
      BY ZenonT(30), <3>1, BatchTyped DEF Item, Steps
    <3> QED
      BY ZenonT(30), <1>1, <3>2, Harmless
  <2>2. CASE d \notin In(w, {"ack", "nak"})
    BY ZenonT(30), <1>5, <2>2
  <2> QED
    BY ZenonT(30), <2>1, <2>2
<1> QED
  BY ZenonT(30), <1>1, <1>3, <1>6, <1>7, SettleMoved

\* One delivery is settled, or moves to a step it is owed.
LEMMA SettledOne ==
    ASSUME SharedInv, Sound, BatchInv, NEW w \in Workers, NEW d \in Deliveries(w),
           phase[w] = "settle", phase' = phase, NEW step \in Steps, Settle(w, d, step),
           NEW i, NEW reason, i = held[w][d].msg, reason = held[w][d].fate,
           step # "done" => Owed(i, step, reason)'
    PROVE  BatchInv'
<1>1. phase' = [phase EXCEPT ![w] = "settle"]
  BY ZenonT(30), BatchTyped
<1>2. held[w] \in Seq(Item)
  BY ZenonT(30), BatchTyped
<1> DEFINE t == [held[w] EXCEPT ![d].step = step]
<1>3. held' = [held EXCEPT ![w] = t] /\ held'[w] = t
  BY BatchTyped DEF Settle
<1>4. /\ t[d] = [held[w][d] EXCEPT !.step = step]
      /\ \A e \in Deliveries(w) \ {d} : t[e] = held[w][e]
      /\ t = [e \in Deliveries(w) |-> t[e]]
  BY <1>2 DEF Deliveries
<1> HIDE DEF t
<1>5. held' = [held EXCEPT ![w] = held'[w]] /\ held'[w] = [e \in Deliveries(w) |-> held'[w][e]]
  BY ZenonT(30), <1>3, <1>4
<1>6. /\ held'[w][d] \in Item /\ held'[w][d].msg = i
      /\ held'[w][d].step = step /\ held'[w][d].fate = reason /\ reason \in Fates
  BY ZenonT(30), <1>3, <1>4, BatchTyped DEF Item
<1>7. Owed(held[w][d].msg, held[w][d].step, held[w][d].fate)'
  <2>1. CASE step = "done"
    BY ZenonT(30), <1>6, <2>1, Harmless
  <2>2. CASE step # "done"
    BY ZenonT(30), <1>6, <2>2 DEF Owed
  <2> QED
    BY ZenonT(30), <2>1, <2>2
<1>8. \A e \in Deliveries(w) :
        \/ held'[w][e] = held[w][e]
        \/ held'[w][e] \in Item /\ Owed(held[w][e].msg, held[w][e].step, held[w][e].fate)'
  BY ZenonT(30), <1>3, <1>4, <1>6, <1>7
<1> QED
  BY ZenonT(30), <1>1, <1>5, <1>8, SettleMoved

\* The message, the reason and the right of a delivery.
LEMMA BatchOwed ==
    ASSUME SharedInv, BatchInv, NEW w \in Workers, NEW d \in Deliveries(w)
    PROVE  \E i \in DOMAIN stream, reason \in Fates :
              /\ i = held[w][d].msg /\ reason = held[w][d].fate /\ stream[i] = Of(held[w][d])
              /\ Owed(i, held[w][d].step, reason)
<1>1. Owed(held[w][d].msg, held[w][d].step, held[w][d].fate)
  BY ZenonT(30) DEF BatchInv, BatchGood, Deliveries
<1>2. held[w][d].msg \in DOMAIN stream /\ held[w][d].fate \in Fates
  BY ZenonT(30), <1>1 DEF Owed
<1> QED
  BY ZenonT(30), <1>1, <1>2 DEF Of

\* The steps that are done with a delivery without a change anywhere else.
LEMMA DoneKept ==
    ASSUME SharedInv, BatchInv, NEW w \in Workers, NEW d \in Deliveries(w),
           \/ BatchNak(w, d) \/ BatchPreparationFails(w, d)
           \/ BatchHandoffCancelled(w, d) \/ BatchConfirmFails(w, d)
    PROVE  Sound /\ BatchInv'
<1>1. UNCHANGED <<store, broker>> /\ phase' = phase
  BY ZenonT(30) DEF BatchNak, BatchPreparationFails, BatchHandoffCancelled, BatchConfirmFails, shared
<1>2. phase[w] = "settle" /\ Settle(w, d, "done") /\ "done" \in Steps
  BY ZenonT(30) DEF BatchNak, BatchPreparationFails, BatchHandoffCancelled, BatchConfirmFails, Turn,
     TurnsOver, Steps
<1>3. Sound
  BY <1>1, QuietSound
<1> QED
  BY ZenonT(30), <1>1, <1>2, <1>3, SettledOne

\* A delivery is acknowledged only when its content has won.
LEMMA BatchAckKept ==
    ASSUME SharedInv, BatchInv, NEW w \in Workers, NEW d \in Deliveries(w), BatchAck(w, d)
    PROVE  Sound /\ BatchInv'
<1>1. /\ phase[w] = "settle" /\ phase' = phase /\ Settle(w, d, "done") /\ "done" \in Steps
      /\ held[w][d].step = "ack" /\ UNCHANGED <<store, stream, dlq, setup>>
  BY DEF BatchAck, In, Steps
<1>2. PICK i \in DOMAIN stream : i = held[w][d].msg /\ Won(stream[i])
  BY ZenonT(30), <1>1, BatchOwed DEF Owed
<1>3. acked' \in {acked, acked \cup {i}}
  BY ZenonT(30), <1>2 DEF BatchAck, Acknowledge
<1>4. Sound
  BY ZenonT(30), <1>1, <1>2, <1>3, AckSound
<1> QED
  BY ZenonT(30), <1>1, <1>4, SettledOne

\* A delivery's record is stored, whether or not the answer arrives.
LEMMA BatchPublishKept ==
    ASSUME SharedInv, BatchInv, NEW w \in Workers, NEW d \in Deliveries(w),
           BatchPublishRecord(w, d) \/ BatchPublishUnknown(w, d)
    PROVE  Sound /\ BatchInv'
<1>1. /\ phase[w] = "settle" /\ phase' = phase /\ "ack_record" \in Steps
      /\ held[w][d].step = "publish" /\ StoreRecord(Of(held[w][d]), held[w][d].fate)
      /\ UNCHANGED <<store, stream, acked, setup>>
  BY ZenonT(30) DEF BatchPublishRecord, BatchPublishUnknown, batchWorker, Turn, Steps
<1>2. PICK i \in DOMAIN stream, reason \in Fates :
          /\ i = held[w][d].msg /\ reason = held[w][d].fate /\ stream[i] = Of(held[w][d])
          /\ Owed(i, "publish", reason)
  BY ZenonT(30), <1>1, BatchOwed
<1>3. (reason \in HandlerFates => Dead(stream[i])) /\ StoreRecord(stream[i], reason)
  BY ZenonT(30), <1>1, <1>2 DEF Owed
<1>4. Sound /\ Recorded(stream[i])'
  BY ZenonT(30), <1>1, <1>3, RecordSound
<1>5. CASE BatchPublishUnknown(w, d)
  <2>1. UNCHANGED <<phase, held>>
    BY ZenonT(30), <1>5 DEF BatchPublishUnknown, batchWorker
  <2> QED
    BY ZenonT(30), <1>4, <2>1, BatchesKept
<1>6. CASE BatchPublishRecord(w, d)
  <2>1. Settle(w, d, "ack_record")
    BY ZenonT(30), <1>6 DEF BatchPublishRecord
  <2>2. Owed(i, "publish", reason)'
    BY ZenonT(30), <1>2, <1>4, OwedKept DEF SharedInv, Sound
  <2>3. Owed(i, "ack_record", reason)'
    BY ZenonT(30), <1>4, <2>2 DEF Owed
  <2> QED
    BY ZenonT(30), <1>1, <1>2, <1>4, <2>1, <2>3, SettledOne
<1> QED
  BY <1>5, <1>6

\* A dead letter is acknowledged only when its record is stored.
LEMMA BatchAckRecordKept ==
    ASSUME SharedInv, BatchInv, NEW w \in Workers, NEW d \in Deliveries(w),
           BatchAckRecord(w, d) \/ BatchAckUnknown(w, d)
    PROVE  Sound /\ BatchInv'
<1>1. /\ phase[w] = "settle" /\ phase' = phase /\ {"done", "confirm"} \subseteq Steps
      /\ held[w][d].step = "ack_record" /\ acked' = acked \cup {held[w][d].msg}
      /\ UNCHANGED <<store, stream, dlq, setup>>
  BY ZenonT(30) DEF BatchAckRecord, BatchAckUnknown, batchWorker, Turn, Steps
<1>2. PICK i \in DOMAIN stream, reason \in Fates :
          i = held[w][d].msg /\ reason = held[w][d].fate /\ Owed(i, "ack_record", reason)
  BY ZenonT(30), <1>1, BatchOwed
<1>3. acked' \in {acked, acked \cup {i}} /\ i \in acked' /\ Recorded(stream[i])
  BY ZenonT(30), <1>1, <1>2 DEF Owed
<1>4. Sound
  BY ZenonT(30), <1>1, <1>3, AckSound
<1>5. CASE BatchAckUnknown(w, d)
  <2>1. UNCHANGED <<phase, held>>
    BY ZenonT(30), <1>5 DEF BatchAckUnknown, batchWorker
  <2> QED
    BY ZenonT(30), <1>4, <2>1, BatchesKept
<1>6. CASE BatchAckRecord(w, d)
  <2>1. PICK step \in {"done", "confirm"} :
           Settle(w, d, step) /\ (step = "confirm" => reason \in HandlerFates)
    BY ZenonT(30), <1>2, <1>6 DEF BatchAckRecord
  <2>2. Owed(i, "ack_record", reason)'
    BY ZenonT(30), <1>2, <1>4, OwedKept DEF SharedInv, Sound
  <2>3. step \in Steps /\ (step # "done" => Owed(i, step, reason)')
    BY ZenonT(30), <1>1, <1>3, <2>1, <2>2 DEF Owed
  <2> QED
    BY ZenonT(30), <1>1, <1>2, <1>4, <2>1, <2>3, SettledOne
<1> QED
  BY <1>5, <1>6

\* A hand-off is confirmed for an acknowledged, recorded message.
LEMMA BatchConfirmKept ==
    ASSUME SharedInv, BatchInv, NEW w \in Workers, NEW d \in Deliveries(w), NEW now \in Times,
           BatchConfirm(w, d, now)
    PROVE  Sound /\ BatchInv'
<1>1. /\ phase[w] = "settle" /\ phase' = phase /\ Settle(w, d, "done") /\ "done" \in Steps
      /\ held[w][d].step = "confirm" /\ UNCHANGED <<won, broker>>
  BY ZenonT(30) DEF BatchConfirm, TurnsOver, In, Steps
<1>2. PICK i \in DOMAIN stream, reason \in Fates :
          /\ i = held[w][d].msg /\ reason = held[w][d].fate /\ stream[i] = Of(held[w][d])
          /\ Owed(i, "confirm", reason)
  BY ZenonT(30), <1>1, BatchOwed
<1>3. /\ i \in acked /\ Recorded(stream[i])
      /\ ConfirmTerminalHandoff(stream[i].key, stream[i].fp, stream[i].gen, now)
  BY ZenonT(30), <1>2 DEF Owed, BatchConfirm
<1>4. Sound
  BY ZenonT(30), <1>1, <1>3, ConfirmSound
<1> QED
  BY ZenonT(30), <1>1, <1>4, SettledOne

\* A crash loses the batches in memory and nothing else.
LEMMA BatchCrashKept ==
    ASSUME SharedInv, BatchInv, BatchCrash \/ BatchRestart
    PROVE  Sound /\ BatchInv'
<1>1. UNCHANGED <<store, broker>>
  BY DEF BatchCrash, BatchRestart
<1>2. Sound
  BY <1>1, QuietSound
<1>3. CASE BatchCrash
  <2>1. /\ phase' \in [Workers -> Phases] /\ held' \in [Workers -> Seq(Item)]
        /\ \A w \in Workers : phase'[w] = "idle" /\ held'[w] = <<>>
    BY <1>3 DEF BatchCrash, Phases
  <2>2. DOMAIN <<>> = {}
    OBVIOUS
  <2>3. BatchGood("idle", <<>>)'
    BY ZenonT(30), <2>2 DEF BatchGood
  <2>4. \A w \in Workers : BatchGood(phase[w], held[w])'
    BY ZenonT(30), <2>1, <2>3, GoodAt
  <2> QED
    BY ZenonT(30), <1>2, <2>1, <2>4 DEF BatchInv
<1>4. CASE BatchRestart
  <2>1. UNCHANGED <<phase, held>>
    BY <1>4 DEF BatchRestart, batchWorker
  <2> QED
    BY ZenonT(30), <1>2, <2>1, BatchesKept
<1> QED
  BY <1>3, <1>4
=============================================================================
