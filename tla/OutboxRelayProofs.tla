--------------------------- MODULE OutboxRelayProofs ---------------------------
(***************************************************************************)
(* TransactionIsOwned for any number of relay workers, Shutdown calls and  *)
(* messages.                                                               *)
(*                                                                         *)
(* The invariant adds to it that only the holder of the gate is between    *)
(* its admission and its release, and that no Shutdown was called, nor the *)
(* client closed, in a state from which a call can still be admitted.      *)
(***************************************************************************)
EXTENDS OutboxRelay, TLAPS

\* A leaf goes to the SMT solver unless it names another prover.
USE SMTT(30)

Inside  == {"begin", "produce", "commit", "release"}
Holding == Inside \cup {"admit"}
Stopping == tstate \in {"draining", "closed"}

\* The calls are records with a label.
Shape ==
    /\ call = [c \in Callers |-> call[c]]
    /\ \A c \in Callers : call[c] = [x \in DOMAIN call[c] |-> call[c][x]] /\ {"pc", "ans"} \subseteq DOMAIN call[c]

Owned ==
    /\ gate \in Callers \cup {Nobody}
    /\ txActive \in BOOLEAN
    /\ \A c \in Callers : call[c].pc \in Holding <=> gate = c
    /\ \A c \in Callers : call[c].pc \in Inside => txActive = TRUE
    /\ txActive = TRUE => gate \in Callers /\ call[gate].pc \in Inside

Closing ==
    /\ tstate \in {"new", "starting", "running", "draining", "closed"}
    /\ forced \in BOOLEAN
    /\ stop = [s \in Stoppers |-> stop[s]]
    /\ client = "closed" => Stopping
    /\ \A s \in Stoppers : stop[s] # "idle" => Stopping
    /\ client = "closed" /\ forced = FALSE => txActive = FALSE

IInv == fleet \in Fleets /\ Shape /\ Owned /\ Closing

\* One call goes on at another label and the others stay where they are.
Moves(c, label) ==
    /\ Shape'
    /\ call'[c].pc = label
    /\ \A d \in Callers : d # c => call'[d].pc = call[d].pc

-----------------------------------------------------------------------------
\* Goto moves one call.
LEMMA GotoMoves ==
    ASSUME Shape, NEW c \in Callers, NEW label, Goto(c, label)
    PROVE  Moves(c, label)
  BY DEF Shape, Goto, Moves

\* Answer moves one call.
LEMMA AnswerMoves ==
    ASSUME Shape, NEW c \in Callers, NEW a, NEW label, Answer(c, a, label)
    PROVE  Moves(c, label)
  BY ZenonT(30) DEF Shape, Answer, Moves

\* A step of a call that does not hold the gate, to a label outside of it,
\* changes nothing of the ownership.
LEMMA OutsideKept ==
    ASSUME IInv, NEW c \in Callers, call[c].pc \notin Holding, NEW label,
    label \notin Holding,
           Moves(c, label), UNCHANGED <<fleet, transport>>
    PROVE  IInv'
  <1>1. Shape' BY DEF Moves
  <1>2. Owned' BY DEF Moves, IInv, Owned, transport, Inside, Holding
  <1>3. Closing' BY DEF IInv, Closing, Stopping, transport, life
  <1> QED BY <1>1, <1>2, <1>3 DEF IInv, transport

\* A step of a call that holds the gate goes on holding it inside the transaction.
LEMMA InsideKept ==
    ASSUME IInv, NEW c \in Callers, call[c].pc \in Inside, NEW label, label \in Inside,
           Moves(c, label), UNCHANGED <<fleet, transport>>
    PROVE  IInv'
  <1>1. Shape' BY DEF Moves
  <1>2. Owned' BY DEF Moves, IInv, Owned, transport, Inside, Holding
  <1>3. Closing' BY DEF IInv, Closing, Stopping, transport, life
  <1> QED BY <1>1, <1>2, <1>3 DEF IInv, transport

\* What leaves the calls, the gate and the transaction alone keeps their part.
LEMMA CallsKept ==
    ASSUME IInv, UNCHANGED <<fleet, call, gate, txActive>>
    PROVE  fleet' \in Fleets /\ Shape' /\ Owned'
  <1>1. Shape' BY DEF IInv, Shape
  <1>2. Owned' BY DEF IInv, Owned
  <1> QED BY <1>1, <1>2 DEF IInv

-----------------------------------------------------------------------------
(* The life cycle.                                                         *)

\* Run, its startup check and its return.
LEMMA RunKeeps ==
    ASSUME IInv, UNCHANGED fleet, Run \/ \E b \in BOOLEAN : Startup(b) \/ RunReturns(b)
    PROVE  IInv'
  <1>1. UNCHANGED <<fleet, call, gate, txActive, client, stop, forced>>
    BY DEF Run, Startup, RunReturns, transaction
  <1>2. tstate' \in {"new", "starting", "running", "draining", "closed"} /\ (Stopping => Stopping')
    BY DEF IInv, Closing, Run, Startup, RunReturns, Stopping
  <1>3. Closing' BY <1>1, <1>2 DEF IInv, Closing
  <1> QED BY <1>1, <1>3, CallsKept DEF IInv

\* BeginDrain and the calls of Shutdown.
LEMMA ShutdownKeeps ==
    ASSUME IInv, UNCHANGED fleet,
           \/ BeginDrain
           \/ \E s \in Stoppers : Shutdown(s) \/ ShutdownSeesRun(s) \/ ShutdownCloses(s) \/ ShutdownExpires(s)
    PROVE  IInv'
  <1>1. CASE BeginDrain
    <2>1. UNCHANGED <<fleet, call, gate, txActive, client, stop, forced>>
          BY <1>1 DEF BeginDrain, transaction
    <2>2. Closing' BY <1>1, <2>1 DEF IInv, Closing, BeginDrain, Draining, Stopping
    <2> QED BY <2>1, <2>2, CallsKept DEF IInv
  <1>2. ASSUME NEW s \in Stoppers, Shutdown(s) PROVE IInv'
    <2>1. UNCHANGED <<fleet, call, gate, txActive, client, forced>>
          BY <1>2 DEF Shutdown, transaction
    <2>2. Stopping' BY <1>2 DEF IInv, Closing, Shutdown, Draining, Stopping
    <2>3. tstate' \in {"new", "starting", "running", "draining", "closed"}
          BY <2>2 DEF Stopping
    <2>4. stop' = [t \in Stoppers |-> stop'[t]] BY <1>2 DEF IInv, Closing, Shutdown
    <2>5. Closing' BY <2>1, <2>2, <2>3, <2>4 DEF IInv, Closing
    <2> QED BY <2>1, <2>5, CallsKept DEF IInv
  <1>3. ASSUME NEW s \in Stoppers, ShutdownSeesRun(s) PROVE IInv'
    <2>1. UNCHANGED <<fleet, call, gate, txActive, client, forced, tstate>>
          BY <1>3 DEF ShutdownSeesRun, transaction, life
    <2>2. Closing' BY <1>3, <2>1 DEF IInv, Closing, ShutdownSeesRun, Stopping
    <2> QED BY <2>1, <2>2, CallsKept DEF IInv
  <1>4. ASSUME NEW s \in Stoppers, ShutdownCloses(s) PROVE IInv'
    <2>1. UNCHANGED <<fleet, call, gate, txActive, forced, tstate>>
          BY <1>4 DEF ShutdownCloses, life
    <2>2. txActive = FALSE BY <1>4 DEF ShutdownCloses, IInv, Owned
    <2>3. Closing' BY <1>4, <2>1, <2>2 DEF IInv, Closing, ShutdownCloses, Stopping
    <2> QED BY <2>1, <2>3, CallsKept DEF IInv
  <1>5. ASSUME NEW s \in Stoppers, ShutdownExpires(s) PROVE IInv'
    <2>1. UNCHANGED <<fleet, call, gate, txActive, tstate>> BY <1>5 DEF ShutdownExpires, life
    <2>2. Closing' BY <1>5, <2>1 DEF IInv, Closing, ShutdownExpires, Stopping
    <2> QED BY <2>1, <2>2, CallsKept DEF IInv
  <1> QED BY <1>1, <1>2, <1>3, <1>4, <1>5

-----------------------------------------------------------------------------
(* The calls of a Kafka route.                                             *)

\* acquireTransaction, the steps of the transaction, and its release.
LEMMA CallKeeps ==
    ASSUME IInv, UNCHANGED fleet, NEW c \in Callers,
           CallStep(c) \/ GateCancelled(c) \/ \E landed \in BOOLEAN : BrokerFails(c, landed)
    PROVE  IInv'
  <1> USE DEF IInv
  <1>1. CASE Publish(c)
    <2>1. PICK label \in {"gate", "answered"} : Moves(c, label)
          BY ZenonT(30), <1>1 DEF Publish, Shape, Moves
    <2>2. UNCHANGED <<fleet, transport>> /\ call[c].pc \notin Holding
      BY ZenonT(30), <1>1 DEF Publish, transport, transaction, Holding, Inside
    <2> QED BY <2>1, <2>2, OutsideKept DEF Holding, Inside
  <1>2. CASE TakeGate(c)
    <2>1. Moves(c, "admit") BY <1>2, GotoMoves DEF TakeGate
    <2>2. Owned' BY <1>2, <2>1, FleetsAssumption DEF TakeGate, Moves, Owned, Inside, Holding
    <2>3. Closing' BY <1>2 DEF TakeGate, Closing, Stopping, life
    <2> QED BY <2>1, <2>2, <2>3 DEF Moves
  <1>3. CASE Admit(c)
    <2>1. CASE tstate = "running"
      <3>1. Moves(c, "begin") BY <1>3, <2>1, GotoMoves DEF Admit
      <3>2. Owned' BY <1>3, <2>1, <3>1 DEF Admit, Moves, Owned, Inside, Holding
      <3>3. Closing' BY <1>3, <2>1 DEF Admit, Closing, Stopping, life
      <3> QED BY <3>1, <3>2, <3>3 DEF Moves
    <2>2. CASE tstate # "running"
      <3>1. Moves(c, "answered") BY <1>3, <2>2, AnswerMoves DEF Admit
      <3>2. Owned'
            BY <1>3, <2>2, <3>1, FleetsAssumption DEF Admit, Moves, Owned, Inside, Holding
      <3>3. Closing' BY <1>3, <2>2 DEF Admit, Closing, Stopping, life
      <3> QED BY <3>1, <3>2, <3>3 DEF Moves
    <2> QED BY <2>1, <2>2
  <1>4. CASE Begin(c)
    <2>1. PICK label \in {"produce", "release"} : Moves(c, label)
          BY ZenonT(30), <1>4 DEF Begin, Shape, Moves
    <2>2. UNCHANGED <<fleet, transport>> /\ call[c].pc \in Inside
      BY ZenonT(30), <1>4 DEF Begin, transport, transaction, Inside
    <2> QED BY <2>1, <2>2, InsideKept DEF Inside
  <1>5. CASE Produce(c)
    <2>1. Moves(c, "commit") BY <1>5, GotoMoves DEF Produce
    <2>2. UNCHANGED <<fleet, transport>> /\ call[c].pc \in Inside
      BY <1>5 DEF Produce, transport, transaction, Inside
    <2> QED BY <2>1, <2>2, InsideKept DEF Inside
  <1>6. CASE Commit(c)
    <2>1. Moves(c, "release") BY <1>6, AnswerMoves DEF Commit
    <2>2. UNCHANGED <<fleet, transport>> /\ call[c].pc \in Inside
          BY <1>6 DEF Commit, transport, Inside
    <2> QED BY <2>1, <2>2, InsideKept DEF Inside
  <1>7. CASE Release(c)
    <2>1. Moves(c, "answered") BY <1>7, GotoMoves DEF Release
    <2>2. Owned'
          BY ZenonT(30), <1>7, <2>1, FleetsAssumption DEF Release, Moves, Owned, Inside,
              Holding
    <2>3. Closing' BY <1>7 DEF Release, Closing, Stopping, life
    <2> QED BY <2>1, <2>2, <2>3 DEF Moves
  <1>8. CASE GateCancelled(c)
    <2>1. Moves(c, "answered") BY <1>8, AnswerMoves DEF GateCancelled
    <2>2. Owned'
          BY <1>8, <2>1, FleetsAssumption DEF GateCancelled, Moves, Owned, Inside, Holding
    <2>3. Closing' BY <1>8 DEF GateCancelled, Closing, Stopping, life
    <2> QED BY <2>1, <2>2, <2>3 DEF Moves
  <1>9. ASSUME NEW landed \in BOOLEAN, BrokerFails(c, landed) PROVE IInv'
    <2>1. Moves(c, "release") BY <1>9, AnswerMoves DEF BrokerFails
    <2>2. UNCHANGED <<fleet, transport>> /\ call[c].pc \in Inside
          BY <1>9 DEF BrokerFails, transport, Inside
    <2> QED BY <2>1, <2>2, InsideKept DEF Inside
  <1> QED BY <1>1, <1>2, <1>3, <1>4, <1>5, <1>6, <1>7, <1>8, <1>9 DEF CallStep

\* Every step of the Kafka transport.
LEMMA TransportKeeps ==
    ASSUME IInv, TransportNext
    PROVE  IInv'
  <1>1. fleet.callers \subseteq Callers /\ fleet.stoppers \subseteq Stoppers
        BY FleetsAssumption DEF IInv
  <1> QED BY <1>1, RunKeeps, ShutdownKeeps, CallKeeps DEF TransportNext

-----------------------------------------------------------------------------
(* The calls of a NATS route, and the relay.                               *)

\* A NATS route has no gate: its calls never come to a label of the transaction.
LEMMA NatsKeeps ==
    ASSUME IInv, NatsNext, UNCHANGED transport
    PROVE  IInv'
  <1> DEFINE Labels == {"publish", "create", "enqueue", "await", "answered"}
  <1>1. fleet.callers \subseteq Callers BY FleetsAssumption DEF IInv
  <1>2. ASSUME NEW c \in Callers, NEW label \in Labels, Moves(c, label), UNCHANGED fleet,
               call[c].pc \in Labels \cup {"call"}
        PROVE  IInv'
    BY <1>2, OutsideKept DEF Holding, Inside
  <1>3. Shape BY DEF IInv
  <1>4. ASSUME NEW c \in Callers, Prepare(c) PROVE IInv'
    <2>1. PICK label \in Labels : Moves(c, label)
          BY ZenonT(30), <1>3, <1>4 DEF Prepare, Shape, Moves
    <2> QED BY ZenonT(30), <1>2, <1>4, <2>1 DEF Prepare
  <1>5. ASSUME NEW c \in Callers, ChunkOver(c) PROVE IInv'
    <2>1. PICK label \in Labels : Moves(c, label) BY <1>3, <1>5, GotoMoves DEF ChunkOver
    <2> QED BY <1>2, <1>5, <2>1 DEF ChunkOver
  <1>6. ASSUME NEW c \in Callers, CallCancelled(c) PROVE IInv'
    <2>1. Moves(c, "answered") BY <1>3, <1>6, AnswerMoves DEF CallCancelled
    <2> QED BY <1>2, <1>6, <2>1 DEF CallCancelled
  <1>7. ASSUME NEW c \in Callers, NEW ok \in BOOLEAN, CreatePublisher(c, ok) PROVE IInv'
    <2>1. CASE ok
      <3>1. Moves(c, "enqueue") BY <1>3, <1>7, <2>1, GotoMoves DEF CreatePublisher
      <3> QED BY <1>2, <1>7, <3>1 DEF CreatePublisher
    <2>2. CASE ~ok
      <3>1. call' = [call EXCEPT ![c].pc = "answered", ![c].ans = [i \in DOMAIN @ |-> "error"]]
        BY <1>7, <2>2 DEF CreatePublisher
      <3>2. Moves(c, "answered") BY ZenonT(30), <1>3, <3>1 DEF Shape, Moves
      <3> QED BY <1>2, <1>7, <3>2 DEF CreatePublisher
    <2> QED BY <2>1, <2>2
  <1>8. ASSUME NEW c \in Callers, NEW ok \in BOOLEAN, Enqueue(c, ok) PROVE IInv'
    <2>1. PICK label \in Labels : Moves(c, label)
          BY ZenonT(30), <1>3, <1>8 DEF Enqueue, Shape, Moves
    <2> QED BY <1>2, <1>8, <2>1 DEF Enqueue
  <1>9. ASSUME NEW c \in Callers, NEW ok \in BOOLEAN, Await(c, ok) PROVE IInv'
    <2>1. Moves(c, "await") BY <1>3, <1>9 DEF Await, Shape, Moves
    <2> QED BY <1>2, <1>9, <2>1 DEF Await
  <1>10. ASSUME NEW c \in Callers, NEW stored \in BOOLEAN, NEW heard \in BOOLEAN, PublishMsg(c, stored, heard)
         PROVE  IInv'
    <2>1. Moves(c, "answered") BY <1>3, <1>10, AnswerMoves DEF PublishMsg
    <2> QED BY <1>2, <1>10, <2>1 DEF PublishMsg
  <1>11. ASSUME NEW m, Arrives(m) \/ Vanishes(m) PROVE IInv'
    <2>1. UNCHANGED <<fleet, call>> BY <1>11 DEF Arrives, Vanishes
    <2>2. Closing' BY DEF IInv, Closing, Stopping, transport, life
    <2> QED BY <2>1, <2>2, CallsKept DEF IInv, transport
  <1> QED BY <1>1, <1>4, <1>5, <1>6, <1>7, <1>8, <1>9, <1>10, <1>11 DEF NatsNext

\* The relay claims for a call that is idle, and takes back one that is answered.
LEMMA RelayKeeps ==
    ASSUME IInv, OutboxStep
    PROVE  IInv'
  <1>1. fleet.callers \subseteq Callers BY FleetsAssumption DEF IInv
  <1>2. UNCHANGED <<fleet, transport>> BY DEF OutboxStep
  <1>3. ASSUME NEW ms, Stage(ms) PROVE IInv'
    <2>1. UNCHANGED call BY <1>3 DEF Stage
    <2>2. Closing' BY <1>2 DEF IInv, Closing, Stopping, transport, life
    <2> QED BY <1>2, <2>1, <2>2, CallsKept DEF IInv, transport
  <1>4. ASSUME NEW c \in Callers, Finished(c) \/ ResultLost(c) PROVE IInv'
    <2>1. Moves(c, "idle") BY <1>4 DEF Finished, ResultLost, Idle, IInv, Shape, Moves
    <2>2. call[c].pc \notin Holding BY <1>4 DEF Finished, ResultLost, Holding, Inside
    <2> QED BY <1>2, <2>1, <2>2, OutsideKept DEF Holding, Inside
  <1>5. ASSUME NEW c \in Callers, NEW items, NEW batch, Claim(c, items, batch) PROVE IInv'
    <2>1. PICK label \in {"call", "answered"} : Moves(c, label)
          BY ZenonT(30), <1>5 DEF Claim, IInv, Shape, Moves
    <2>2. call[c].pc \notin Holding BY ZenonT(30), <1>5 DEF Claim, Holding, Inside
    <2> QED BY <1>2, <2>1, <2>2, OutsideKept DEF Holding, Inside
  <1> QED BY ZenonT(30), <1>1, <1>3, <1>4, <1>5 DEF OutboxStep, Deliver, DeliverBatch

-----------------------------------------------------------------------------
\* IInv is an invariant of the relay over either broker.
LEMMA Invariance == OutboxSpec => []IInv
  <1>1. OutboxInit => IInv
    <2> SUFFICES ASSUME OutboxInit PROVE IInv OBVIOUS
    <2>1. Shape BY DEF OutboxInit, PublicationInit, Idle, Shape
    <2>2. Owned BY ZenonT(30), FleetsAssumption
          DEF OutboxInit, PublicationInit, TransportInit, Idle, Owned, Inside, Holding
    <2>3. Closing BY ZenonT(30) DEF OutboxInit, TransportInit, Closing, Stopping
    <2> QED BY <2>1, <2>2, <2>3 DEF OutboxInit, PublicationInit, IInv
  <1>2. IInv /\ [OutboxNext]_relay => IInv'
    <2> SUFFICES ASSUME IInv, [OutboxNext]_relay PROVE IInv' OBVIOUS
    <2>1. ASSUME UNCHANGED <<fleet, call, transport>> PROVE IInv'
      <3>1. Closing' BY <2>1 DEF IInv, Closing, Stopping, transport, life
      <3> QED BY <2>1, <3>1, CallsKept DEF IInv, transport
    <2>2. CASE OutboxStep BY <2>2, RelayKeeps
    <2>3. CASE TimeGoesBy /\ UNCHANGED transport BY <2>1, <2>3 DEF TimeGoesBy
    <2>4. CASE TransportNext BY <2>4, TransportKeeps
    <2>5. CASE NatsNext /\ UNCHANGED transport BY <2>5, NatsKeeps
    <2>6. CASE UNCHANGED relay BY <2>1, <2>6 DEF relay
    <2> QED BY <2>2, <2>3, <2>4, <2>5, <2>6 DEF OutboxNext
  <1> QED BY <1>1, <1>2, PTL DEF OutboxSpec

\* The transaction of the shared producer has one owner from admission to release,
\* and a Shutdown closes the client under it only when its own context ended, for
\* any number of relay workers and calls of Shutdown.
THEOREM TransactionOwned == OutboxSpec => []TransactionIsOwned
  <1>1. IInv => TransactionIsOwned
    <2> SUFFICES ASSUME IInv PROVE TransactionIsOwned OBVIOUS
    <2>1. gate # Nobody => InTransaction(gate) \/ call[gate].pc = "admit"
      BY DEF IInv, Owned, Holding, Inside, InTransaction
    <2>2. \A c \in Callers : InTransaction(c) => gate = c /\ txActive
      BY DEF IInv, Owned, Holding, Inside, InTransaction
    <2>3. txActive => \E c \in Callers : InTransaction(c)
      BY DEF IInv, Owned, Holding, Inside, InTransaction
    <2>4. client = "closed" /\ ~forced => ~txActive BY DEF IInv, Owned, Closing
    <2> QED BY <2>1, <2>2, <2>3, <2>4 DEF TransactionIsOwned
  <1> QED BY <1>1, Invariance, PTL
=============================================================================
