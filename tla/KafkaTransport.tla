---------------------------- MODULE KafkaTransport ----------------------------
(***************************************************************************)
(* The shared Kafka producer: its life cycle, and the calls of the routes  *)
(* that publish through it, one message or a batch, each in a transaction  *)
(* of its own behind one gate.                                             *)
(***************************************************************************)
EXTENDS Publication

CONSTANTS
    Stoppers,                    \* concurrent calls of Shutdown
    Nobody

ASSUME FleetsAssumption ==
    /\ Fleets \subseteq [via : {"kafka", "nats"}, callers : SUBSET Callers, stoppers : SUBSET Stoppers,
                       msgs : SUBSET Msgs]
    /\ Nobody \notin Callers

VARIABLES
    tstate, trun,                \* Transport.state, progress of Run
    drained, done,               \* the closed channels
    gate, txActive,
    client,                      \* "open" or "closed"
    stop,                        \* each Shutdown
    forced                       \* a Shutdown gave up waiting (history)

life == <<tstate, trun, drained, done>>
transaction == <<gate, txActive, client, topic>>
transport == <<life, gate, txActive, client, stop, forced>>

TransportInit ==
    /\ tstate = "new" /\ trun = "none"
    /\ drained = FALSE /\ done = FALSE
    /\ gate = Nobody /\ txActive = FALSE /\ client = "open"
    /\ stop = [s \in Stoppers |-> "idle"]
    /\ forced = FALSE

-----------------------------------------------------------------------------
(* The life cycle.                                                         *)

\* Run, up to the startup check: a transport that is drained before it runs is
\* closed at once, and one that runs or is closed refuses.
Run ==
    /\ trun = "none"
    /\ \/ tstate = "new" /\ tstate' = "starting" /\ trun' = "startup" /\ UNCHANGED done
       \/ tstate = "draining" /\ tstate' = "closed" /\ trun' = "returned" /\ done' = TRUE
       \/ tstate = "closed" /\ trun' = "refused" /\ UNCHANGED <<tstate, done>>
    /\ UNCHANGED <<drained, transaction, call, stop, times, forced, mishaps>>

\* checkTransactionalStartup answers.
Startup(ok) ==
    /\ trun = "startup"
    /\ IF ok THEN /\ tstate' = IF tstate = "starting" THEN "running" ELSE tstate
                  /\ trun' = "serve" /\ UNCHANGED done
             ELSE tstate' = "closed" /\ trun' = "returned" /\ done' = TRUE
    /\ ok => client = "open"
    /\ UNCHANGED <<drained, transaction, call, stop, times, forced, mishaps>>

\* Run ends when its context does, or with the drain.
RunReturns(cancelled) ==
    /\ trun = "serve" /\ (cancelled \/ drained)
    /\ tstate' = "closed" /\ trun' = "returned" /\ done' = TRUE
    /\ UNCHANGED <<drained, transaction, call, stop, times, forced, mishaps>>

Draining == IF tstate \in {"new", "starting", "running"} THEN "draining" ELSE tstate

BeginDrain ==
    /\ ~drained
    /\ tstate' = Draining /\ drained' = TRUE
    /\ UNCHANGED <<trun, done, transaction, call, stop, times, forced, mishaps>>

\* Shutdown, up to its first wait.
Shutdown(s) ==
    LET started == trun \notin {"none", "refused"}
    IN  /\ stop[s] = "idle"
        /\ tstate' = IF started THEN Draining ELSE "closed"
        /\ drained' = TRUE
        /\ done' = (done \/ ~started)
        /\ stop' = [stop EXCEPT ![s] = IF started THEN "wait_run" ELSE "wait_tx"]
        /\ UNCHANGED <<trun, transaction, call, times, forced, mishaps>>

ShutdownSeesRun(s) ==
    /\ stop[s] = "wait_run" /\ done
    /\ stop' = [stop EXCEPT ![s] = "wait_tx"]
    /\ UNCHANGED <<life, transaction, call, times, forced, mishaps>>

\* Variant: Shutdown does not wait for the transaction of a route.
ShutdownHurries(s) ==
    /\ stop[s] = "wait_tx"
    /\ stop' = [stop EXCEPT ![s] = "ok"]
    /\ client' = "closed"
    /\ UNCHANGED <<life, gate, txActive, topic, call, times, forced, mishaps>>

\* waitForTransactions returns, and the client is closed.
ShutdownCloses(s) ==
    /\ stop[s] = "wait_tx" /\ ~txActive
    /\ stop' = [stop EXCEPT ![s] = "ok"]
    /\ client' = "closed"
    /\ UNCHANGED <<life, gate, txActive, topic, call, times, forced, mishaps>>

\* The context of Shutdown ends: the client is closed under whatever runs.
ShutdownExpires(s) ==
    /\ stop[s] \in {"wait_run", "wait_tx"}
    /\ stop' = [stop EXCEPT ![s] = "expired"]
    /\ client' = "closed" /\ forced' = TRUE
    /\ UNCHANGED <<life, gate, txActive, topic, call, times, mishaps>>

-----------------------------------------------------------------------------
(* A call.                                                                 *)

\* How a failure of the transport is reported: a batch asks to be tried again.
Failure(c) == IF call[c].batch THEN "later" ELSE "error"

EnsureRunning == tstate = "running"

\* A single message is refused first of all when the transport does not run; a
\* batch is refused only if one of its messages is left to publish.
Publish(c) ==
    LET checked == [i \in DOMAIN call[c].items |-> Timed(call[c].items[i])]
        refuse(a) == IF a = "" \/ ~call[c].batch THEN Failure(c) ELSE a
    IN  /\ call[c].pc = "call"
        /\ call' = [call EXCEPT
              ![c].ans = [i \in DOMAIN checked |-> IF EnsureRunning THEN checked[i] ELSE refuse(checked[i])],
              ![c].pc = IF EnsureRunning /\ \E i \in DOMAIN checked : checked[i] = "" THEN "gate" ELSE "answered"]
        /\ UNCHANGED <<life, transaction, stop, times, forced, mishaps>>

\* acquireTransaction: the gate, or the end of the caller's context.
TakeGate(c) ==
    /\ call[c].pc = "gate" /\ gate = Nobody
    /\ gate' = c
    /\ Goto(c, "admit")
    /\ UNCHANGED <<life, txActive, client, topic, stop, times, forced, mishaps>>

GateCancelled(c) ==
    /\ call[c].pc \in {"gate", "admit"}
    /\ Mishap
    /\ gate' = IF gate = c THEN Nobody ELSE gate
    /\ Answer(c, Failure(c), "answered")
    /\ UNCHANGED <<life, txActive, client, topic, stop, times, forced>>

\* Under the gate the state decides; a call that is not admitted gives it back.
Admit(c) ==
    /\ call[c].pc = "admit"
    /\ IF tstate = "running"
       THEN txActive' = TRUE /\ Goto(c, "begin") /\ UNCHANGED gate
       ELSE Answer(c, Failure(c), "answered") /\ gate' = Nobody /\ UNCHANGED txActive
    /\ UNCHANGED <<life, client, topic, stop, times, forced, mishaps>>

\* The expiry is checked again, and a transaction begun for what is left.
Begin(c) ==
    LET ans == [i \in DOMAIN call[c].ans |->
                  IF call[c].ans[i] = "" /\ call[c].items[i] \in expired THEN "permanent" ELSE call[c].ans[i]]
        left == \E i \in DOMAIN ans : ans[i] = ""
    IN  /\ call[c].pc = "begin"
        /\ left => client = "open"
        /\ call' = [call EXCEPT ![c].ans = ans, ![c].pc = IF left THEN "produce" ELSE "release"]
        /\ UNCHANGED <<life, transaction, stop, times, forced, mishaps>>

Produce(c) ==
    /\ call[c].pc = "produce" /\ client = "open"
    /\ Goto(c, "commit")
    /\ UNCHANGED <<life, transaction, stop, times, forced, mishaps>>

Commit(c) ==
    /\ call[c].pc = "commit" /\ client = "open"
    /\ topic' = topic \cup Pending(c)
    /\ Answer(c, "ok", "release")
    /\ UNCHANGED <<life, gate, txActive, client, stop, times, forced, mishaps>>

\* A call to the broker fails and the transaction is aborted; a commit whose
\* answer is lost may have happened.
BrokerFails(c, landed) ==
    /\ call[c].pc \in {"begin", "produce", "commit"}
    /\ landed => call[c].pc = "commit" /\ client = "open"
    /\ IF client = "closed" THEN UNCHANGED mishaps ELSE Mishap
    /\ topic' = IF landed THEN topic \cup Pending(c) ELSE topic
    /\ Answer(c, Failure(c), "release")
    /\ UNCHANGED <<life, gate, txActive, client, stop, times, forced>>

Release(c) ==
    /\ call[c].pc = "release"
    /\ txActive' = FALSE /\ gate' = Nobody
    /\ Goto(c, "answered")
    /\ UNCHANGED <<life, client, topic, stop, times, forced, mishaps>>

CallStep(c) ==
    \/ Publish(c) \/ TakeGate(c) \/ Admit(c) \/ Begin(c) \/ Produce(c) \/ Commit(c) \/ Release(c)

TransportNext ==
    /\ \/ Run \/ BeginDrain
       \/ \E b \in BOOLEAN : Startup(b) \/ RunReturns(b)
       \/ \E s \in fleet.stoppers : Shutdown(s) \/ ShutdownSeesRun(s) \/ ShutdownCloses(s) \/ ShutdownExpires(s)
       \/ \E c \in fleet.callers :
             \/ CallStep(c) \/ GateCancelled(c)
             \/ \E landed \in BOOLEAN : BrokerFails(c, landed)
    /\ UNCHANGED fleet

-----------------------------------------------------------------------------
(* Properties.                                                             *)

InTransaction(c) == call[c].pc \in {"begin", "produce", "commit", "release"}

\* A transaction has one owner from its admission to its release: the gate is
\* never left taken by a call that was refused or answered, txActive is what
\* waitForTransactions may trust, and a Shutdown closes the broker client under a
\* transaction only when its own context ended, whatever the order of the drain,
\* Run's return and the admission.
TransactionIsOwned ==
    /\ gate # Nobody => InTransaction(gate) \/ call[gate].pc = "admit"
    /\ \A c \in Callers : InTransaction(c) => gate = c /\ txActive
    /\ txActive => \E c \in Callers : InTransaction(c)
    /\ client = "closed" /\ ~forced => ~txActive
=============================================================================
