-------------------------- MODULE ConsumerLifecycle --------------------------
(***************************************************************************)
(* The service life cycle of the durable consumers: Run and its workers,   *)
(* BeginDrain, Shutdown and Readiness, for the single and the batch        *)
(* consumers of Kafka and NATS.  What a worker does with a message is in   *)
(* KafkaConsumer, NatsConsumer and NatsBatch; here it works, and may fail. *)
(***************************************************************************)
EXTENDS Naturals, FiniteSets

CONSTANTS
    Pool,                        \* the workers of the consumer: config.Concurrency of them
    Closers,                     \* concurrent calls of Shutdown
    Flavors,                     \* the consumers checked, of the four below
    MaxRecreations               \* sessions a Kafka batch worker recreates

KafkaFlavors == {"kafka", "kafka_batch"}

ASSUME LifecycleAssumption ==
    /\ Flavors \subseteq KafkaFlavors \cup {"nats", "nats_batch"}
    /\ MaxRecreations \in Nat

VARIABLES
    flavor,
    cstate, runStarted,
    main,                        \* where Run is
    worker,                      \* where each worker is
    cancelled,                   \* the context of Run
    stopped,                     \* the drain channel, the iterator or the admission context
    doneClosed,
    readyWorkers, workersReady,  \* Kafka; workersReady is pullLoopReady in NATS
    backoff, recreations,        \* workers in backoff, sessions recreated
    workerErr,                   \* workerErr, fatalErr or the fatal channel holds an error
    reported,                    \* Kafka: errors the workers put in results; NATS batch: workers started
    runErr,                      \* the error Run will return
    closer,                      \* each Shutdown
    failed,                      \* a worker failed while the context was live (history)
    asked                        \* someone drained or cancelled the consumer (history)

runVars == <<main, worker, cancelled, runErr>>
readyVars == <<readyWorkers, workersReady, backoff, recreations>>
closeVars == <<cstate, runStarted, stopped, doneClosed>>
consumerVars == <<flavor, runVars, readyVars, closeVars, workerErr, reported, closer, failed, asked>>

LifecycleInit ==
    /\ flavor \in Flavors
    /\ cstate = "new" /\ runStarted = FALSE
    /\ main = "none" /\ worker = [w \in Pool |-> "none"]
    /\ cancelled = FALSE /\ stopped = FALSE /\ doneClosed = FALSE
    /\ readyWorkers = {} /\ workersReady = FALSE /\ backoff = {} /\ recreations = 0
    /\ workerErr = FALSE /\ reported = [w \in Pool |-> "none"] /\ runErr = FALSE
    /\ closer = [s \in Closers |-> "idle"]
    /\ failed = FALSE /\ asked = FALSE

Kafka == flavor \in KafkaFlavors
Everyone(label) == [w \in Pool |-> label]

\* markClosed, and the return of Run with this error.
ReturnCall(err) ==
    /\ main' = "returned" /\ runErr' = err
    /\ cstate' = "closed" /\ doneClosed' = TRUE

MainOnly == UNCHANGED <<flavor, worker, cancelled, readyVars, runStarted, stopped, workerErr, reported, closer, failed, asked>>

\* Run, up to the startup checks.
RunConsumer ==
    /\ main = "none"
    /\ \/ /\ cstate = "new"
          /\ cstate' = "running" /\ runStarted' = TRUE /\ main' = "startup"
          /\ UNCHANGED <<runErr, doneClosed>>
       \/ /\ cstate = "draining" /\ ReturnCall(FALSE)
          /\ runStarted' = (runStarted \/ Kafka)
       \/ /\ cstate = "closed" /\ main' = "refused"
          /\ UNCHANGED <<runErr, cstate, doneClosed, runStarted>>
    /\ UNCHANGED <<flavor, worker, cancelled, readyVars, stopped, workerErr, reported, closer, failed, asked>>

\* The context given to Run ends.
CancelRun ==
    /\ main \notin {"none", "refused", "returned"} /\ ~cancelled
    /\ cancelled' = TRUE
    /\ asked' = TRUE
    /\ UNCHANGED <<flavor, main, worker, runErr, readyVars, closeVars, workerErr, reported, closer, failed>>

StartupFails ==
    /\ main = "startup"
    /\ ReturnCall(TRUE)
    /\ MainOnly

-----------------------------------------------------------------------------
(* Kafka.                                                                  *)

SetWorkerReady(w, ready, counts) ==
    /\ readyWorkers' = IF ready THEN readyWorkers \cup {w} ELSE readyWorkers \ {w}
    /\ workersReady' = (cstate = "running" /\ counts = {} /\ readyWorkers' = Pool)

KafkaStarts ==
    /\ Kafka /\ main = "startup"
    /\ main' = "collect" /\ worker' = Everyone("start")
    /\ UNCHANGED <<flavor, cancelled, runErr, readyVars, closeVars, workerErr, reported, closer, failed, asked>>

WorkerAt(w, label) == worker' = [worker EXCEPT ![w] = label]
WorkerOnly == UNCHANGED <<flavor, main, cancelled, runErr, closeVars, closer, asked>>

\* A worker opens its session, and is ready once it has joined the group.
SessionOpens(w) ==
    /\ Kafka /\ worker[w] = "start"
    /\ WorkerAt(w, "session")
    /\ WorkerOnly /\ UNCHANGED <<readyVars, workerErr, reported, failed>>

WorkerJoined(w) ==
    /\ worker[w] = "session" /\ ~cancelled
    /\ WorkerAt(w, "working")
    /\ SetWorkerReady(w, TRUE, backoff)
    /\ WorkerOnly /\ UNCHANGED <<backoff, recreations, workerErr, reported, failed>>

\* The worker stops: drained, cancelled, or failed.  A batch worker whose
\* session failed opens another after a delay.
WorkerStops(w, how) ==
    /\ Kafka /\ worker[w] \in {"start", "session", "working"}
    /\ \/ how = "nil" /\ stopped
       \/ how = "canceled" /\ cancelled
       \/ how = "error"
       \/ how = "recreate" /\ flavor = "kafka_batch" /\ recreations < MaxRecreations
    /\ WorkerAt(w, IF how = "recreate" THEN "broken" ELSE "ending")
    /\ reported' = [reported EXCEPT ![w] = how]
    /\ failed' = (failed \/ (how = "error" /\ ~cancelled))
    /\ WorkerOnly /\ UNCHANGED <<readyVars, workerErr>>

\* Variant: a worker in backoff stays in the map of the ready ones.
BackoffBeginsReady(w) ==
    /\ worker[w] = "broken"
    /\ WorkerAt(w, "backoff")
    /\ backoff' = backoff \cup {w} /\ recreations' = recreations + 1
    /\ workersReady' = FALSE /\ UNCHANGED readyWorkers
    /\ WorkerOnly /\ UNCHANGED <<workerErr, reported, failed>>

\* setKafkaBatchBackoff(true).
BackoffBegins(w) ==
    /\ worker[w] = "broken"
    /\ WorkerAt(w, "backoff")
    /\ backoff' = backoff \cup {w} /\ recreations' = recreations + 1
    /\ readyWorkers' = readyWorkers \ {w} /\ workersReady' = FALSE
    /\ WorkerOnly /\ UNCHANGED <<workerErr, reported, failed>>

\* The delay, the context or the drain ends the backoff.
BackoffEnds(w, how) ==
    /\ worker[w] = "backoff"
    /\ how = "canceled" => cancelled
    /\ how = "nil" => stopped
    /\ WorkerAt(w, IF how = "recreate" THEN "start" ELSE "ending")
    /\ reported' = [reported EXCEPT ![w] = IF how = "recreate" THEN "none" ELSE how]
    /\ backoff' = backoff \ {w}
    /\ workersReady' = (workersReady \/ (backoff' = {} /\ readyWorkers = Pool /\ cstate = "running"))
    /\ WorkerOnly /\ UNCHANGED <<readyWorkers, recreations, workerErr, failed>>

WorkerUnready(w) ==
    /\ worker[w] = "ending"
    /\ WorkerAt(w, "unready")
    /\ SetWorkerReady(w, FALSE, backoff)
    /\ WorkerOnly /\ UNCHANGED <<backoff, recreations, workerErr, reported, failed>>

WorkerReports(w) ==
    /\ worker[w] = "unready"
    /\ WorkerAt(w, "ended")
    /\ workerErr' = (workerErr \/ reported[w] = "error")
    /\ WorkerOnly /\ UNCHANGED <<readyVars, reported, failed>>

\* Run takes one result; the first error cancels the other workers.
CollectResult(w) ==
    /\ main = "collect" /\ Kafka /\ worker[w] = "ended"
    /\ WorkerAt(w, "collected")
    /\ runErr' = (runErr \/ reported[w] = "error")
    /\ cancelled' = (cancelled \/ reported[w] = "error")
    /\ UNCHANGED <<flavor, main, readyVars, closeVars, workerErr, reported, closer, failed, asked>>

\* Variant: Run returns with the first result.
KafkaReturnsEarly ==
    /\ main = "collect" /\ Kafka /\ \E w \in Pool : worker[w] = "collected"
    /\ ReturnCall(runErr)
    /\ MainOnly

KafkaReturns ==
    /\ main = "collect" /\ Kafka /\ worker = Everyone("collected")
    /\ ReturnCall(runErr)
    /\ MainOnly

KafkaReadiness == cstate = "running" /\ ~workerErr /\ workersReady /\ backoff = {}

KafkaBeginDrain ==
    /\ Kafka /\ ~stopped
    /\ cstate' = IF cstate \in {"new", "running"} THEN "draining" ELSE cstate
    /\ stopped' = TRUE
    /\ asked' = TRUE
    /\ UNCHANGED <<flavor, runVars, readyVars, runStarted, doneClosed, workerErr, reported, closer, failed>>

KafkaShutdown(s) ==
    /\ Kafka /\ closer[s] = "idle"
    /\ cstate' = IF ~runStarted THEN "closed" ELSE IF cstate = "running" THEN "draining" ELSE cstate
    /\ stopped' = TRUE
    /\ doneClosed' = (doneClosed \/ ~runStarted)
    /\ closer' = [closer EXCEPT ![s] = IF runStarted THEN "waiting" ELSE "ok"]
    /\ asked' = TRUE
    /\ UNCHANGED <<flavor, runVars, readyVars, runStarted, workerErr, reported, failed>>

\* Shutdown returns when Run has, or cancels it when its own context ends.
ShutdownReturns(s) ==
    /\ closer[s] = "waiting" /\ doneClosed
    /\ closer' = [closer EXCEPT ![s] = "ok"]
    /\ UNCHANGED <<flavor, runVars, readyVars, closeVars, workerErr, reported, failed, asked>>

ShutdownForces(s) ==
    /\ closer[s] = "waiting"
    /\ closer' = [closer EXCEPT ![s] = "expired"]
    /\ cancelled' = TRUE
    /\ asked' = TRUE
    /\ UNCHANGED <<flavor, main, worker, runErr, readyVars, closeVars, workerErr, reported, failed>>

-----------------------------------------------------------------------------
(* NATS, single messages: Run itself pulls, and hands the messages to the  *)
(* workers.                                                                *)

Single == flavor = "nats"

\* The iterator is open: a drain that came first ends Run.
NatsStarts ==
    /\ Single /\ main = "startup"
    /\ IF cstate = "draining"
       THEN ReturnCall(FALSE) /\ UNCHANGED <<worker, stopped>>
       ELSE /\ main' = "ready" /\ worker' = Everyone("idle")
            /\ UNCHANGED <<runErr, cstate, doneClosed, stopped>>
    /\ UNCHANGED <<flavor, cancelled, readyVars, runStarted, workerErr, reported, closer, failed, asked>>

\* markPullLoopReady, for both.
PullLoopReady ==
    /\ main = "ready"
    /\ IF cstate = "running" /\ ~cancelled
       THEN main' = "pull" /\ workersReady' = TRUE /\ UNCHANGED stopped
       ELSE main' = "wait" /\ stopped' = TRUE /\ UNCHANGED workersReady
    /\ UNCHANGED <<flavor, worker, cancelled, runErr, readyWorkers, backoff, recreations, cstate, runStarted, doneClosed, workerErr, reported, closer, failed, asked>>

\* A message for an idle worker.
NatsPulls(w) ==
    /\ Single /\ main = "pull" /\ worker[w] = "idle" /\ ~stopped
    /\ WorkerAt(w, "working")
    /\ UNCHANGED <<flavor, main, cancelled, runErr, readyVars, closeVars, workerErr, reported, closer, failed, asked>>

\* The iterator is stopped, the context ends, or the pull fails for good.
PullLoopEnds(fails) ==
    /\ Single /\ main = "pull" /\ (fails \/ stopped \/ cancelled)
    /\ main' = "wait" /\ workersReady' = FALSE /\ stopped' = TRUE
    /\ runErr' = (fails /\ ~cancelled /\ ~stopped)
    /\ UNCHANGED <<flavor, worker, cancelled, readyWorkers, backoff, recreations, cstate, runStarted, doneClosed, workerErr, reported, closer, failed, asked>>

\* The worker is done with its message; failDLQPreparation stops everything.
MessageDone(w, fatal) ==
    /\ Single /\ worker[w] = "working"
    /\ WorkerAt(w, "idle")
    /\ workerErr' = (workerErr \/ fatal)
    /\ failed' = (failed \/ (fatal /\ ~cancelled))
    /\ workersReady' = (workersReady /\ ~fatal)
    /\ cancelled' = (cancelled \/ fatal)
    /\ stopped' = (stopped \/ fatal)
    /\ UNCHANGED <<flavor, main, runErr, readyWorkers, backoff, recreations, cstate, runStarted, doneClosed, reported, closer, asked>>

\* Variant: Run forgets why it was cancelled.
NatsReturnsClean ==
    /\ Single /\ main = "wait" /\ worker = Everyone("idle")
    /\ ReturnCall(runErr)
    /\ MainOnly

NatsReturns ==
    /\ Single /\ main = "wait" /\ worker = Everyone("idle")
    /\ ReturnCall(runErr \/ workerErr)
    /\ MainOnly

NatsReadiness == cstate = "running" /\ workersReady /\ ~cancelled

\* Variant: the iterator is left running.
NatsDrainsState ==
    /\ ~Kafka /\ cstate \in {"new", "running"}
    /\ cstate' = "draining" /\ workersReady' = FALSE
    /\ asked' = TRUE
    /\ UNCHANGED <<flavor, runVars, stopped, readyWorkers, backoff, recreations, runStarted, doneClosed, workerErr, reported, closer, failed>>

\* beginDrainLocked, and the stop of the iterator if Run has one.
NatsBeginDrain ==
    /\ ~Kafka /\ cstate \in {"new", "running"}
    /\ cstate' = "draining" /\ workersReady' = FALSE
    /\ stopped' = (stopped \/ main \notin {"none", "startup"})
    /\ asked' = TRUE
    /\ UNCHANGED <<flavor, runVars, readyWorkers, backoff, recreations, runStarted, doneClosed, workerErr, reported, closer, failed>>

NatsShutdown(s) ==
    /\ ~Kafka /\ closer[s] = "idle"
    /\ IF runStarted
       THEN /\ cstate' = IF cstate = "running" THEN "draining" ELSE cstate
            /\ stopped' = (stopped \/ main \notin {"none", "startup"})
            /\ workersReady' = FALSE
            /\ closer' = [closer EXCEPT ![s] = "waiting"]
            /\ UNCHANGED doneClosed
       ELSE /\ cstate' = "closed" /\ doneClosed' = TRUE
            /\ closer' = [closer EXCEPT ![s] = "ok"]
            /\ UNCHANGED <<stopped, workersReady>>
    /\ asked' = TRUE
    /\ UNCHANGED <<flavor, runVars, readyWorkers, backoff, recreations, runStarted, workerErr, reported, failed>>

-----------------------------------------------------------------------------
(* NATS, batches: each worker pulls for itself and Run waits.              *)

Batch == flavor = "nats_batch"

NatsBatchStarts ==
    /\ Batch /\ main = "startup"
    /\ main' = "starting" /\ worker' = Everyone("start")
    /\ stopped' = (stopped \/ cstate = "draining")
    /\ UNCHANGED <<flavor, cancelled, runErr, readyVars, cstate, runStarted, doneClosed, workerErr, reported, closer, failed, asked>>

\* A worker reports its first pull.
BatchWorkerReady(w) ==
    /\ Batch /\ worker[w] = "start" /\ ~stopped /\ ~cancelled
    /\ WorkerAt(w, "working")
    /\ reported' = [reported EXCEPT ![w] = "started"]
    /\ UNCHANGED <<flavor, main, cancelled, runErr, readyVars, closeVars, workerErr, closer, failed, asked>>

\* It ends with the admission, or fails: the channel takes the first error, and
\* a Run that already waits for it has it at once.
BatchWorkerEnds(w, fatal) ==
    LET waiting == main = "pull" /\ ~cancelled
    IN  /\ Batch /\ worker[w] \in {"start", "working"} /\ (fatal \/ stopped \/ cancelled)
        /\ fatal /\ worker[w] = "start" => ~stopped /\ ~cancelled
        /\ WorkerAt(w, "ended")
        /\ failed' = (failed \/ (fatal /\ ~cancelled))
        /\ IF fatal /\ waiting
           THEN /\ main' = "wait" /\ runErr' = TRUE /\ cancelled' = TRUE /\ stopped' = TRUE
                /\ UNCHANGED workerErr
           ELSE /\ workerErr' = (workerErr \/ fatal)
                /\ UNCHANGED <<main, runErr, cancelled, stopped>>
        /\ UNCHANGED <<flavor, readyVars, cstate, runStarted, doneClosed, reported, closer, asked>>

\* The loop over started: a worker, an error, or the end of the admission.
AwaitStarted ==
    /\ Batch /\ main = "starting"
    /\ \/ /\ \A w \in Pool : reported[w] = "started"
          /\ main' = "ready"
          /\ UNCHANGED <<runErr, cancelled, stopped, workerErr>>
       \/ /\ workerErr
          /\ main' = "wait" /\ runErr' = TRUE /\ cancelled' = TRUE /\ stopped' = TRUE /\ workerErr' = FALSE
       \/ /\ stopped \/ cancelled
          /\ main' = "wait" /\ stopped' = TRUE
          /\ UNCHANGED <<runErr, cancelled, workerErr>>
    /\ UNCHANGED <<flavor, worker, readyVars, cstate, runStarted, doneClosed, reported, closer, failed, asked>>

\* The last select: whatever is ready when Run comes to it, or comes first.
AwaitEnd ==
    /\ Batch /\ main = "pull"
    /\ \/ /\ workerErr
          /\ runErr' = TRUE /\ cancelled' = TRUE /\ workerErr' = FALSE
       \/ /\ cancelled \/ worker = Everyone("ended")
          /\ UNCHANGED <<runErr, cancelled, workerErr>>
    /\ main' = "wait" /\ stopped' = TRUE
    /\ UNCHANGED <<flavor, worker, readyVars, cstate, runStarted, doneClosed, reported, closer, failed, asked>>

NatsBatchReturns ==
    /\ Batch /\ main = "wait" /\ worker = Everyone("ended")
    /\ ReturnCall(runErr)
    /\ MainOnly

-----------------------------------------------------------------------------
\* What the goroutine of Run does by itself.
MainStep ==
    \/ KafkaStarts \/ KafkaReturns \/ (\E w \in Pool : CollectResult(w))
    \/ NatsStarts \/ PullLoopReady \/ PullLoopEnds(FALSE) \/ NatsReturns
    \/ NatsBatchStarts \/ AwaitStarted \/ AwaitEnd \/ NatsBatchReturns

\* What a worker does by itself: it sees that it is to stop, its delay ends, and
\* its handler returns.
WorkerStep(w) ==
    \/ SessionOpens(w) \/ BackoffBegins(w) \/ WorkerUnready(w) \/ WorkerReports(w)
    \/ WorkerStops(w, "nil") \/ WorkerStops(w, "canceled")
    \/ \E how \in {"nil", "canceled", "recreate"} : BackoffEnds(w, how)
    \/ MessageDone(w, FALSE) \/ BatchWorkerEnds(w, FALSE)

LifecycleNext ==
    \/ RunConsumer \/ CancelRun \/ StartupFails \/ MainStep
    \/ KafkaBeginDrain \/ NatsBeginDrain \/ PullLoopEnds(TRUE)
    \/ \E w \in Pool :
          \/ WorkerStep(w) \/ WorkerJoined(w) \/ NatsPulls(w) \/ BatchWorkerReady(w)
          \/ WorkerStops(w, "error") \/ WorkerStops(w, "recreate")
          \/ MessageDone(w, TRUE) \/ BatchWorkerEnds(w, TRUE)
    \/ \E s \in Closers : KafkaShutdown(s) \/ NatsShutdown(s) \/ ShutdownReturns(s) \/ ShutdownForces(s)

LifecycleSpec == LifecycleInit /\ [][LifecycleNext]_consumerVars

-----------------------------------------------------------------------------
(* Properties.                                                             *)

\* A consumer that reports ready has every worker in a joined session, or one
\* whose session has ended an instant ago and which is about to say so; it is
\* never ready while a session is being recreated, nor because of the answers of
\* sessions that are gone.  A NATS consumer that reports ready pulls, or is about
\* to return, and every worker of a batch consumer has pulled.
ReadyMeansWorking ==
    /\ Kafka /\ KafkaReadiness =>
          main = "collect" /\ \A w \in Pool : worker[w] \in {"working", "broken", "ending"}
    /\ ~Kafka /\ NatsReadiness =>
          main \in {"pull", "wait"} /\ (Batch => \A w \in Pool : reported[w] = "started")

\* Once a Shutdown has returned without an error no worker runs and Run is over
\* or will refuse: what the consumer uses may be closed.
ShutdownIsFinal ==
    (\E s \in Closers : closer[s] = "ok") =>
        /\ main \in {"none", "refused", "returned"}
        /\ \A w \in Pool : worker[w] \in {"none", "collected", "idle", "ended"}
        /\ cstate = "closed"

\* A worker that fails for good while the context is live makes Run return an
\* error, so that the supervisor stops the process instead of taking the end for
\* a drain, whatever drains or cancels meanwhile.  (For NATS batches see below.)
FatalIsReturned == main = "returned" /\ failed /\ flavor # "nats_batch" => runErr

\* The least of it, for every consumer: Run returns the error of a worker that
\* fails for good when nobody has drained or cancelled the consumer.
UndisturbedFatalIsReturned == main = "returned" /\ failed /\ ~asked => runErr

\* A drain or a cancelled context ends Run: no worker waits in a poll, a backoff
\* or a channel for good.
RunEnds ==
    main \notin {"none", "refused", "returned"} /\ (cstate = "draining" \/ cancelled) ~> main = "returned"
=============================================================================
