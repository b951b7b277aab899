--------------------------- MODULE ServicesProofs ---------------------------
(***************************************************************************)
(* The safety properties of the services a host runs: the durable          *)
(* consumers for any number of workers and of concurrent Shutdowns, and    *)
(* the local asynchronous route for any set of concurrent calls.           *)
(***************************************************************************)
EXTENDS LocalAsync, ConsumerLifecycle, TLAPS

\* A leaf goes to the SMT solver unless it names another prover.
USE SMTT(30)

-----------------------------------------------------------------------------
(* The durable consumers.  The invariant says where Run and the workers of *)
(* each consumer can be together, that the state, the flag of Run and the  *)
(* done channel agree, which workers the map of the ready ones may name,   *)
(* and where an error is between the worker that fails and the result of   *)
(* Run.                                                                    *)

Over    == {"none", "refused", "returned"}
Settled == {"none", "collected", "idle", "ended"}

ConsumerShape ==
    /\ flavor \in KafkaFlavors \cup {"nats", "nats_batch"}
    /\ runStarted \in BOOLEAN /\ doneClosed \in BOOLEAN /\ cancelled \in BOOLEAN
    /\ stopped \in BOOLEAN /\ workersReady \in BOOLEAN /\ workerErr \in BOOLEAN
    /\ runErr \in BOOLEAN /\ failed \in BOOLEAN
    /\ worker = [w \in Pool |-> worker[w]]
    /\ reported = [w \in Pool |-> reported[w]]
    /\ closer = [s \in Closers |-> closer[s]]
    /\ readyWorkers \subseteq Pool

\* Where Run can be, for each consumer.
MainInv ==
    /\ flavor \in KafkaFlavors => main \in Over \cup {"startup", "collect"}
    /\ flavor = "nats" => main \in Over \cup {"startup", "ready", "pull", "wait"}
    /\ flavor = "nats_batch" => main \in Over \cup {"startup", "starting", "ready", "pull", "wait"}

\* The workers do not start before Run has checked the broker, nor outlive it.
WorkerInv ==
    /\ main \in {"none", "startup", "refused"} => \A w \in Pool : worker[w] = "none"
    /\ main = "returned" => \A w \in Pool : worker[w] \in Settled
    /\ \A w \in Pool : worker[w] \in {"session", "broken", "backoff", "ending", "unready", "collected"}
                          => flavor \in KafkaFlavors

\* The state, the flag of Run and the done channel.
CloseInv ==
    /\ cstate = "closed" <=> doneClosed = TRUE
    /\ main \in {"refused", "returned"} => cstate = "closed"
    /\ main \notin Over => cstate # "closed" /\ runStarted = TRUE
    /\ cstate = "running" => main \notin Over
    /\ cstate = "new" => main = "none"
    /\ \A s \in Closers : closer[s] = "ok" => doneClosed = TRUE

\* What the readiness rests on.
ReadyInv ==
    /\ workersReady = TRUE => main \notin {"none", "startup", "starting", "ready"}
    /\ flavor \in KafkaFlavors =>
          /\ workersReady = TRUE => readyWorkers = Pool
          /\ \A w \in readyWorkers : worker[w] \in {"working", "broken", "ending"}
    /\ flavor = "nats_batch" /\ (main = "ready" \/ workersReady = TRUE) =>
          \A w \in Pool : reported[w] = "started"

\* Where the error of a worker that failed is.
FailInv ==
    /\ main \in {"none", "startup", "refused"} => failed = FALSE
    /\ main = "none" => runErr = FALSE
    /\ flavor \in KafkaFlavors /\ failed = TRUE =>
          runErr = TRUE \/ \E w \in Pool : reported[w] = "error" /\ worker[w] \in {"ending", "unready", "ended"}
    /\ flavor = "nats" /\ failed = TRUE => workerErr = TRUE
    /\ main = "returned" /\ failed = TRUE /\ flavor # "nats_batch" => runErr = TRUE

ConsumerInv == ConsumerShape /\ MainInv /\ WorkerInv /\ CloseInv /\ ReadyInv /\ FailInv

\* The invariant holds of a new consumer, of whatever kind.
LEMMA ConsumerStart == LifecycleInit => ConsumerInv
BY ZenonT(30), LifecycleAssumption
     DEF LifecycleAssumption, LifecycleInit, ConsumerInv, ConsumerShape, MainInv, WorkerInv,
         CloseInv, ReadyInv, FailInv, Over, KafkaFlavors

\* What the goroutine of Run does, from the startup to its return, preserves it,
\* and so do the cancelled context and BeginDrain.
LEMMA RunKeeps ==
    ASSUME ConsumerInv
    PROVE  RunConsumer \/ CancelRun \/ StartupFails \/ MainStep \/ KafkaBeginDrain \/ NatsBeginDrain
             \/ PullLoopEnds(TRUE) => ConsumerInv'
<1> USE DEF ConsumerInv, ConsumerShape, MainInv, WorkerInv, CloseInv, ReadyInv, FailInv,
Over, Settled,
            Kafka, KafkaFlavors, Single, Batch, Everyone, runVars, readyVars, closeVars
<1>1. RunConsumer => ConsumerInv' BY ZenonT(30) DEF RunConsumer, ReturnCall
<1>2. CancelRun => ConsumerInv' BY DEF CancelRun
<1>3. StartupFails => ConsumerInv' BY DEF StartupFails, ReturnCall, MainOnly
<1>4. KafkaStarts => ConsumerInv' BY DEF KafkaStarts
<1>5. ASSUME NEW w \in Pool, CollectResult(w) PROVE ConsumerInv'
      BY <1>5 DEF CollectResult, WorkerAt
<1>6. KafkaReturns => ConsumerInv' BY DEF KafkaReturns, ReturnCall, MainOnly
<1>7. NatsStarts => ConsumerInv'
  <2>1. NatsStarts /\ cstate = "draining" => ConsumerInv'
        BY ZenonT(30) DEF NatsStarts, ReturnCall
  <2>2. NatsStarts /\ cstate # "draining" => ConsumerInv' BY DEF NatsStarts
  <2> QED BY <2>1, <2>2
<1>8. PullLoopReady => ConsumerInv' BY ZenonT(30) DEF PullLoopReady
<1>9. ASSUME NEW fails \in BOOLEAN, PullLoopEnds(fails) PROVE ConsumerInv'
      BY ZenonT(30), <1>9 DEF PullLoopEnds
<1>10. NatsReturns => ConsumerInv' BY DEF NatsReturns, ReturnCall, MainOnly
<1>11. NatsBatchStarts => ConsumerInv' BY DEF NatsBatchStarts
<1>12. AwaitStarted => ConsumerInv'
  <2>1. AwaitStarted => ConsumerShape' /\ MainInv' /\ WorkerInv'
        BY ZenonT(30) DEF AwaitStarted
  <2>2. AwaitStarted => CloseInv' /\ ReadyInv' /\ FailInv' BY DEF AwaitStarted
  <2> QED BY <2>1, <2>2
<1>13. AwaitEnd => ConsumerInv' BY ZenonT(30) DEF AwaitEnd
<1>14. NatsBatchReturns => ConsumerInv' BY DEF NatsBatchReturns, ReturnCall, MainOnly
<1>15. KafkaBeginDrain => ConsumerInv' BY DEF KafkaBeginDrain
<1>16. NatsBeginDrain => ConsumerInv'
  <2>1. NatsBeginDrain => ConsumerShape' /\ MainInv' /\ WorkerInv'
        BY ZenonT(30) DEF NatsBeginDrain
  <2>2. NatsBeginDrain => CloseInv' /\ ReadyInv' /\ FailInv' BY DEF NatsBeginDrain
  <2> QED BY <2>1, <2>2
<1> HIDE DEF ConsumerInv, ConsumerShape, MainInv, WorkerInv, CloseInv, ReadyInv, FailInv,
Over, Settled,
             Kafka, KafkaFlavors, Single, Batch, Everyone, runVars, readyVars, closeVars
<1> QED
      BY ZenonT(30), <1>1, <1>2, <1>3, <1>4, <1>5, <1>6, <1>7, <1>8, <1>9, <1>10, <1>11,
          <1>12,
   <1>13, <1>14,
     <1>15, <1>16 DEF MainStep

\* What a worker does preserves it: its sessions, its backoff, its failure and
\* its last words in Kafka, its messages and its end in NATS.
LEMMA WorkersKeep ==
    ASSUME ConsumerInv, NEW w \in Pool
    PROVE  /\ WorkerStep(w) \/ WorkerJoined(w) \/ NatsPulls(w) \/ BatchWorkerReady(w) => ConsumerInv'
           /\ WorkerStops(w, "error") \/ WorkerStops(w, "recreate") => ConsumerInv'
           /\ MessageDone(w, TRUE) \/ BatchWorkerEnds(w, TRUE) => ConsumerInv'
<1> USE DEF ConsumerInv, ConsumerShape, MainInv, WorkerInv, CloseInv, ReadyInv, FailInv,
Over, Settled,
            Kafka, KafkaFlavors, Single, Batch, Everyone, runVars, readyVars, closeVars,
            WorkerAt, WorkerOnly
<1>1. SessionOpens(w) => ConsumerInv' BY DEF SessionOpens
<1>2. WorkerJoined(w) => ConsumerInv' BY DEF WorkerJoined, SetWorkerReady
<1>3. ASSUME NEW how \in {"nil", "canceled", "recreate"}, WorkerStops(w, how) PROVE ConsumerInv'
  <2>1. ConsumerShape' /\ MainInv' /\ WorkerInv' /\ CloseInv' /\ ReadyInv'
        BY ZenonT(60), <1>3 DEF WorkerStops
  <2>2. \A v \in Pool : worker[v] \in {"ending", "unready", "ended"} =>
            worker'[v] = worker[v] /\ reported'[v] = reported[v]
    BY <1>3 DEF WorkerStops
  <2>3. FailInv' BY <1>3, <2>2 DEF WorkerStops
  <2> QED BY <2>1, <2>3
<1>4. WorkerStops(w, "error") => ConsumerInv' BY ZenonT(30) DEF WorkerStops
<1>5. BackoffBegins(w) => ConsumerInv' BY ZenonT(30) DEF BackoffBegins
<1>6. ASSUME NEW how \in {"nil", "canceled", "recreate"}, BackoffEnds(w, how) PROVE ConsumerInv'
  BY ZenonT(30), <1>6 DEF BackoffEnds
<1>7. WorkerUnready(w) => ConsumerInv' BY DEF WorkerUnready, SetWorkerReady
<1>8. WorkerReports(w) => ConsumerInv' BY DEF WorkerReports
<1>9. NatsPulls(w) => ConsumerInv' BY DEF NatsPulls
<1>10. ASSUME NEW fatal \in BOOLEAN, MessageDone(w, fatal) PROVE ConsumerInv'
      BY <1>10 DEF MessageDone
<1>11. BatchWorkerReady(w) => ConsumerInv' BY ZenonT(30) DEF BatchWorkerReady
<1>12. ASSUME NEW fatal \in BOOLEAN, BatchWorkerEnds(w, fatal) PROVE ConsumerInv'
      BY ZenonT(30), <1>12 DEF BatchWorkerEnds
<1> HIDE DEF ConsumerInv, ConsumerShape, MainInv, WorkerInv, CloseInv, ReadyInv, FailInv,
Over, Settled,
             Kafka, KafkaFlavors, Single, Batch, Everyone, runVars, readyVars, closeVars,
             WorkerAt, WorkerOnly
<1> QED
      BY ZenonT(30), <1>1, <1>2, <1>3, <1>4, <1>5, <1>6, <1>7, <1>8, <1>9, <1>10, <1>11, <1>12
   DEF WorkerStep

\* A Shutdown preserves it: it closes a consumer that never ran, and waits for
\* Run otherwise.
LEMMA ShutdownKeeps ==
    ASSUME ConsumerInv, NEW s \in Closers
    PROVE  KafkaShutdown(s) \/ NatsShutdown(s) \/ ShutdownReturns(s) \/ ShutdownForces(s) => ConsumerInv'
<1> USE DEF ConsumerInv, ConsumerShape, MainInv, WorkerInv, CloseInv, ReadyInv, FailInv,
Over, Settled,
            Kafka, KafkaFlavors, Batch, runVars, readyVars, closeVars
<1>1. KafkaShutdown(s) /\ runStarted = TRUE => ConsumerInv' BY DEF KafkaShutdown
<1>2. KafkaShutdown(s) /\ runStarted = FALSE => ConsumerInv' BY ZenonT(30) DEF KafkaShutdown
<1>3. NatsShutdown(s) /\ runStarted = TRUE => ConsumerInv' BY ZenonT(60) DEF NatsShutdown
<1>4. NatsShutdown(s) /\ runStarted = FALSE => ConsumerInv' BY DEF NatsShutdown
<1>5. ShutdownReturns(s) => ConsumerInv' BY DEF ShutdownReturns
<1>6. ShutdownForces(s) => ConsumerInv' BY DEF ShutdownForces
<1>7. runStarted \in BOOLEAN OBVIOUS
<1> HIDE DEF ConsumerInv, ConsumerShape, MainInv, WorkerInv, CloseInv, ReadyInv, FailInv,
Over, Settled,
             Kafka, KafkaFlavors, Batch, runVars, readyVars, closeVars
<1> QED BY <1>1, <1>2, <1>3, <1>4, <1>5, <1>6, <1>7

\* The invariant holds in every state of every consumer.
LEMMA ConsumerInvariance == LifecycleSpec => []ConsumerInv
<1>1. ConsumerInv /\ LifecycleNext => ConsumerInv'
  BY ZenonT(30), RunKeeps, WorkersKeep, ShutdownKeeps DEF LifecycleNext
<1>2. ConsumerInv /\ UNCHANGED consumerVars => ConsumerInv'
  BY
     DEF ConsumerInv, ConsumerShape, MainInv, WorkerInv, CloseInv, ReadyInv, FailInv, Over,
         Settled, KafkaFlavors,
         consumerVars, runVars, readyVars, closeVars
<1> QED BY ConsumerStart, <1>1, <1>2, PTL DEF LifecycleSpec

\* Readiness for any number of workers: a Kafka consumer that reports ready has
\* no worker outside a session it joined, or left a moment ago, and a NATS
\* consumer that does has come to its pull loop.
THEOREM ReadyCorrect == LifecycleSpec => []ReadyMeansWorking
<1>1. ConsumerInv => ReadyMeansWorking
  BY
     DEF ConsumerInv, ConsumerShape, MainInv, CloseInv, ReadyInv, ReadyMeansWorking, Kafka,
         KafkaFlavors, Batch,
         KafkaReadiness, NatsReadiness, Over
<1> QED BY ConsumerInvariance, <1>1, PTL

\* A Shutdown that returns nil leaves no worker behind and no Run that could
\* start one, however many of them race Run, a drain and each other.
THEOREM ShutdownCorrect == LifecycleSpec => []ShutdownIsFinal
<1>1. ConsumerInv => ShutdownIsFinal
  BY DEF ConsumerInv, WorkerInv, CloseInv, ShutdownIsFinal, Over, Settled
<1> QED BY ConsumerInvariance, <1>1, PTL

\* Run of both Kafka consumers and of the single NATS consumer returns the error
\* of a worker that failed while the context was live.
THEOREM FatalCorrect == LifecycleSpec => []FatalIsReturned
<1>1. ConsumerInv => FatalIsReturned
      BY DEF ConsumerInv, ConsumerShape, FailInv, FatalIsReturned
<1> QED BY ConsumerInvariance, <1>1, PTL

-----------------------------------------------------------------------------
(* The local asynchronous route.  The invariant follows the drain: only    *)
(* the call inside sync.Once starts it, it finds the library stopped, and  *)
(* what it records tells whether it waited for the jobs; a job stays with  *)
(* the library until it is finished, unless the drain was forced.          *)

RouteShape ==
    /\ pc = [c \in Callers |-> pc[c]] /\ ret = [c \in Callers |-> ret[c]]
    /\ \A c \in Callers : calls[c] \in Ops
    /\ drainErr \in {"nil", "cancelled"} /\ drainDone \in BOOLEAN

\* Who may be at the steps of the drain, and sync.Once.
OnceInv ==
    /\ \A c \in Callers : pc[c] \in {"drain", "arm"} => calls[c] \in {"Run", "BeginDrain", "Shutdown"}
    /\ \A c \in Callers : pc[c] = "run" \/ pc[c] = "serving" => calls[c] = "Run"
    /\ \A c, d \in Callers : pc[c] = "arm" /\ pc[d] = "arm" => c = d
    /\ \A c \in Callers : pc[c] = "arm" => once = "held"
    /\ once \in {"free", "held"} => drainer = "none"

\* The library is stopped by the drain, and the drain that waited left no job.
DrainInv ==
    /\ drainer \in {"none", "started", "waiting", "graceful", "forced", "closing", "done"}
    /\ drainer \notin {"none", "started"} => state = "stopped"
    /\ drainDone = TRUE <=> drainer = "done"
    /\ drainErr = "cancelled" => drainer \in {"closing", "done"}
    /\ drainer = "graceful" \/ (drainer \in {"closing", "done"} /\ drainErr = "nil") =>
          queue = {} /\ executing = {}

\* Until a drain is forced an accepted job is queued, executing or finished.
JobInv ==
    drainer = "forced" \/ drainErr = "cancelled"
      \/ \A d \in Callers : ret[d] = "accepted" => d \in queue \cup executing \cup finished

\* A nil of Run or of Shutdown is the one the drain recorded.
NilInv ==
    \A c \in Callers : calls[c] \in {"Run", "Shutdown"} /\ ret[c] = "nil" =>
        drainDone = TRUE /\ drainErr = "nil"

RouteInv == RouteShape /\ OnceInv /\ DrainInv /\ JobInv /\ NilInv

\* The invariant holds of a new route with any calls before it.
LEMMA RouteStart == Init => RouteInv
<1> SUFFICES ASSUME Init PROVE RouteInv OBVIOUS
<1>1. \A c \in Callers : calls[c] \in Ops BY LocalAssumption DEF LocalAssumption, Init
<1>2. \A c \in Callers :
         /\ pc[c] \in {"run", "drain", "check"} /\ ret[c] = "none"
         /\ pc[c] = "run" => calls[c] = "Run"
         /\ pc[c] = "drain" => calls[c] \in {"BeginDrain", "Shutdown"}
  BY <1>1 DEF Init, Entry, Ops
<1> QED
      BY ZenonT(30), <1>1, <1>2 DEF Init, RouteInv, RouteShape, OnceInv, DrainInv, JobInv,
          NilInv

\* A call that goes to a step outside the drain, or returns neither an admission
\* nor the nil of a finished drain, and leaves the drain and the library alone.
Passes(c) ==
    /\ pc' = [d \in Callers |-> pc'[d]] /\ ret' = [d \in Callers |-> ret'[d]]
    /\ \A d \in Callers : d # c => pc'[d] = pc[d] /\ ret'[d] = ret[d]
    /\ pc'[c] \notin {"run", "serving", "drain", "arm"}
    /\ ret'[c] = ret[c] \/ ret'[c] \notin {"nil", "accepted"} \/ (ret'[c] = "nil" /\ calls[c] = "BeginDrain")
    /\ UNCHANGED <<drain, library, calls>>

\* Such a call disturbs nothing.
LEMMA PassesKeep ==
    ASSUME RouteInv, NEW c \in Callers, Passes(c)
    PROVE  RouteInv'
<1> USE DEF RouteInv, Passes, drain, library
<1>1. RouteShape' BY DEF RouteShape
<1>2. OnceInv'
  <2>1. \A d \in Callers : pc'[d] \in {"run", "serving", "drain", "arm"} => d # c /\ pc[d] = pc'[d] OBVIOUS
  <2> QED BY <2>1 DEF OnceInv
<1>3. DrainInv' BY DEF DrainInv
<1>4. JobInv'
  <2>1. \A d \in Callers : ret'[d] = "accepted" => ret[d] = "accepted" OBVIOUS
  <2> QED BY <2>1 DEF JobInv
<1>5. NilInv'
  <2>1. \A d \in Callers : ret'[d] = "nil" /\ calls'[d] # "BeginDrain" => ret[d] = "nil" /\ calls[d] = calls'[d]
    OBVIOUS
  <2> QED BY <2>1 DEF NilInv
<1> QED BY <1>1, <1>2, <1>3, <1>4, <1>5

\* Deliver, query and the jobs they submit preserve it: the library admits
\* nothing once the drain has stopped it.
LEMMA JobsKeep ==
    ASSUME RouteInv, NEW c \in Callers
    PROVE  /\ Check(c) \/ Untimely(c) \/ Submit(c) \/ SubmitRefused(c) \/ Result(c) \/ GiveUp(c) => RouteInv'
           /\ End(c) \/ Take(c) \/ Finish(c) => RouteInv'
<1>1. Check(c) \/ Untimely(c) \/ SubmitRefused(c) => Passes(c)
  BY ZenonT(30) DEF Check, Untimely, SubmitRefused, Passes, Goto, Return, RouteInv, RouteShape
<1>2. Result(c) \/ GiveUp(c) => Passes(c)
  BY DEF Result, GiveUp, Passes, Return, RouteInv, RouteShape
<1> USE DEF RouteInv, RouteShape, OnceInv, DrainInv, JobInv, NilInv, route, drain, library,
Goto, Return
<1>3. Submit(c) => RouteInv' BY DEF Submit, Admit
<1>4. End(c) => RouteInv' BY DEF End
<1>5. Take(c) \/ Finish(c) => RouteInv' BY DEF Take, Finish
<1> HIDE DEF RouteInv, RouteShape, OnceInv, DrainInv, JobInv, NilInv, route, drain, library,
Goto, Return
<1> QED BY <1>1, <1>2, <1>3, <1>4, <1>5, PassesKeep

\* beginDrain and forceDrain preserve it: one call starts the drain.
LEMMA DrainCallsKeep ==
    ASSUME RouteInv, NEW c \in Callers
    PROVE  EnterOnce(c) \/ Arm(c) \/ JoinOnce(c) \/ ForceDrain(c) => RouteInv'
<1> USE DEF RouteInv, RouteShape, OnceInv, DrainInv, JobInv, NilInv, route, drain, library,
Goto, Return
<1>1. EnterOnce(c) => RouteInv' BY DEF EnterOnce
<1>2. Arm(c) => RouteInv'
  <2>1. Arm(c) => RouteShape' BY ZenonT(30) DEF Arm, AfterDrain
  <2>2. Arm(c) => OnceInv'
    <3>1. Arm(c) => \A d \in Callers : pc'[d] \in {"run", "serving", "drain"} => d # c /\ pc[d] = pc'[d]
      BY ZenonT(30) DEF Arm, AfterDrain
    <3>2. Arm(c) => once' = "done" /\ calls' = calls /\ \A d \in Callers : pc'[d] # "arm"
          BY ZenonT(30) DEF Arm, AfterDrain
    <3> QED BY <3>1, <3>2
  <2>3. Arm(c) => DrainInv' BY DEF Arm, AfterDrain
  <2>4. Arm(c) => JobInv' BY ZenonT(30) DEF Arm, AfterDrain
  <2>5. Arm(c) => NilInv' BY ZenonT(30) DEF Arm, AfterDrain
  <2> QED BY <2>1, <2>2, <2>3, <2>4, <2>5
<1>3. JoinOnce(c) => Passes(c) BY ZenonT(30) DEF JoinOnce, AfterDrain, Passes
<1>4. ForceDrain(c) => RouteInv' BY DEF ForceDrain
<1> HIDE DEF RouteInv, RouteShape, OnceInv, DrainInv, JobInv, NilInv, route, drain, library,
Goto, Return
<1> QED BY <1>1, <1>2, <1>3, <1>4, PassesKeep

\* Run and Shutdown preserve it: what they return is what the drain recorded.
LEMMA RunCallsKeep ==
    ASSUME RouteInv, NEW c \in Callers
    PROVE  RunEnters(c) \/ RunCancelled(c) \/ RunReturns(c) \/ Closes(c) \/ ShutdownExpires(c) => RouteInv'
<1> USE DEF RouteInv, RouteShape, OnceInv, DrainInv, JobInv, NilInv, route, drain, library,
Goto, Return
<1>1. RunEnters(c) => RouteInv'
  <2>1. RunEnters(c) /\ pc'[c] # "serving" => Passes(c) BY ZenonT(30) DEF RunEnters, Passes
  <2>2. RunEnters(c) /\ pc'[c] = "serving" =>
            /\ pc' = [pc EXCEPT ![c] = "serving"] /\ state = "new" /\ state' = "running" /\ calls[c] = "Run"
            /\ UNCHANGED <<drain, queue, executing, finished, calls, ret>>
    BY ZenonT(30) DEF RunEnters
  <2>3. RunEnters(c) /\ pc'[c] = "serving" => RouteInv' BY <2>2
  <2> HIDE DEF RouteInv, RouteShape, OnceInv, DrainInv, JobInv, NilInv, route, drain,
  library, Goto, Return
  <2> QED BY <2>1, <2>3, PassesKeep
<1>2. RunCancelled(c) => RouteInv' BY DEF RunCancelled
<1>3. RunReturns(c) => RouteInv' BY ZenonT(30) DEF RunReturns
<1>4. Closes(c) => RouteInv' BY ZenonT(30) DEF Closes
<1>5. ShutdownExpires(c) => RouteInv' BY DEF ShutdownExpires
<1> HIDE DEF RouteInv
<1> QED BY <1>1, <1>2, <1>3, <1>4, <1>5

\* The goroutine of beginDrain preserves it.
LEMMA DrainerKeeps ==
    ASSUME RouteInv, Drain
    PROVE  RouteInv'
<1> USE DEF RouteInv, RouteShape, OnceInv, DrainInv, JobInv, NilInv, route, library
<1>1. DrainBegins => RouteInv' BY DEF DrainBegins
<1>2. DrainFinishes => RouteInv' BY DEF DrainFinishes
<1>3. DrainForced => RouteInv' BY DEF DrainForced
<1>4. DrainRecords => RouteInv' BY DEF DrainRecords
<1>5. DrainCloses => RouteInv' BY DEF DrainCloses
<1> HIDE DEF RouteInv
<1> QED BY <1>1, <1>2, <1>3, <1>4, <1>5 DEF Drain

\* A Run or a Shutdown of the local route that returned nil means that nothing is
\* queued or executing any more and that every accepted delivery was carried
\* out, for any capacity, any number of workers and any calls in any order.
THEOREM ReuseCorrect == Spec => []SafeToReuse
<1>1. RouteInv /\ Next => RouteInv'
  BY JobsKeep, DrainCallsKeep, RunCallsKeep, DrainerKeeps DEF Next, Step
<1>2. RouteInv /\ UNCHANGED vars => RouteInv'
  BY DEF RouteInv, RouteShape, OnceInv, DrainInv, JobInv, NilInv, vars, route, drain, library
<1>3. RouteInv => SafeToReuse BY DEF RouteInv, DrainInv, JobInv, NilInv, SafeToReuse
<1> QED BY RouteStart, <1>1, <1>2, <1>3, PTL DEF Spec
=============================================================================
