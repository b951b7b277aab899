------------------------------- MODULE Runtime -------------------------------
(***************************************************************************)
(* The Runtime supervisor: concurrent calls of Run, Shutdown, BeginDrain   *)
(* and the health checks on one Runtime, together with the services it     *)
(* manages.  Each caller makes one call.  A call is a process with a       *)
(* program counter; the steps between two lock sections, channel           *)
(* operations or calls into a service are steps of their own.              *)
(*                                                                         *)
(* A service may stop at any time, cleanly or not, may hang for ever in    *)
(* Run or in Shutdown, and may panic in BeginDrain; BeginDrain returns.    *)
(***************************************************************************)
EXTENDS Naturals, FiniteSets

CONSTANTS
    Callers,
    AllServices,  \* the services a runtime may be built with
    Offered       \* the setups: services, their exits, and the calls made

VARIABLES
    state,        \* runtimeState
    started,      \* runCancel # nil: a Run owns the lifecycle
    claimed,      \* shutdownStarted: a Shutdown owns a runtime that never ran
    shutdownErr,  \* the stored verdict, a set of Reasons
    drainErr,     \* some service panicked in BeginDrain
    once,         \* drainOnce: "new", "busy" or "done"
    drain, done,  \* the two channels: TRUE when closed
    ctx           \* Err() of the run context

lifecycle == <<state, started, claimed, shutdownErr, drainErr, once, drain, done, ctx>>

VARIABLES
    phase,        \* of each service's Run goroutine
    result,       \* what Run of the service returned
    results,      \* the buffered results channel
    asked,        \* services whose BeginDrain was called
    late,         \* services that returned after that (history)
    stop          \* of each service's Shutdown

services == <<phase, result, results, asked, late, stop>>

VARIABLES
    setup,        \* services registered, how they may exit, what each caller calls
    pc,           \* where each caller is
    err,          \* the error it has collected, a set of Reasons
    flag,         \* Run: draining, then gracefulDrain; Shutdown: cancel # nil;
                  \* health checks: a service check failed
    item          \* the service whose result Run received

calls == <<setup, pc, err, flag, item>>

vars == <<lifecycle, services, calls>>

Services == setup.services
Exits    == setup.exits
op       == setup.calls

Ops     == {"Run", "Shutdown", "BeginDrain", "Readiness", "Liveness"}
AllExits == {"nil", "canceled", "deadline", "failure"}
Reasons == {"service", "unexpected", "drain", "timeout", "stop", "ctx", "refused", "unhealthy"}
NoService == "none"

ASSUME RuntimeAssumption ==
    /\ IsFiniteSet(AllServices)
    /\ NoService \notin AllServices
    /\ Offered \subseteq [services : SUBSET AllServices, exits : SUBSET AllExits,
                           calls : [Callers -> Ops]]

Init ==
    /\ setup \in Offered
    /\ state = "new" /\ started = FALSE /\ claimed = FALSE
    /\ shutdownErr = {} /\ drainErr = FALSE /\ once = "new"
    /\ drain = FALSE /\ done = FALSE /\ ctx = "live"
    /\ phase = [s \in Services |-> "new"]
    /\ result = [s \in Services |-> "nil"]
    /\ results = {} /\ asked = {} /\ late = {}
    /\ stop = [s \in Services |-> "no"]
    /\ pc = [c \in Callers |-> "call"]
    /\ err = [c \in Callers |-> {}]
    /\ flag = [c \in Callers |-> FALSE]
    /\ item = [c \in Callers |-> NoService]

At(c, name, label) == op[c] = name /\ pc[c] = label
Goto(c, label)     == pc' = [pc EXCEPT ![c] = label]
Collect(c, more)   == err' = [err EXCEPT ![c] = err[c] \cup more]
Flag(c, b)         == flag' = [flag EXCEPT ![c] = b]
Return(c, reasons) == Goto(c, "returned") /\ err' = [err EXCEPT ![c] = reasons]

\* cancel() of the run context; the first reason sticks.
Cancelled == IF ctx = "live" THEN "canceled" ELSE ctx

\* isExpectedContextDone
Expected(exit) == exit = "canceled" \/ (exit = "deadline" /\ ctx = "deadline")
Failed(exit)   == exit # "nil" /\ ~Expected(exit)

-----------------------------------------------------------------------------
(* Services and the contexts given to Run.                                 *)

\* A service returns from Run, panics or exits its goroutine; the deferred send
\* to the buffered channel never blocks.
ServiceReturns(s, exit) ==
    /\ phase[s] = "up"
    /\ phase' = [phase EXCEPT ![s] = "sent"]
    /\ result' = [result EXCEPT ![s] = exit]
    /\ results' = results \cup {s}
    /\ late' = IF s \in asked THEN late \cup {s} ELSE late
    /\ UNCHANGED <<lifecycle, calls, asked, stop>>

\* The deferred workers.Done runs after the send.
WorkerDone(s) ==
    /\ phase[s] = "sent"
    /\ phase' = [phase EXCEPT ![s] = "done"]
    /\ UNCHANGED <<lifecycle, calls, result, results, asked, late, stop>>

\* Shutdown of a service returns, with or without an error.
StopReturns(s) ==
    /\ stop[s] = "called"
    /\ \E how \in {"ok", "failed"} : stop' = [stop EXCEPT ![s] = how]
    /\ UNCHANGED <<lifecycle, calls, phase, result, results, asked, late>>

\* The context the host gave to Run is cancelled or passes its deadline.
ParentDone ==
    /\ started /\ ctx = "live"
    /\ ctx' \in {"canceled", "deadline"}
    /\ UNCHANGED <<state, started, claimed, shutdownErr, drainErr, once, drain, done,
                   services, calls>>

-----------------------------------------------------------------------------
(* beginDrain, called by Run, Shutdown and BeginDrain.  sync.Once lets one  *)
(* caller through and makes the others wait for it.                         *)

\* Variant: the state is left alone while the services are asked to drain.
EnterDrainRunning(c) ==
    /\ pc[c] = "drain" /\ once = "new"
    /\ once' = "busy"
    /\ Goto(c, "draining")
    /\ UNCHANGED <<state, started, claimed, shutdownErr, drainErr, drain, done, ctx,
                   services, setup, err, flag, item>>

EnterDrain(c) ==
    /\ pc[c] = "drain" /\ once = "new"
    /\ once' = "busy"
    /\ state' = IF state = "closed" THEN state ELSE "draining"
    /\ Goto(c, "draining")
    /\ UNCHANGED <<started, claimed, shutdownErr, drainErr, drain, done, ctx,
                   services, setup, err, flag, item>>

DrainService(c, s) ==
    /\ pc[c] = "draining" /\ s \notin asked
    /\ asked' = asked \cup {s}
    /\ drainErr' \in {drainErr, TRUE}
    /\ UNCHANGED <<state, started, claimed, shutdownErr, once, drain, done, ctx,
                   phase, result, results, late, stop, calls>>

\* Variant: a panic in BeginDrain does not cancel the run.
DrainAskedQuietly(c) ==
    /\ pc[c] = "draining" /\ asked = Services
    /\ Goto(c, "draining close")
    /\ UNCHANGED <<lifecycle, services, setup, err, flag, item>>

DrainAsked(c) ==
    /\ pc[c] = "draining" /\ asked = Services
    /\ ctx' = IF drainErr /\ started THEN Cancelled ELSE ctx
    /\ Goto(c, "draining close")
    /\ UNCHANGED <<state, started, claimed, shutdownErr, drainErr, once, drain, done,
                   services, setup, err, flag, item>>

CloseDrain(c) ==
    /\ pc[c] = "draining close"
    /\ drain' = TRUE /\ once' = "done"
    /\ Goto(c, "drain")
    /\ UNCHANGED <<state, started, claimed, shutdownErr, drainErr, done, ctx,
                   services, setup, err, flag, item>>

\* Variant: a flag in place of sync.Once, so that latecomers do not wait.
DrainedUnlessFirst(c) == pc[c] = "drain" /\ once # "new"

Drained(c) == pc[c] = "drain" /\ once = "done"

DrainReasons == IF drainErr THEN {"drain"} ELSE {}

BeginDrain(c) ==
    \/ At(c, "BeginDrain", "call") /\ Goto(c, "drain") /\ UNCHANGED err
    \/ op[c] = "BeginDrain" /\ Drained(c) /\ Return(c, {})

-----------------------------------------------------------------------------
(* shutdownServices and markClosed, for the one owner of the lifecycle.     *)

Owner(c) == pc[c] \in {"stop", "stopping", "store", "mark", "close"}

StopServices(c) ==
    /\ pc[c] = "stop"
    /\ stop' = [s \in Services |-> "called"]
    /\ Goto(c, "stopping")
    /\ UNCHANGED <<lifecycle, phase, result, results, asked, late, setup, err, flag, item>>

\* All results arrived.  Run then cancels its context.
ServicesStopped(c) ==
    /\ pc[c] = "stopping"
    /\ \A s \in Services : stop[s] \in {"ok", "failed"}
    /\ Collect(c, IF \E s \in Services : stop[s] = "failed" THEN {"stop"} ELSE {})
    /\ ctx' = IF op[c] = "Run" THEN Cancelled ELSE ctx
    /\ Goto(c, "store")
    /\ UNCHANGED <<state, started, claimed, shutdownErr, drainErr, once, drain, done,
                   services, setup, flag, item>>

\* The deadline passes with results outstanding: the timeout of Run, or the
\* deadline of the context given to Shutdown.
StopTimesOut(c) ==
    /\ pc[c] = "stopping" /\ Services # {}
    /\ Collect(c, {"stop"})
    /\ ctx' = IF op[c] = "Run" THEN Cancelled ELSE ctx
    /\ Goto(c, "store")
    /\ UNCHANGED <<state, started, claimed, shutdownErr, drainErr, once, drain, done,
                   services, setup, flag, item>>

\* Variant: only the errors of stopping are stored, not what Run returns.
StoreStopErrors(c) ==
    /\ pc[c] = "store"
    /\ shutdownErr' = err[c] \cap {"stop"}
    /\ Goto(c, "mark")
    /\ UNCHANGED <<state, started, claimed, drainErr, once, drain, done, ctx,
                   services, setup, err, flag, item>>

StoreVerdict(c) ==
    /\ pc[c] = "store"
    /\ shutdownErr' = err[c]
    /\ Goto(c, "mark")
    /\ UNCHANGED <<state, started, claimed, drainErr, once, drain, done, ctx,
                   services, setup, err, flag, item>>

MarkClosed(c) ==
    /\ pc[c] = "mark"
    /\ state' = "closed"
    /\ Goto(c, "close")
    /\ UNCHANGED <<started, claimed, shutdownErr, drainErr, once, drain, done, ctx,
                   services, setup, err, flag, item>>

\* Variant: the state says closed and the done channel stays open.
CloseDoneForgotten(c) ==
    /\ pc[c] = "close"
    /\ Goto(c, "returned")
    /\ UNCHANGED <<lifecycle, services, setup, err, flag, item>>

CloseDone(c) ==
    /\ pc[c] = "close"
    /\ done' = TRUE
    /\ Goto(c, "returned")
    /\ UNCHANGED <<state, started, claimed, shutdownErr, drainErr, once, drain, ctx,
                   services, setup, err, flag, item>>

-----------------------------------------------------------------------------
(* Run.                                                                    *)

RunRefused(c) ==
    /\ At(c, "Run", "call") /\ state # "new"
    /\ Return(c, {"refused"})
    /\ UNCHANGED <<lifecycle, services, setup, flag, item>>

RunStarts(c) ==
    /\ At(c, "Run", "call") /\ state = "new"
    /\ state' = "running" /\ started' = TRUE
    /\ phase' = [s \in Services |-> "up"]
    /\ Goto(c, "select")
    /\ UNCHANGED <<claimed, shutdownErr, drainErr, once, drain, done, ctx,
                   result, results, asked, late, stop, setup, err, flag, item>>

\* select takes any case that is ready.
SelectDone(c) ==
    /\ At(c, "Run", "select")
    /\ ctx # "live" \/ drain
    /\ \/ ctx # "live" /\ Flag(c, FALSE)
       \/ drain /\ Flag(c, TRUE)
    /\ Goto(c, "drain")
    /\ UNCHANGED <<lifecycle, services, setup, err, item>>

SelectResult(c, s) ==
    /\ At(c, "Run", "select") /\ s \in results
    /\ results' = results \ {s}
    /\ item' = [item EXCEPT ![c] = s]
    /\ Goto(c, "read state")
    /\ UNCHANGED <<lifecycle, phase, result, asked, late, stop, setup, err, flag>>

ReadState(c) ==
    /\ At(c, "Run", "read state")
    /\ Flag(c, state = "draining")
    /\ Goto(c, "judge")
    /\ UNCHANGED <<lifecycle, services, setup, err, item>>

Verdict(c) ==
    LET exit == result[item[c]]
    IN  IF flag[c] THEN IF Failed(exit) THEN {"service"} ELSE {}
        ELSE IF Failed(exit) THEN {"service"}
        ELSE IF ctx = "live" THEN {"unexpected"} ELSE {}

JudgeResult(c) ==
    /\ At(c, "Run", "judge")
    /\ Collect(c, Verdict(c))
    /\ Goto(c, "drain")
    /\ UNCHANGED <<lifecycle, services, setup, flag, item>>

RunDrained(c) ==
    /\ op[c] = "Run" /\ Drained(c)
    /\ Collect(c, DrainReasons)
    /\ ctx' = IF ~flag[c] \/ drainErr THEN Cancelled ELSE ctx
    /\ Goto(c, "wait")
    /\ UNCHANGED <<state, started, claimed, shutdownErr, drainErr, once, drain, done,
                   services, setup, flag, item>>

WorkersStopped(c) ==
    /\ At(c, "Run", "wait")
    /\ \A s \in Services : phase[s] = "done"
    /\ Goto(c, "collect")
    /\ UNCHANGED <<lifecycle, services, setup, err, flag, item>>

\* Variant: the timeout cancels the services and goes on waiting for them.
WaitTimesOutAgain(c) ==
    /\ At(c, "Run", "wait")
    /\ ctx' = Cancelled
    /\ Collect(c, {"timeout"})
    /\ UNCHANGED <<state, started, claimed, shutdownErr, drainErr, once, drain, done,
                   services, setup, pc, flag, item>>

WaitTimesOut(c) ==
    /\ At(c, "Run", "wait")
    /\ ctx' = Cancelled
    /\ Collect(c, {"timeout"})
    /\ Goto(c, "collect")
    /\ UNCHANGED <<state, started, claimed, shutdownErr, drainErr, once, drain, done,
                   services, setup, flag, item>>

CollectResult(c, s) ==
    /\ At(c, "Run", "collect") /\ s \in results
    /\ results' = results \ {s}
    /\ Collect(c, IF Failed(result[s]) THEN {"service"} ELSE {})
    /\ UNCHANGED <<lifecycle, phase, result, asked, late, stop, setup, pc, flag, item>>

\* Variant: the results left in the channel are not looked at.
ResultsLeft(c) ==
    /\ At(c, "Run", "collect")
    /\ Goto(c, "stop")
    /\ UNCHANGED <<lifecycle, services, setup, err, flag, item>>

ResultsCollected(c) ==
    /\ At(c, "Run", "collect") /\ results = {}
    /\ Goto(c, "stop")
    /\ UNCHANGED <<lifecycle, services, setup, err, flag, item>>

-----------------------------------------------------------------------------
(* Shutdown.                                                               *)

ShutdownClosed(c) ==
    /\ At(c, "Shutdown", "call") /\ state = "closed"
    /\ Return(c, shutdownErr)
    /\ UNCHANGED <<lifecycle, services, setup, flag, item>>

ShutdownStarts(c) ==
    /\ At(c, "Shutdown", "call") /\ state # "closed"
    /\ Flag(c, started)
    /\ IF started \/ claimed
       THEN UNCHANGED <<claimed, state>>
       ELSE claimed' = TRUE /\ state' = "draining"
    /\ Goto(c, IF ~started /\ claimed THEN "await" ELSE "drain")
    /\ UNCHANGED <<started, shutdownErr, drainErr, once, drain, done, ctx,
                   services, setup, err, item>>

ShutdownDrained(c) ==
    /\ op[c] = "Shutdown" /\ Drained(c)
    /\ Collect(c, DrainReasons)
    /\ Goto(c, IF flag[c] THEN "await" ELSE "stop")
    /\ UNCHANGED <<lifecycle, services, setup, flag, item>>

ShutdownSeesDone(c) ==
    /\ At(c, "Shutdown", "await") /\ done
    /\ Return(c, shutdownErr)
    /\ UNCHANGED <<lifecycle, services, setup, flag, item>>

\* The context given to Shutdown ends; a running Run is then cancelled.
ShutdownTimesOut(c) ==
    /\ At(c, "Shutdown", "await")
    /\ Return(c, {"ctx"})
    /\ ctx' = IF flag[c] THEN Cancelled ELSE ctx
    /\ UNCHANGED <<state, started, claimed, shutdownErr, drainErr, once, drain, done,
                   services, setup, flag, item>>

-----------------------------------------------------------------------------
(* Readiness and Liveness check the state on both sides of the callbacks.   *)

Probe(c) == op[c] \in {"Readiness", "Liveness"}

Healthy(c) == state = "running" \/ (op[c] = "Liveness" /\ state = "draining")

ProbeStarts(c) ==
    /\ Probe(c) /\ pc[c] = "call"
    /\ IF Healthy(c) THEN Goto(c, "checking") /\ UNCHANGED err ELSE Return(c, {"unhealthy"})
    /\ UNCHANGED <<lifecycle, services, setup, flag, item>>

ProbeServices(c) ==
    /\ Probe(c) /\ pc[c] = "checking"
    /\ \E failed \in BOOLEAN : Flag(c, failed)
    /\ Goto(c, "recheck")
    /\ UNCHANGED <<lifecycle, services, setup, err, item>>

\* Variant: the state is not read again after the callbacks.
ProbeReturnsStale(c) ==
    /\ Probe(c) /\ pc[c] = "recheck"
    /\ Return(c, IF flag[c] THEN {"unhealthy"} ELSE {})
    /\ UNCHANGED <<lifecycle, services, setup, flag, item>>

ProbeReturns(c) ==
    /\ Probe(c) /\ pc[c] = "recheck"
    /\ Return(c, IF flag[c] \/ ~Healthy(c) THEN {"unhealthy"} ELSE {})
    /\ UNCHANGED <<lifecycle, services, setup, flag, item>>

-----------------------------------------------------------------------------
\* What a caller does by itself, apart from waiting for a deadline to pass.
Advance(c) ==
    \/ EnterDrain(c) \/ DrainAsked(c) \/ CloseDrain(c)
    \/ \E s \in Services : DrainService(c, s)
    \/ BeginDrain(c) /\ UNCHANGED <<lifecycle, services, setup, flag, item>>
    \/ StopServices(c) \/ ServicesStopped(c) \/ StoreVerdict(c) \/ MarkClosed(c) \/ CloseDone(c)
    \/ RunRefused(c) \/ RunStarts(c) \/ SelectDone(c) \/ ReadState(c) \/ JudgeResult(c)
    \/ \E s \in Services : SelectResult(c, s) \/ CollectResult(c, s)
    \/ RunDrained(c) \/ WorkersStopped(c) \/ ResultsCollected(c)
    \/ ShutdownClosed(c) \/ ShutdownStarts(c) \/ ShutdownDrained(c) \/ ShutdownSeesDone(c)
    \/ ProbeStarts(c) \/ ProbeServices(c) \/ ProbeReturns(c)

\* The timers of Run itself; the deadlines of the contexts given to Shutdown.
Timeout(c) == WaitTimesOut(c) \/ (op[c] = "Run" /\ StopTimesOut(c))
Deadline(c) == ShutdownTimesOut(c) \/ (op[c] = "Shutdown" /\ StopTimesOut(c))

Next ==
    \/ \E c \in Callers : Advance(c) \/ Timeout(c) \/ Deadline(c)
    \/ \E s \in Services : WorkerDone(s) \/ StopReturns(s) \/ \E exit \in Exits : ServiceReturns(s, exit)
    \/ ParentDone

Spec == Init /\ [][Next]_vars

\* Goroutines that can go on do, and the timers Run sets fire.  Services, the
\* host's contexts and the deadline of Shutdown may do nothing at all.
FairSpec ==
    /\ Spec
    /\ \A c \in Callers : WF_vars(Advance(c)) /\ WF_vars(Timeout(c))
    /\ \A s \in AllServices : WF_vars(s \in Services /\ WorkerDone(s))

-----------------------------------------------------------------------------
(* Properties.                                                             *)

\* A Run that returns nil has really stopped everything: every service left
\* its Run, every Shutdown of a service succeeded, and no service failure was
\* dropped on the way through the results channel.
CleanReturn ==
    \A c \in Callers :
        At(c, "Run", "returned") /\ err[c] = {} =>
            \A s \in Services : phase[s] = "done" /\ stop[s] = "ok" /\ result[s] # "failure"

\* Services are shut down once and in order, whichever of Run and any number of
\* Shutdown calls gets to own the lifecycle: never before every service was
\* asked to drain, even when the caller that shuts down is not the one that ran
\* drainOnce, and never a second time.
StopsOnce ==
    /\ \A c \in Callers : pc[c] = "stop" => \A s \in Services : stop[s] = "no"
    /\ \A s \in Services : stop[s] # "no" => asked = Services /\ drain

\* All calls report one verdict: a Shutdown that did not give up on its own
\* context returns exactly what the owner of the lifecycle returns.
SameVerdict ==
    \A c \in Callers :
        /\ pc[c] = "returned" /\ op[c] \in {"Run", "Shutdown"}
        /\ err[c] \notin {{"ctx"}, {"refused"}}
        => state = "closed" /\ err[c] = shutdownErr

\* A service that stops because it was asked to drain is never reported as
\* having stopped unexpectedly, however its result races the drain.
DrainedIsExpected ==
    \A c \in Callers : "unexpected" \in err[c] => item[c] \notin late

\* A service that panics in BeginDrain forces cancellation of a running Run
\* by the time the drain is announced, whoever began the drain.
PanicCancels == drain /\ drainErr /\ started => ctx # "live"

\* Readiness never answers yes once any service was asked to drain, even when
\* its service callbacks ran across the beginning of the drain.
ReadyIsCurrent ==
    [][\A c \in Callers :
        op[c] = "Readiness" /\ pc[c] # "returned" /\ pc'[c] = "returned" /\ err'[c] = {}
            => started /\ asked = {} /\ \A s \in Services : stop[s] = "no"]_vars

\* Once a drain is announced or its context ends, Run returns, even when
\* services hang in Run and in Shutdown: the shutdown timeout bounds both.
RunReturns ==
    \A c \in Callers :
        op[c] = "Run" /\ pc[c] # "call" /\ (drain \/ ctx # "live") ~> pc[c] = "returned"

\* A Shutdown that waits for a Run returns without any deadline of its own.
ShutdownFollowsRun ==
    \A c \in Callers : At(c, "Shutdown", "await") /\ flag[c] ~> pc[c] = "returned"
=============================================================================
