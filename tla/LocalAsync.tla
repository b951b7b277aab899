----------------------------- MODULE LocalAsync -----------------------------
(***************************************************************************)
(* The local asynchronous route: calls of Run, BeginDrain, Shutdown,       *)
(* Deliver and query on one route, and the GoBus queue and workers behind  *)
(* it.  A step of a caller reaches from one lock section, channel          *)
(* operation or library call to the next.                                  *)
(***************************************************************************)
EXTENDS Naturals, FiniteSets

CONSTANTS
    Callers,            \* goroutines, each makes one call
    Offered,            \* the combinations of calls they may make
    Capacity, Workers   \* LocalAsyncConfig

Ops == {"Run", "BeginDrain", "Shutdown", "Deliver", "query"}

ASSUME LocalAssumption ==
    /\ Offered \subseteq [Callers -> Ops]
    /\ {Capacity, Workers} \subseteq Nat \ {0}

VARIABLES
    running, draining, closed, everStarted,   \* guarded by runMu
    once,                          \* drainOnce: "free", "held", "done"
    drainStop,                     \* "none", "armed", "fired"
    drainer,                       \* the goroutine of beginDrain
    drainErr, drainDone,
    queue, executing, finished,    \* jobs, named by the caller that submitted them
    state,                         \* gobusasync.Runtime: "new", "running", "stopped"
    ended,                         \* callers whose context has ended
    calls, pc, ret                 \* of each caller: what it calls, where it is, the result

route   == <<running, draining, closed, everStarted>>
drain   == <<once, drainStop, drainer, drainErr, drainDone>>
library == <<queue, executing, finished, state>>
vars    == <<route, drain, library, ended, calls, pc, ret>>

Entry == [Run |-> "run", BeginDrain |-> "drain", Shutdown |-> "drain",
          Deliver |-> "check", query |-> "check"]

Init ==
    /\ running = FALSE /\ draining = FALSE /\ closed = FALSE /\ everStarted = FALSE
    /\ once = "free" /\ drainStop = "none" /\ drainer = "none"
    /\ drainErr = "nil" /\ drainDone = FALSE
    /\ queue = {} /\ executing = {} /\ finished = {} /\ state = "new"
    /\ ended = {}
    /\ calls \in Offered
    /\ pc = [c \in Callers |-> Entry[calls[c]]]
    /\ ret = [c \in Callers |-> "none"]

Goto(c, label)    == pc' = [pc EXCEPT ![c] = label] /\ UNCHANGED ret
Return(c, result) == /\ pc' = [pc EXCEPT ![c] = "returned"]
                     /\ ret' = [ret EXCEPT ![c] = result]

-----------------------------------------------------------------------------
(* The asynchronous runtime of GoBus, as the route uses it.                *)

\* Admission waits for room; a runtime that is not running refuses.
Admit(c) ==
    /\ state = "running" /\ Cardinality(queue) < Capacity
    /\ queue' = queue \cup {c}
    /\ UNCHANGED <<executing, finished, state>>

Take(j) ==
    /\ j \in queue /\ Cardinality(executing) < Workers
    /\ queue' = queue \ {j} /\ executing' = executing \cup {j}
    /\ UNCHANGED <<route, drain, finished, state, ended, calls, pc, ret>>

\* The handler returns; a call that expired in the queue ends without one.
Finish(j) ==
    /\ j \in executing
    /\ executing' = executing \ {j} /\ finished' = finished \cup {j}
    /\ UNCHANGED <<route, drain, queue, state, ended, calls, pc, ret>>

-----------------------------------------------------------------------------
(* Deliver and query.                                                      *)

Check(c) ==
    /\ pc[c] = "check"
    /\ IF running /\ ~draining /\ ~closed THEN Goto(c, "submit")
       ELSE Return(c, IF closed /\ calls[c] = "query" THEN "closed" ELSE "not running")
    /\ UNCHANGED <<route, drain, library, ended, calls>>

Submit(c) ==
    /\ pc[c] = "submit"
    /\ Admit(c)
    /\ IF calls[c] = "Deliver" THEN Return(c, "accepted") ELSE Goto(c, "result")
    /\ UNCHANGED <<route, drain, ended, calls>>

\* validateImmediateTiming rejects a delivery that is expired or not yet due.
Untimely(c) ==
    /\ pc[c] = "submit" /\ calls[c] = "Deliver"
    /\ Return(c, "untimely")
    /\ UNCHANGED <<route, drain, library, ended, calls>>

SubmitRefused(c) ==
    /\ pc[c] = "submit" /\ state # "running"
    /\ Return(c, "closed")
    /\ UNCHANGED <<route, drain, library, ended, calls>>

\* The result channel delivers or is closed without a result.
Result(c) ==
    /\ pc[c] = "result" /\ c \notin queue \cup executing
    /\ Return(c, IF c \in ended THEN "context"
                 ELSE IF c \in finished THEN "result" ELSE "closed")
    /\ UNCHANGED <<route, drain, library, ended, calls>>

\* The caller's context ends while it waits for room or for the result.
GiveUp(c) ==
    /\ pc[c] \in {"submit", "result"} /\ c \in ended
    /\ Return(c, "context")
    /\ UNCHANGED <<route, drain, library, ended, calls>>

-----------------------------------------------------------------------------
(* beginDrain, forceDrain and the goroutine that drains.                   *)

AfterDrain(c) ==
    CASE calls[c] = "BeginDrain" -> Return(c, "nil")
      [] calls[c] = "Shutdown"   -> Goto(c, "await")
      [] calls[c] = "Run"        -> Goto(c, "force")

EnterOnce(c) ==
    /\ pc[c] = "drain" /\ once = "free"
    /\ once' = "held"
    /\ Goto(c, "arm")
    /\ UNCHANGED <<route, drainStop, drainer, drainErr, drainDone, library, ended, calls>>

Arm(c) ==
    /\ pc[c] = "arm"
    /\ draining' = TRUE /\ drainStop' = "armed" /\ drainer' = "started"
    /\ once' = "done"
    /\ AfterDrain(c)
    /\ UNCHANGED <<running, closed, everStarted, drainErr, drainDone, library, ended, calls>>

\* Variant: a flag instead of sync.Once, which does not wait for the winner.
JoinOnceEarly(c) ==
    /\ pc[c] = "drain" /\ once # "free"
    /\ AfterDrain(c)
    /\ UNCHANGED <<route, drain, library, ended, calls>>

\* sync.Once lets the others through when the first is done.
JoinOnce(c) ==
    /\ pc[c] = "drain" /\ once = "done"
    /\ AfterDrain(c)
    /\ UNCHANGED <<route, drain, library, ended, calls>>

ForceDrain(c) ==
    /\ pc[c] = "force"
    /\ drainStop' = IF drainStop = "none" THEN "none" ELSE "fired"
    /\ IF calls[c] = "Run" THEN Goto(c, "stopping") ELSE Return(c, "context")
    /\ UNCHANGED <<route, once, drainer, drainErr, drainDone, library, ended, calls>>

\* runtime.Shutdown refuses new work, and returns when all is done or when the
\* drain context ends; then it waits for no one and may drop what is queued.
DrainBegins ==
    /\ drainer = "started" /\ drainer' = "waiting"
    /\ state' = "stopped"
    /\ UNCHANGED <<route, once, drainStop, drainErr, drainDone, queue, executing, finished,
                   ended, calls, pc, ret>>

DrainFinishes ==
    /\ drainer = "waiting" /\ queue \cup executing = {}
    /\ drainer' = "graceful"
    /\ UNCHANGED <<route, once, drainStop, drainErr, drainDone, library, ended, calls, pc, ret>>

DrainForced ==
    /\ drainer = "waiting" /\ drainStop = "fired"
    /\ drainer' = "forced"
    /\ queue' \in {queue, {}}
    /\ UNCHANGED <<route, once, drainStop, drainErr, drainDone, executing, finished, state,
                   ended, calls, pc, ret>>

\* Variant: the error of the library's Shutdown is dropped.
DrainRecordsNil ==
    /\ drainer \in {"graceful", "forced"} /\ drainer' = "closing"
    /\ running' = FALSE /\ closed' = (closed \/ everStarted)
    /\ UNCHANGED <<draining, everStarted, once, drainStop, drainErr, drainDone, library,
                   ended, calls, pc, ret>>

DrainRecords ==
    /\ drainer \in {"graceful", "forced"} /\ drainer' = "closing"
    /\ drainErr' = IF drainer = "forced" THEN "cancelled" ELSE "nil"
    /\ running' = FALSE /\ closed' = (closed \/ everStarted)
    /\ UNCHANGED <<draining, everStarted, once, drainStop, drainDone, library, ended, calls, pc, ret>>

DrainCloses ==
    /\ drainer = "closing" /\ drainer' = "done"
    /\ drainDone' = TRUE
    /\ UNCHANGED <<route, once, drainStop, drainErr, library, ended, calls, pc, ret>>

-----------------------------------------------------------------------------
(* Run and Shutdown.                                                       *)

RunEnters(c) ==
    /\ pc[c] = "run"
    /\ IF running THEN Return(c, "running") /\ UNCHANGED <<route, state>>
       ELSE IF draining /\ ~everStarted
       THEN /\ everStarted' = TRUE
            /\ Goto(c, "predrained")
            /\ UNCHANGED <<running, draining, closed, state>>
       ELSE IF closed THEN Return(c, "closed") /\ UNCHANGED <<route, state>>
       ELSE IF state # "new" THEN Return(c, "start failed") /\ UNCHANGED <<route, state>>
       ELSE /\ state' = "running" /\ running' = TRUE /\ everStarted' = TRUE
            /\ Goto(c, "serving")
            /\ UNCHANGED <<draining, closed>>
    /\ UNCHANGED <<drain, queue, executing, finished, ended, calls>>

RunCancelled(c) ==
    /\ pc[c] = "serving" /\ c \in ended
    /\ Goto(c, "drain")
    /\ UNCHANGED <<route, drain, library, ended, calls>>

\* Run after the drain it waited for: a cancelled one reports its context.
RunReturns(c) ==
    /\ pc[c] \in {"serving", "stopping"} /\ drainDone
    /\ Return(c, IF pc[c] = "serving" THEN drainErr ELSE "context")
    /\ UNCHANGED <<route, drain, library, ended, calls>>

\* Shutdown, and a Run that came after a drain, close the route themselves.
Closes(c) ==
    /\ pc[c] \in {"predrained", "await"} /\ drainDone
    /\ closed' = TRUE
    /\ Return(c, drainErr)
    /\ UNCHANGED <<running, draining, everStarted, drain, library, ended, calls>>

ShutdownExpires(c) ==
    /\ pc[c] = "await" /\ c \in ended
    /\ Goto(c, "force")
    /\ UNCHANGED <<route, drain, library, ended, calls>>

-----------------------------------------------------------------------------

\* The context of a call ends: cancelled or expired.
End(c) ==
    /\ c \notin ended /\ pc[c] # "returned" /\ calls[c] # "BeginDrain"
    /\ ended' = ended \cup {c}
    /\ UNCHANGED <<route, drain, library, calls, pc, ret>>

Step(c) ==
    \/ Check(c) \/ Untimely(c) \/ Submit(c) \/ SubmitRefused(c) \/ Result(c) \/ GiveUp(c)
    \/ EnterOnce(c) \/ Arm(c) \/ JoinOnce(c) \/ ForceDrain(c)
    \/ RunEnters(c) \/ RunCancelled(c) \/ RunReturns(c)
    \/ Closes(c) \/ ShutdownExpires(c)

Drain == DrainBegins \/ DrainFinishes \/ DrainForced \/ DrainRecords \/ DrainCloses

Next ==
    \/ \E c \in Callers : Step(c) \/ End(c) \/ Take(c) \/ Finish(c)
    \/ Drain

Spec == Init /\ [][Next]_vars

\* Goroutines that can go on do so.  Handlers and the callers' contexts are
\* under no fairness: a handler may hang.
FairSpec == Spec /\ (\A c \in Callers : WF_vars(Step(c))) /\ WF_vars(Drain)

-----------------------------------------------------------------------------
(* Properties.                                                             *)

\* Storage shared with a handler may be reused after a graceful Shutdown (or a
\* Run) returned nil: from then on no call is queued or executing, and every
\* accepted delivery was carried out, also one admitted while the drain began.
SafeToReuse ==
    \A c \in Callers :
        calls[c] \in {"Run", "Shutdown"} /\ ret[c] = "nil" =>
            /\ queue \cup executing = {}
            /\ \A d \in Callers : ret[d] = "accepted" => d \in finished

\* The end of a Run's context, or of a Shutdown's, ends every Run even if a
\* handler hangs, whoever began the drain and however far it has come.
ForcedRunEnds ==
    (\E c \in Callers : /\ calls[c] \in {"Run", "Shutdown"} /\ c \in ended
                         /\ pc[c] \in {"serving", "await"})
        ~> (\A r \in Callers : calls[r] = "Run" => pc[r] = "returned")
=============================================================================
