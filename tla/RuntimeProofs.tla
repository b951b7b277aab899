---------------------------- MODULE RuntimeProofs ----------------------------
(***************************************************************************)
(* The safety properties of the Runtime supervisor for any set of services *)
(* and any number of concurrent calls.                                     *)
(*                                                                         *)
(* The invariant says what sync.Once and the channels tell of the drain,   *)
(* that one call owns the lifecycle, that the verdict of the owner is the  *)
(* stored one, and where the result of every service is between its        *)
(* goroutine and the error of Run.                                         *)
(***************************************************************************)
EXTENDS Runtime, TLAPS

\* A leaf goes to the SMT solver unless it names another prover.
USE SMTT(30)

Owning  == {"stop", "stopping", "store", "mark", "close"}
Drains  == {"drain", "draining", "draining close"}
Judging == {"read state", "judge"}
Drawn   == {"wait", "collect"} \cup Owning
RunAt   == {"select"} \cup Judging \cup Drains \cup Drawn

\* The call that will shut the services down and close the runtime.
Lead(c) ==
    \/ op[c] = "Run" /\ pc[c] \in RunAt
    \/ op[c] = "Shutdown" /\ flag[c] = FALSE /\ pc[c] \in Drains \cup Owning

\* A Run that was not refused.
Ran(c) == op[c] = "Run" /\ pc[c] # "call" /\ "refused" \notin err[c]

Shape ==
    /\ setup \in Offered
    /\ pc = [c \in Callers |-> pc[c]]
    /\ err = [c \in Callers |-> err[c]]
    /\ item = [c \in Callers |-> item[c]]
    /\ flag \in [Callers -> BOOLEAN]
    /\ phase = [s \in Services |-> phase[s]]
    /\ result = [s \in Services |-> result[s]]
    /\ stop = [s \in Services |-> stop[s]]
    /\ started \in BOOLEAN /\ claimed \in BOOLEAN /\ drainErr \in BOOLEAN
    /\ drain \in BOOLEAN /\ done \in BOOLEAN
    /\ asked \subseteq Services /\ results \subseteq Services /\ late \subseteq asked

\* The drain: once is "done" when the channel is closed and every service was asked.
DrainInv ==
    /\ once \in {"new", "busy", "done"}
    /\ once # "new" => state \in {"draining", "closed"}
    /\ asked # {} => once # "new"
    /\ \A c \in Callers : pc[c] \in {"draining", "draining close"} => once # "new"
    /\ \A c \in Callers : pc[c] = "draining close" => asked = Services
    /\ \A c \in Callers : pc[c] = "draining close" /\ drainErr = TRUE /\ started = TRUE => ctx # "live"
    /\ once = "done" <=> drain = TRUE
    /\ once = "done" => asked = Services
    /\ \A c \in Callers : pc[c] \in Drawn => once = "done"
    /\ \A s \in Services : stop[s] # "no" => once = "done"
    /\ drain = TRUE /\ drainErr = TRUE /\ started = TRUE => ctx # "live"

\* The steps of the owner come from Run or from the Shutdown that claimed.
OwnerInv == \A c \in Callers : pc[c] \in Owning => op[c] = "Run" \/ (op[c] = "Shutdown" /\ flag[c] = FALSE)

\* Run or the claiming Shutdown leads, alone, until it has closed the runtime.
LeadInv ==
    /\ started = FALSE \/ claimed = FALSE
    /\ started = TRUE \/ claimed = TRUE => state # "new"
    /\ state = "running" => started = TRUE
    /\ \A c \in Callers : Lead(c) => IF op[c] = "Run" THEN started = TRUE ELSE claimed = TRUE
    /\ \A c, d \in Callers : Lead(c) /\ Lead(d) => c = d
    /\ \A c \in Callers : Lead(c) /\ pc[c] # "close" => state # "closed"
    /\ \A c \in Callers : pc[c] = "close" => state = "closed"
    /\ done = TRUE => state = "closed"
    /\ started = FALSE /\ claimed = FALSE => \A s \in Services : stop[s] = "no"
    /\ \A c \in Callers : Lead(c) /\ pc[c] \notin Owning \ {"stop"} => \A s \in Services : stop[s] = "no"

VerdictInv ==
    /\ \A c \in Callers : pc[c] \in {"mark", "close"} => err[c] = shutdownErr
    /\ SameVerdict

\* The error of a Run is empty until it drains.
ErrInv ==
    \A c \in Callers : op[c] = "Run" =>
        /\ pc[c] \in {"call", "select"} \cup Judging => err[c] = {}
        /\ pc[c] # "returned" => "refused" \notin err[c]

RanInv ==
    /\ \A c, d \in Callers : Ran(c) /\ Ran(d) => c = d
    /\ \A c \in Callers : Ran(c) => started = TRUE

\* The goroutines of the services.
PhaseInv ==
    \A s \in Services :
        /\ phase[s] # "new" => started = TRUE
        /\ phase[s] \in {"new", "up"} => result[s] = "nil" /\ s \notin results

\* The failure of a service is in the channel, in Run's hands or in its error.
FoundInv ==
    \A c \in Callers : Ran(c) => \A s \in Services : result[s] = "failure" =>
        \/ s \in results
        \/ item[c] = s /\ pc[c] \in Judging
        \/ "service" \in err[c]

\* What Run gave up on is in its error.
CleanInv ==
    \A c \in Callers : Ran(c) =>
        /\ pc[c] \in {"collect", "returned"} \cup Owning =>
              "timeout" \in err[c] \/ \A s \in Services : phase[s] = "done"
        /\ pc[c] \in {"returned"} \cup Owning => "timeout" \in err[c] \/ results = {}
        /\ pc[c] \in {"store", "mark", "close", "returned"} =>
              "stop" \in err[c] \/ \A s \in Services : stop[s] = "ok"

\* The service whose result Run holds has returned, late or not for good.
LateInv ==
    /\ DrainedIsExpected
    /\ \A c \in Callers :
        /\ op[c] # "Run" => item[c] = NoService
        /\ op[c] = "Run" /\ (pc[c] \in Judging \/ "unexpected" \in err[c]) =>
              item[c] \in Services /\ phase[item[c]] \notin {"new", "up"}
        /\ op[c] = "Run" /\ pc[c] = "judge" /\ flag[c] = FALSE => item[c] \notin late

IInv ==
    /\ Shape /\ DrainInv /\ OwnerInv /\ LeadInv /\ VerdictInv
    /\ ErrInv /\ RanInv /\ PhaseInv /\ FoundInv /\ CleanInv /\ LateInv

\* No other Run is accepted, and what a Run has collected stays.
RanGoesOn == started' = started /\ \A d \in Callers : Ran(d)' => Ran(d) /\ err[d] \subseteq err'[d]

-----------------------------------------------------------------------------
(* What the steps do, one call at a time.                                  *)

Others(c) ==
    /\ setup' = setup
    /\ \A d \in Callers : d # c =>
          pc'[d] = pc[d] /\ err'[d] = err[d] /\ flag'[d] = flag[d] /\ item'[d] = item[d]

\* The error of the call gains a reason.
Adds(c,
     reason) == err[c] \subseteq err'[c] /\ err'[c] \subseteq err[c] \cup {reason} /\ reason \in err'[c]

RunTurn(c) ==
    /\ op[c] = "Run" /\ results' = results /\ done' = done /\ item'[c] = item[c]
    /\ \/ pc[c] = "call" /\ pc'[c] = "returned" /\ err'[c] = {"refused"}
       \/ pc[c] = "select" /\ pc'[c] = "drain" /\ err'[c] = err[c]
       \/ /\ pc[c] = "read state" /\ pc'[c] = "judge" /\ err'[c] = err[c]
          /\ flag'[c] = FALSE => state # "draining"
       \/ /\ pc[c] = "judge" /\ pc'[c] = "drain"
          /\ \/ Adds(c, "service")
             \/ err'[c] = err[c] /\ result[item[c]] # "failure"
             \/ Adds(c, "unexpected") /\ result[item[c]] # "failure" /\ flag[c] = FALSE
       \/ /\ pc[c] = "drain" /\ pc'[c] = "wait" /\ once = "done"
          /\ err'[c] = err[c] \/ Adds(c, "drain")
       \/ /\ pc[c] = "wait" /\ pc'[c] = "collect"
          /\ \/ err'[c] = err[c] /\ \A s \in Services : phase[s] = "done"
             \/ Adds(c, "timeout")
       \/ pc[c] = "collect" /\ pc'[c] = "stop" /\ err'[c] = err[c] /\ results = {}

\* Run takes a result from the channel.
TakeTurn(c) ==
    /\ op[c] = "Run" /\ done' = done /\ flag'[c] = flag[c]
    /\ \E s \in Services :
          /\ s \in results /\ results' = results \ {s}
          /\ \/ pc[c] = "select" /\ pc'[c] = "read state" /\ item'[c] = s /\ err'[c] = err[c]
             \/ /\ pc[c] = "collect" /\ pc'[c] = "collect" /\ item'[c] = item[c]
                /\ \/ err'[c] = err[c] /\ result[s] # "failure"
                   \/ Adds(c, "service")

OwnerTurn(c) ==
    /\ results' = results /\ item'[c] = item[c] /\ flag'[c] = flag[c]
    /\ \/ /\ pc[c] = "stopping" /\ pc'[c] = "store" /\ done' = done
          /\ \/ err'[c] = err[c] /\ \A s \in Services : stop[s] = "ok"
             \/ Adds(c, "stop")
       \/ pc[c] = "close" /\ pc'[c] = "returned" /\ err'[c] = err[c]

ShutdownTurn(c) ==
    /\ op[c] = "Shutdown" /\ results' = results /\ done' = done /\ item'[c] = item[c] /\ flag'[c] = flag[c]
    /\ \/ pc[c] = "call" /\ pc'[c] = "returned" /\ state = "closed" /\ err'[c] = shutdownErr
       \/ pc[c] = "drain" /\ once = "done" /\ pc'[c] = IF flag[c] = TRUE THEN "await" ELSE "stop"
       \/ pc[c] = "await" /\ pc'[c] = "returned" /\ done = TRUE /\ err'[c] = shutdownErr
       \/ pc[c] = "await" /\ pc'[c] = "returned" /\ err'[c] = {"ctx"}

\* The health checks, and BeginDrain apart from the drain itself.
AsideTurn(c) ==
    /\ op[c] \notin {"Run", "Shutdown"}
    /\ results' = results /\ done' = done /\ item'[c] = item[c]
    /\ pc'[c] \in {"drain", "checking", "recheck", "returned"}
    /\ op[c] = "Readiness" /\ pc'[c] = "returned" /\ err'[c] = {} => state = "running"

\* A step of a call that changes nothing of the lifecycle or the services but the
\* end of the context, the done channel at the end of the owner.
Turn(c) ==
    /\ Others(c)
    /\ UNCHANGED <<state, started, claimed, shutdownErr, drainErr, once, drain>>
    /\ UNCHANGED <<phase, result, asked, late, stop>>
    /\ ctx' = ctx \/ ctx' # "live"
    /\ RunTurn(c) \/ TakeTurn(c) \/ OwnerTurn(c) \/ ShutdownTurn(c) \/ AsideTurn(c)

\* A step of beginDrain, as all but the drain see it.
DrainTurn(c) ==
    /\ Others(c)
    /\ pc[c] \in Drains /\ pc'[c] \in Drains
    /\ err'[c] = err[c] /\ flag'[c] = flag[c] /\ item'[c] = item[c]
    /\ state' = state \/ (state # "closed" /\ state' = "draining")
    /\ UNCHANGED <<started, claimed, shutdownErr, done, phase, result, results, late, stop>>

\* A step of a service.
ServiceTurn ==
    /\ UNCHANGED <<state, started, claimed, shutdownErr, drainErr, once, drain, done, ctx, calls, asked>>
    /\ \E s \in Services :
          \/ /\ phase[s] = "up" /\ phase' = [phase EXCEPT ![s] = "sent"]
             /\ results' = results \cup {s} /\ late' \subseteq late \cup {s} /\ stop' = stop
             /\ \E exit : result' = [result EXCEPT ![s] = exit]
          \/ /\ phase[s] = "sent" /\ phase' = [phase EXCEPT ![s] = "done"]
             /\ UNCHANGED <<result, results, late, stop>>
          \/ /\ stop[s] = "called" /\ UNCHANGED <<phase, result, results, late>>
             /\ \E how \in {"ok", "failed"} : stop' = [stop EXCEPT ![s] = how]

\* The steps that are turns.
LEMMA Turns ==
    ASSUME Shape, NEW c \in Callers,
           \/ RunRefused(c) \/ SelectDone(c) \/ ReadState(c) \/ JudgeResult(c) \/ RunDrained(c)
           \/ WorkersStopped(c) \/ WaitTimesOut(c) \/ ResultsCollected(c)
           \/ \E s \in Services : SelectResult(c, s) \/ CollectResult(c, s)
           \/ ServicesStopped(c) \/ StopTimesOut(c) \/ CloseDone(c)
           \/ ShutdownClosed(c) \/ ShutdownDrained(c) \/ ShutdownSeesDone(c) \/ ShutdownTimesOut(c)
           \/ ProbeStarts(c) \/ ProbeServices(c) \/ ProbeReturns(c)
           \/ BeginDrain(c) /\ UNCHANGED <<lifecycle, services, setup, flag, item>>
    PROVE  Turn(c) /\ Shape'
<1> USE DEF Shape, Turn, Others, Adds, lifecycle, services, Services
<1>1. CASE RunRefused(c)
      BY ZenonT(30), <1>1 DEF RunRefused, At, Return, Goto, Cancelled, RunTurn
<1>2. CASE SelectDone(c) BY ZenonT(30), <1>2 DEF SelectDone, At, Goto, Flag, RunTurn
<1>3. CASE ReadState(c) BY ZenonT(30), <1>3 DEF ReadState, At, Goto, Flag, RunTurn
<1>4. CASE JudgeResult(c)
      BY ZenonT(30), <1>4 DEF JudgeResult, At, Goto, Collect, Verdict, Failed, Expected,
          RunTurn
<1>5. CASE RunDrained(c)
      BY ZenonT(30), <1>5 DEF RunDrained, Drained, DrainReasons, Goto, Collect, Cancelled,
          RunTurn
<1>6. CASE WorkersStopped(c) BY ZenonT(30), <1>6 DEF WorkersStopped, At, Goto, RunTurn
<1>7. CASE WaitTimesOut(c)
      BY ZenonT(30), <1>7 DEF WaitTimesOut, At, Goto, Collect, Cancelled, RunTurn
<1>8. CASE ResultsCollected(c) BY <1>8 DEF ResultsCollected, At, Goto, RunTurn
<1>9. CASE ServicesStopped(c)
      BY ZenonT(30), <1>9 DEF ServicesStopped, Goto, Collect, Cancelled, OwnerTurn
<1>10. CASE StopTimesOut(c)
      BY ZenonT(30), <1>10 DEF StopTimesOut, Goto, Collect, Cancelled, OwnerTurn
<1>11. CASE CloseDone(c) BY <1>11 DEF CloseDone, Goto, OwnerTurn
<1>12. CASE ShutdownClosed(c)
      BY ZenonT(30), <1>12 DEF ShutdownClosed, At, Return, Goto, ShutdownTurn
<1>13. CASE ShutdownDrained(c)
      BY ZenonT(30), <1>13 DEF ShutdownDrained, Drained, Goto, Collect, ShutdownTurn
<1>14. CASE ShutdownSeesDone(c)
      BY ZenonT(30), <1>14 DEF ShutdownSeesDone, At, Return, Goto, ShutdownTurn
<1>15. CASE ShutdownTimesOut(c)
      BY ZenonT(30), <1>15 DEF ShutdownTimesOut, At, Return, Goto, Cancelled, ShutdownTurn
<1>16. CASE ProbeStarts(c) BY ZenonT(30), <1>16 DEF ProbeStarts, Probe, Healthy, Return, Goto, AsideTurn
<1>17. CASE ProbeServices(c) BY <1>17 DEF ProbeServices, Probe, Flag, Goto, AsideTurn
<1>18. CASE ProbeReturns(c)
      BY ZenonT(30), <1>18 DEF ProbeReturns, Probe, Healthy, Return, Goto, AsideTurn
<1>19. CASE BeginDrain(c) /\ UNCHANGED <<lifecycle, services, setup, flag, item>>
  <2>1. CASE At(c, "BeginDrain", "call") /\ Goto(c, "drain") /\ UNCHANGED err
    BY ZenonT(30), <1>19, <2>1 DEF At, Goto, AsideTurn
  <2>2. CASE op[c] = "BeginDrain" /\ Return(c, {})
    BY ZenonT(30), <1>19, <2>2 DEF Return, Goto, AsideTurn
  <2> QED BY <1>19, <2>1, <2>2 DEF BeginDrain
<1>20. ASSUME NEW s \in Services, SelectResult(c, s) PROVE Turn(c) /\ Shape'
  BY ZenonT(30), <1>20 DEF SelectResult, At, Goto, TakeTurn
<1>21. ASSUME NEW s \in Services, CollectResult(c, s) PROVE Turn(c) /\ Shape'
  BY ZenonT(30), <1>21 DEF CollectResult, At, Collect, Failed, Expected, TakeTurn
<1> QED
      BY ZenonT(30), <1>1, <1>2, <1>3, <1>4, <1>5, <1>6, <1>7, <1>8, <1>9, <1>10, <1>11,
          <1>12,
   <1>13, <1>14,
     <1>15, <1>16, <1>17, <1>18, <1>19, <1>20, <1>21

\* The steps of beginDrain are drain turns.
LEMMA DrainTurns ==
    ASSUME Shape, NEW c \in Callers,
           EnterDrain(c) \/ DrainAsked(c) \/ CloseDrain(c) \/ \E s \in Services : DrainService(c, s)
    PROVE  DrainTurn(c) /\ Shape'
<1> USE DEF Shape, DrainTurn, Others, Drains, services, Services
<1>1. CASE EnterDrain(c) BY <1>1 DEF EnterDrain, Goto
<1>2. CASE DrainAsked(c) BY ZenonT(30), <1>2 DEF DrainAsked, Goto
<1>3. CASE CloseDrain(c) BY ZenonT(30), <1>3 DEF CloseDrain, Goto
<1>4. ASSUME NEW s \in Services, DrainService(c, s) PROVE DrainTurn(c) /\ Shape'
  BY ZenonT(30), <1>4 DEF DrainService, calls
<1> QED BY ZenonT(30), <1>1, <1>2, <1>3, <1>4

\* The steps of the services.
LEMMA ServiceTurns ==
    ASSUME Shape, NEW s \in Services,
           WorkerDone(s) \/ StopReturns(s) \/ \E exit \in Exits : ServiceReturns(s, exit)
    PROVE  ServiceTurn /\ Shape'
<1> USE DEF Shape, ServiceTurn, lifecycle, Services
<1>1. CASE WorkerDone(s) BY ZenonT(30), <1>1 DEF WorkerDone, calls
<1>2. CASE StopReturns(s) BY ZenonT(30), <1>2 DEF StopReturns, calls
<1>3. ASSUME NEW exit, ServiceReturns(s, exit) PROVE ServiceTurn /\ Shape'
  BY ZenonT(30), <1>3 DEF ServiceReturns, calls
<1> QED BY ZenonT(30), <1>1, <1>2, <1>3

\* Every step is one of these.
LEMMA Steps ==
    ASSUME Shape, Next
    PROVE  \/ ServiceTurn \/ ParentDone
           \/ \E c \in Callers :
                 \/ Turn(c) \/ DrainTurn(c) \/ StopServices(c) \/ StoreVerdict(c) \/ MarkClosed(c)
                 \/ RunStarts(c) \/ ShutdownStarts(c)
  BY Turns, DrainTurns, ServiceTurns DEF Next, Advance, Timeout, Deadline

\* The maps stay maps and the flags Booleans.
LEMMA ShapeKept ==
    ASSUME Shape, Next
    PROVE  Shape'
<1> USE DEF Shape, Services
<1>1. ASSUME NEW c \in Callers, StopServices(c) PROVE Shape'
      BY <1>1 DEF StopServices, Goto, lifecycle
<1>2. ASSUME NEW c \in Callers, StoreVerdict(c) \/ MarkClosed(c) PROVE Shape'
  BY <1>2 DEF StoreVerdict, MarkClosed, Goto, services
<1>3. ASSUME NEW c \in Callers, RunStarts(c) PROVE Shape'
      BY ZenonT(30), <1>3 DEF RunStarts, Goto
<1>4. ASSUME NEW c \in Callers, ShutdownStarts(c) PROVE Shape'
  BY ZenonT(30), <1>4 DEF ShutdownStarts, Goto, Flag, services
<1>5. ParentDone => Shape' BY DEF ParentDone, services, calls
<1> HIDE DEF Shape, Services
<1> QED BY <1>1, <1>2, <1>3, <1>4, <1>5, Turns, DrainTurns, ServiceTurns DEF Next, Advance,
     Timeout, Deadline

\* Only the owner comes to the steps that stop the services and close the runtime.
LEMMA OwnerKept ==
    ASSUME IInv, Next
    PROVE  OwnerInv'
<1> USE DEF IInv, Shape, OwnerInv, Owning, op
<1>1. ASSUME NEW c \in Callers, Turn(c) PROVE OwnerInv'
  BY ZenonT(60), <1>1 DEF Turn, Others, RunTurn, TakeTurn, OwnerTurn, ShutdownTurn, AsideTurn
<1>2. ASSUME NEW c \in Callers, DrainTurn(c) PROVE OwnerInv'
      BY ZenonT(30), <1>2 DEF DrainTurn, Others, Drains
<1>3. ASSUME NEW c \in Callers, StopServices(c) \/ StoreVerdict(c) \/ MarkClosed(c) PROVE OwnerInv'
  BY <1>3 DEF StopServices, StoreVerdict, MarkClosed, Goto
<1>4. ASSUME NEW c \in Callers, RunStarts(c) \/ ShutdownStarts(c) PROVE OwnerInv'
  BY <1>4 DEF RunStarts, ShutdownStarts, At, Goto, Flag
<1>5. ASSUME ServiceTurn \/ ParentDone PROVE OwnerInv'
      BY <1>5 DEF ServiceTurn, ParentDone, calls
<1> HIDE DEF IInv, Shape, OwnerInv, Owning, op
<1> QED BY <1>1, <1>2, <1>3, <1>4, <1>5, Steps DEF IInv

\* A service runs only under a Run, and has a result only when it returned.
LEMMA PhaseKept ==
    ASSUME IInv, Next
    PROVE  PhaseInv'
<1> USE DEF IInv, Shape, PhaseInv, Services
<1>1. ASSUME NEW c \in Callers, Turn(c) PROVE PhaseInv'
  BY ZenonT(30), <1>1 DEF Turn, Others, RunTurn, TakeTurn, OwnerTurn, ShutdownTurn, AsideTurn
<1>2. ASSUME NEW c \in Callers, DrainTurn(c) PROVE PhaseInv'
      BY ZenonT(30), <1>2 DEF DrainTurn, Others
<1>3. ASSUME NEW c \in Callers, StopServices(c) \/ StoreVerdict(c) \/ MarkClosed(c) PROVE PhaseInv'
  BY <1>3 DEF StopServices, StoreVerdict, MarkClosed, lifecycle, services
<1>4. ASSUME NEW c \in Callers, RunStarts(c) PROVE PhaseInv'
      BY ZenonT(30), <1>4 DEF RunStarts, LeadInv
<1>5. ASSUME NEW c \in Callers, ShutdownStarts(c) PROVE PhaseInv'
  BY <1>5 DEF ShutdownStarts, services
<1>6. ASSUME ServiceTurn PROVE PhaseInv' BY ZenonT(30), <1>6 DEF ServiceTurn, calls
<1>7. ASSUME ParentDone PROVE PhaseInv' BY <1>7 DEF ParentDone, services, calls
<1> HIDE DEF IInv, Shape, PhaseInv, Services
<1> QED BY <1>1, <1>2, <1>3, <1>4, <1>5, <1>6, <1>7, Steps DEF IInv

\* What the owner stores is what it returns, and what later calls of Shutdown get.
LEMMA VerdictKept ==
    ASSUME IInv, Next
    PROVE  VerdictInv'
<1> USE DEF IInv, Shape, VerdictInv, SameVerdict, op
<1>1. ASSUME NEW c \in Callers, Turn(c) PROVE VerdictInv'
  <2> SUFFICES /\ pc'[c] \in {"mark", "close"} => err'[c] = shutdownErr
               /\ pc'[c] = "returned" /\ op[c] \in {"Run", "Shutdown"} /\ err'[c] \notin {{"ctx"},
                    {"refused"}} =>
                     state = "closed" /\ err'[c] = shutdownErr
    BY <1>1 DEF Turn, Others
  <2>1. CASE RunTurn(c) BY ZenonT(30), <2>1 DEF RunTurn
  <2>2. CASE TakeTurn(c) BY ZenonT(30), <2>2 DEF TakeTurn
  <2>3. CASE OwnerTurn(c) BY <2>3 DEF OwnerTurn, LeadInv
  <2>4. CASE ShutdownTurn(c) BY <2>4 DEF ShutdownTurn, LeadInv
  <2>5. CASE AsideTurn(c) BY <2>5 DEF AsideTurn
  <2> QED BY <1>1, <2>1, <2>2, <2>3, <2>4, <2>5 DEF Turn
<1>2. ASSUME NEW c \in Callers, DrainTurn(c) PROVE VerdictInv'
      BY ZenonT(30), <1>2 DEF DrainTurn, Others, Drains
<1>3. ASSUME NEW c \in Callers, StoreVerdict(c) PROVE VerdictInv'
  <2>1. Lead(c) /\ pc[c] = "store"
        BY <1>3 DEF StoreVerdict, OwnerInv, Lead, RunAt, Drawn, Owning
  <2>2. \A d \in Callers : pc[d] \in {"mark", "close"} => d = c
    BY <2>1 DEF OwnerInv, LeadInv, Lead, RunAt, Drawn, Owning
  <2>3. state # "closed" BY <2>1 DEF LeadInv
  <2> QED BY <1>3, <2>1, <2>2, <2>3 DEF StoreVerdict, Goto
<1>4. ASSUME NEW c \in Callers, StopServices(c) \/ MarkClosed(c) PROVE VerdictInv'
  BY <1>4 DEF StopServices, MarkClosed, Goto, lifecycle
<1>5. ASSUME NEW c \in Callers, RunStarts(c) \/ ShutdownStarts(c) PROVE VerdictInv'
  BY <1>5 DEF RunStarts, ShutdownStarts, At, Goto
<1>6. ASSUME ServiceTurn \/ ParentDone PROVE VerdictInv'
      BY <1>6 DEF ServiceTurn, ParentDone, calls
<1> HIDE DEF IInv, Shape, VerdictInv, SameVerdict, op
<1> QED BY <1>1, <1>2, <1>3, <1>4, <1>5, <1>6, Steps DEF IInv

\* A Run that was accepted is not reported as refused.
LEMMA ErrKept ==
    ASSUME IInv, Next
    PROVE  ErrInv'
<1> USE DEF IInv, Shape, ErrInv, op, Judging
<1>1. ASSUME NEW c \in Callers, Turn(c) PROVE ErrInv'
  <2>1. CASE op[c] # "Run" BY ZenonT(30), <1>1, <2>1 DEF Turn, Others
  <2>2. CASE op[c] = "Run"
    <3>1. "refused" \notin err'[c] \/ pc'[c] = "returned"
      <4>1. pc[c] # "returned" => "refused" \notin err[c] BY ZenonT(30), <2>2
      <4> HIDE DEF IInv, Shape, ErrInv
      <4>2. CASE RunTurn(c) BY ZenonT(30), <4>1, <4>2 DEF RunTurn, Adds
      <4>3. CASE TakeTurn(c) BY ZenonT(30), <4>1, <4>3 DEF TakeTurn, Adds
      <4>4. CASE OwnerTurn(c) BY <4>1, <4>4 DEF OwnerTurn, Adds
      <4> QED BY <1>1, <2>2, <4>2, <4>3, <4>4 DEF Turn, ShutdownTurn, AsideTurn
    <3>2. pc'[c] \in {"call", "select", "read state", "judge"} => err'[c] = {}
      BY ZenonT(30), <1>1, <2>2 DEF Turn, RunTurn, TakeTurn, OwnerTurn, ShutdownTurn,
          AsideTurn
    <3> QED BY ZenonT(30), <1>1, <2>2, <3>1, <3>2 DEF Turn, Others
  <2> QED BY ZenonT(30), <2>1, <2>2
<1>2. ASSUME NEW c \in Callers, DrainTurn(c) PROVE ErrInv'
      BY ZenonT(30), <1>2 DEF DrainTurn, Others, Drains
<1>3. ASSUME NEW c \in Callers, StopServices(c) \/ StoreVerdict(c) \/ MarkClosed(c) PROVE ErrInv'
  BY ZenonT(30), <1>3 DEF StopServices, StoreVerdict, MarkClosed, Goto
<1>4. ASSUME NEW c \in Callers, RunStarts(c) \/ ShutdownStarts(c) PROVE ErrInv'
  BY ZenonT(30), <1>4 DEF RunStarts, ShutdownStarts, At, Goto
<1>5. ASSUME ServiceTurn \/ ParentDone PROVE ErrInv'
      BY ZenonT(30), <1>5 DEF ServiceTurn, ParentDone, calls
<1> HIDE DEF IInv, Shape, ErrInv, op, Judging
<1> QED BY <1>1, <1>2, <1>3, <1>4, <1>5, Steps DEF IInv

\* The drain: sync.Once lets one call ask the services, the channel is closed after
\* the last of them, and nobody goes on to stop the services before that.
LEMMA DrainKept ==
    ASSUME IInv, Next
    PROVE  DrainInv'
<1> USE DEF IInv, Shape, DrainInv, Drawn, Owning, Services
<1>1. ASSUME NEW c \in Callers, Turn(c) PROVE DrainInv'
  <2>1. \A d \in Callers : pc'[d] \in {"draining", "draining close"} => pc'[d] = pc[d]
    BY ZenonT(30), <1>1 DEF Turn, Others, RunTurn, TakeTurn, OwnerTurn, ShutdownTurn,
        AsideTurn
  <2>2. \A d \in Callers : pc'[d] \in Drawn => once = "done"
    BY ZenonT(30), <1>1 DEF Turn, Others, RunTurn, TakeTurn, OwnerTurn, ShutdownTurn,
        AsideTurn
  <2> QED BY ZenonT(60), <1>1, <2>1, <2>2 DEF Turn, Others
<1>2. ASSUME NEW c \in Callers, EnterDrain(c) \/ CloseDrain(c) PROVE DrainInv'
  BY ZenonT(60), <1>2 DEF EnterDrain, CloseDrain, Goto, services
<1>3. ASSUME NEW c \in Callers, DrainAsked(c) PROVE DrainInv'
  BY ZenonT(30), <1>3 DEF DrainAsked, Goto, Cancelled, services
<1>4. ASSUME NEW c \in Callers, NEW s \in Services, DrainService(c, s) PROVE DrainInv'
  BY ZenonT(30), <1>4 DEF DrainService, calls
<1>5. ASSUME NEW c \in Callers, StopServices(c) PROVE DrainInv'
  BY ZenonT(30), <1>5 DEF StopServices, Goto, lifecycle
<1>6. ASSUME NEW c \in Callers, StoreVerdict(c) \/ MarkClosed(c) PROVE DrainInv'
  BY ZenonT(30), <1>6 DEF StoreVerdict, MarkClosed, Goto, services
<1>7. ASSUME NEW c \in Callers, RunStarts(c) PROVE DrainInv'
      BY ZenonT(30), <1>7 DEF RunStarts, Goto
<1>8. ASSUME NEW c \in Callers, ShutdownStarts(c) PROVE DrainInv'
  BY ZenonT(30), <1>8 DEF ShutdownStarts, Goto, services
<1>9. ASSUME ServiceTurn PROVE DrainInv' BY ZenonT(30), <1>9 DEF ServiceTurn, calls
<1>10. ASSUME ParentDone PROVE DrainInv' BY ZenonT(30), <1>10 DEF ParentDone, services, calls
<1> HIDE DEF IInv, Shape, DrainInv, Drawn, Owning, Services
<1> QED BY <1>1, <1>2, <1>3, <1>4, <1>5, <1>6, <1>7, <1>8, <1>9, <1>10, Turns, ServiceTurns
    DEF IInv, Next, Advance, Timeout, Deadline

\* One call leads: Run when it starts, or the first Shutdown of a runtime that
\* never ran; the runtime is closed by it and by no other.
LEMMA LeadKept ==
    ASSUME IInv, Next
    PROVE  LeadInv'
<1> USE DEF IInv, Shape, Services, op
<1>1. ASSUME NEW c \in Callers, Turn(c) \/ DrainTurn(c) PROVE LeadInv'
  <2>1. \A d \in Callers : Lead(d)' =>
            /\ Lead(d)
            /\ pc[d] \in Owning \ {"stop"} => pc'[d] \in Owning \ {"stop"}
            /\ pc[d] = "close" => pc'[d] = "close"
    <3> USE DEF Lead, RunAt, Drains, Judging, Drawn, Owning
    <3>1. CASE DrainTurn(c) BY ZenonT(60), <3>1 DEF DrainTurn, Others
    <3>2. CASE Others(c) /\ (RunTurn(c) \/ TakeTurn(c))
          BY ZenonT(60), <3>2 DEF Others, RunTurn, TakeTurn
    <3>3. CASE Others(c) /\ (OwnerTurn(c) \/ ShutdownTurn(c) \/ AsideTurn(c))
      BY ZenonT(60), <3>3 DEF Others, OwnerTurn, ShutdownTurn, AsideTurn
    <3> QED BY ZenonT(30), <1>1, <3>1, <3>2, <3>3 DEF Turn
  <2>2. \A d \in Callers : pc'[d] = "close" => pc[d] = "close"
    BY ZenonT(30), <1>1
       DEF DrainTurn, Drains, Turn, Others, RunTurn, TakeTurn, OwnerTurn, ShutdownTurn,
           AsideTurn
  <2>3. /\ UNCHANGED <<started, claimed, stop, setup>>
        /\ state' = state \/ (state # "closed" /\ state' = "draining")
    BY <1>1 DEF Turn, DrainTurn, Others
  <2>4. done' = TRUE => done = TRUE \/ state = "closed"
    BY ZenonT(30), <1>1
       DEF LeadInv, Turn, RunTurn, TakeTurn, OwnerTurn, ShutdownTurn, AsideTurn, DrainTurn
  <2> QED BY ZenonT(30), <2>1, <2>2, <2>3, <2>4 DEF LeadInv, Owning
<1>2. ASSUME NEW c \in Callers, StopServices(c) \/ StoreVerdict(c) \/ MarkClosed(c) PROVE LeadInv'
  <2>1. Lead(c)
        BY <1>2 DEF StopServices, StoreVerdict, MarkClosed, OwnerInv, Lead, RunAt, Drawn,
            Owning
  <2>2. \A d \in Callers : Lead(d)' => d = c
    BY <1>2, <2>1 DEF StopServices, StoreVerdict, MarkClosed, Goto, LeadInv, Lead
  <2>3. CASE StopServices(c)
        BY <2>1, <2>2, <2>3 DEF StopServices, Goto, lifecycle, LeadInv, Owning
  <2>4. CASE StoreVerdict(c)
        BY <2>1, <2>2, <2>4 DEF StoreVerdict, Goto, services, LeadInv, Owning
  <2>5. CASE MarkClosed(c) BY <2>1, <2>2, <2>5 DEF MarkClosed, Goto, services, LeadInv, Owning
  <2> QED BY <1>2, <2>3, <2>4, <2>5
<1>3. ASSUME NEW c \in Callers, RunStarts(c) PROVE LeadInv'
  <2>1. \A d \in Callers : Lead(d)' => d = c
    BY ZenonT(30), <1>3 DEF RunStarts, Goto, At, LeadInv, Lead, RunAt, Drains, Judging,
        Drawn, Owning
  <2>2. /\ pc'[c] = "select" /\ state' = "running" /\ started' = TRUE /\ claimed' = FALSE /\ op'[c] = "Run"
        /\ \A d \in Callers : d # c => pc'[d] = pc[d]
        /\ UNCHANGED <<done, stop, setup>> /\ started = FALSE /\ claimed = FALSE /\ done = FALSE
        /\ \A d \in Callers : pc[d] # "close"
    BY <1>3 DEF RunStarts, Goto, At, LeadInv
  <2> QED BY <2>1, <2>2 DEF LeadInv
<1>4. ASSUME NEW c \in Callers, ShutdownStarts(c) PROVE LeadInv'
  <2>1. CASE started = FALSE /\ claimed = FALSE
    <3>1. \A d \in Callers : Lead(d)' => d = c
      BY ZenonT(30), <1>4, <2>1
         DEF ShutdownStarts, Flag, Goto, At, LeadInv, Lead, RunAt, Drains, Judging,
           Drawn, Owning
    <3>2. /\ pc'[c] = "drain" /\ state' = "draining" /\ started' = FALSE /\ claimed' = TRUE
          /\ op'[c] = "Shutdown" /\ \A d \in Callers : d # c => pc'[d] = pc[d]
          /\ UNCHANGED <<done, stop, setup>>
      BY <1>4, <2>1 DEF ShutdownStarts, Goto, At, services
    <3>3. done = FALSE /\ \A d \in Callers : pc[d] # "close"
          BY <1>4 DEF ShutdownStarts, LeadInv
    <3> QED BY <2>1, <3>1, <3>2, <3>3 DEF LeadInv
  <2>2. CASE started = TRUE \/ claimed = TRUE
    <3>1. UNCHANGED <<state, started, claimed, done, stop, setup>>
      BY <1>4, <2>2 DEF ShutdownStarts, services
    <3>2. \A d \in Callers : Lead(d)' => Lead(d) /\ pc'[d] = pc[d]
      BY ZenonT(60), <1>4, <2>2
         DEF ShutdownStarts, Flag, Goto, At, LeadInv, Lead, RunAt, Drains, Judging,
           Drawn, Owning
    <3>3. \A d \in Callers : pc'[d] = "close" => pc[d] = "close"
          BY <1>4 DEF ShutdownStarts, Goto
    <3> QED BY ZenonT(30), <3>1, <3>2, <3>3 DEF LeadInv
  <2> QED BY ZenonT(30), <2>1, <2>2
<1>5. CASE ServiceTurn
  <2>1. \A d \in Callers : Lead(d)' <=> Lead(d) BY <1>5 DEF ServiceTurn, calls, Lead
  <2> QED BY ZenonT(30), <1>5, <2>1 DEF ServiceTurn, calls, LeadInv
<1>6. CASE ParentDone
  <2>1. \A d \in Callers : Lead(d)' <=> Lead(d) BY <1>6 DEF ParentDone, calls, Lead
  <2> QED BY ZenonT(30), <1>6, <2>1 DEF ParentDone, calls, services, LeadInv
<1> HIDE DEF Shape, Services, op
<1> QED BY <1>1, <1>2, <1>3, <1>4, <1>5, <1>6, Steps

\* Apart from the start of a Run, a call is an accepted Run only if it was.
LEMMA RanGoes ==
    ASSUME IInv, Next, \A c \in Callers : ~RunStarts(c)
    PROVE  RanGoesOn
<1> USE DEF RanGoesOn, Ran, op
<1>1. ASSUME NEW c \in Callers, Turn(c) PROVE RanGoesOn
  <2>1. CASE RunTurn(c) BY ZenonT(30), <1>1, <2>1 DEF Turn, Others, RunTurn, Adds
  <2>2. CASE TakeTurn(c) BY ZenonT(30), <1>1, <2>2 DEF Turn, Others, TakeTurn, Adds
  <2>3. CASE OwnerTurn(c) BY <1>1, <2>3 DEF Turn, Others, OwnerTurn, Adds
  <2>4. CASE ShutdownTurn(c) \/ AsideTurn(c)
        BY <1>1, <2>4 DEF Turn, Others, ShutdownTurn, AsideTurn
  <2> QED BY <1>1, <2>1, <2>2, <2>3, <2>4 DEF Turn
<1>2. ASSUME NEW c \in Callers, DrainTurn(c) PROVE RanGoesOn
      BY ZenonT(30), <1>2 DEF DrainTurn, Others, Drains
<1>3. ASSUME NEW c \in Callers, StopServices(c) \/ StoreVerdict(c) \/ MarkClosed(c) PROVE RanGoesOn
  BY <1>3 DEF IInv, Shape, StopServices, StoreVerdict, MarkClosed, Goto, lifecycle
<1>4. ASSUME NEW c \in Callers, ShutdownStarts(c) PROVE RanGoesOn
  BY <1>4 DEF IInv, Shape, ShutdownStarts, At, Goto
<1>5. ServiceTurn \/ ParentDone => RanGoesOn BY DEF ServiceTurn, ParentDone, calls
<1> HIDE DEF RanGoesOn
<1> QED BY <1>1, <1>2, <1>3, <1>4, <1>5, Steps DEF IInv

\* While a Run is in a step of its own no other call is an accepted Run.
LEMMA RanAlone ==
    ASSUME IInv, NEW c \in Callers, op[c] = "Run", pc[c] \notin {"call", "returned"}
    PROVE  \A d \in Callers : Ran(d) => d = c
  BY DEF IInv, ErrInv, RanInv, Ran

\* No service is NoService.
LEMMA Unnamed ==
    ASSUME Shape
    PROVE  NoService \notin Services /\ NoService \notin late
<1>1. setup.services \in SUBSET AllServices BY RuntimeAssumption DEF Shape
<1> QED BY <1>1, RuntimeAssumption DEF Shape, Services

\* No failure is dropped between the channel and the error of Run.
LEMMA FoundKept ==
    ASSUME IInv, Next, RanGoesOn, \A c \in Callers : ~RunStarts(c)
    PROVE  FoundInv'
<1> USE DEF IInv, Shape, FoundInv, RanGoesOn, Judging, Services
<1>1. ASSUME NEW c \in Callers, Turn(c) PROVE FoundInv'
  <2> SUFFICES ASSUME NEW d \in Callers, Ran(d), Ran(d)', err[d] \subseteq err'[d],
                      NEW s \in Services, result[s] = "failure"
               PROVE  \/ s \in results' \/ "service" \in err'[d]
                      \/ item'[d] = s /\ pc'[d] \in Judging
    BY ZenonT(30), <1>1 DEF Turn, Others
  <2>1. CASE RunTurn(c) BY ZenonT(30), <1>1, <2>1 DEF Turn, Others, RunTurn, Adds, Ran
  <2>2. CASE TakeTurn(c)
    <3>1. d = c BY ZenonT(30), <2>2, RanAlone DEF TakeTurn
    <3> QED BY ZenonT(30), <1>1, <2>2, <3>1 DEF TakeTurn, Adds
  <2>3. CASE OwnerTurn(c) BY ZenonT(30), <1>1, <2>3 DEF Turn, Others, OwnerTurn
  <2>4. CASE ShutdownTurn(c) \/ AsideTurn(c)
        BY ZenonT(30), <1>1, <2>4 DEF Turn, Others, ShutdownTurn, AsideTurn, Ran
  <2> QED BY ZenonT(30), <1>1, <2>1, <2>2, <2>3, <2>4 DEF Turn
<1>2. ASSUME NEW c \in Callers, DrainTurn(c) PROVE FoundInv'
      BY ZenonT(30), <1>2 DEF DrainTurn, Others, Drains
<1>3. ASSUME NEW c \in Callers, StopServices(c) \/ StoreVerdict(c) \/ MarkClosed(c) PROVE FoundInv'
  BY ZenonT(30), <1>3 DEF StopServices, StoreVerdict, MarkClosed, Goto, services
<1>4. ASSUME NEW c \in Callers, ShutdownStarts(c) PROVE FoundInv'
  BY ZenonT(30), <1>4 DEF ShutdownStarts, At, Goto, services
<1>5. ASSUME ServiceTurn PROVE FoundInv' BY ZenonT(30), <1>5 DEF ServiceTurn, calls
<1>6. ASSUME ParentDone PROVE FoundInv' BY ZenonT(30), <1>6 DEF ParentDone, calls, services
<1> HIDE DEF IInv, Shape, FoundInv, RanGoesOn, Judging, Services
<1> QED BY <1>1, <1>2, <1>3, <1>4, <1>5, <1>6, Steps DEF IInv

\* Run goes on without the end of a service, or of its Shutdown, only with an error.
LEMMA CleanKept ==
    ASSUME IInv, Next, RanGoesOn, \A c \in Callers : ~RunStarts(c)
    PROVE  CleanInv'
<1> USE DEF IInv, Shape, CleanInv, RanGoesOn, Owning, Services
<1>1. ASSUME NEW c \in Callers, Turn(c) PROVE CleanInv'
  <2> SUFFICES ASSUME NEW d \in Callers, Ran(d), Ran(d)', err[d] \subseteq err'[d]
               PROVE  /\ pc'[d] \in {"collect", "returned"} \cup Owning =>
                            "timeout" \in err'[d] \/ \A s \in Services : phase[s] = "done"
                      /\ pc'[d] \in {"returned"} \cup Owning => "timeout" \in err'[d] \/ results' = {}
                      /\ pc'[d] \in {"store", "mark", "close", "returned"} =>
                            "stop" \in err'[d] \/ \A s \in Services : stop[s] = "ok"
    BY ZenonT(30), <1>1 DEF Turn, Others
  <2>1. CASE RunTurn(c) BY ZenonT(30), <1>1, <2>1 DEF Turn, Others, RunTurn, Adds, Ran
  <2>2. CASE TakeTurn(c)
    <3>1. d = c BY ZenonT(30), <2>2, RanAlone DEF TakeTurn
    <3> QED BY ZenonT(30), <1>1, <2>2, <3>1 DEF TakeTurn
  <2>3. CASE OwnerTurn(c) BY ZenonT(30), <1>1, <2>3 DEF Turn, Others, OwnerTurn, Adds
  <2>4. CASE ShutdownTurn(c) \/ AsideTurn(c)
        BY ZenonT(30), <1>1, <2>4 DEF Turn, Others, ShutdownTurn, AsideTurn, Ran
  <2> QED BY ZenonT(30), <1>1, <2>1, <2>2, <2>3, <2>4 DEF Turn
<1>2. ASSUME NEW c \in Callers, DrainTurn(c) PROVE CleanInv'
      BY ZenonT(30), <1>2 DEF DrainTurn, Others, Drains
<1>3. ASSUME NEW c \in Callers, StopServices(c) PROVE CleanInv'
  <2>1. \A d \in Callers : Ran(d) => d = c
    <3>1. CASE op[c] = "Run" BY ZenonT(30), <1>3, <3>1, RanAlone DEF StopServices
    <3>2. CASE op[c] # "Run"
      <4>1. claimed = TRUE BY <1>3, <3>2 DEF StopServices, OwnerInv, LeadInv, Lead
      <4> QED BY ZenonT(30), <4>1 DEF LeadInv, RanInv
    <3> QED BY <3>1, <3>2
  <2> QED BY ZenonT(30), <1>3, <2>1 DEF StopServices, Goto
<1>4. ASSUME NEW c \in Callers, StoreVerdict(c) \/ MarkClosed(c) PROVE CleanInv'
  BY ZenonT(30), <1>4 DEF StoreVerdict, MarkClosed, Goto, services
<1>5. ASSUME NEW c \in Callers, ShutdownStarts(c) PROVE CleanInv'
  BY ZenonT(30), <1>5 DEF ShutdownStarts, At, Goto, services, Ran
<1>6. ASSUME ServiceTurn PROVE CleanInv' BY ZenonT(30), <1>6 DEF ServiceTurn, calls
<1>7. ASSUME ParentDone PROVE CleanInv' BY <1>7 DEF ParentDone, calls, services
<1> HIDE DEF IInv, Shape, CleanInv, RanGoesOn, Owning, Services
<1> QED BY <1>1, <1>2, <1>3, <1>4, <1>5, <1>6, <1>7, Steps DEF IInv

\* The state Run reads after a result tells whether the service was asked to drain.
LEMMA LateKept ==
    ASSUME IInv, Next, \A c \in Callers : ~RunStarts(c)
    PROVE  LateInv'
<1> USE DEF IInv, Shape, LateInv, DrainedIsExpected, Judging, Services, op
<1>1. ASSUME NEW c \in Callers, Turn(c) PROVE LateInv'
  <2> SUFFICES /\ "unexpected" \in err'[c] => item'[c] \notin late
               /\ op[c] # "Run" => item'[c] = NoService
               /\ op[c] = "Run" /\ (pc'[c] \in Judging \/ "unexpected" \in err'[c]) =>
                     item'[c] \in Services /\ phase[item'[c]] \notin {"new", "up"}
               /\ op[c] = "Run" /\ pc'[c] = "judge" /\ flag'[c] = FALSE => item'[c] \notin late
    BY ZenonT(30), <1>1 DEF Turn, Others
  <2>1. CASE RunTurn(c)
    <3>1. CASE pc[c] = "read state"
      <4>1. state # "closed" BY ZenonT(30), <2>1, <3>1 DEF RunTurn, LeadInv, Lead, RunAt
      <4>2. flag'[c] = FALSE => late = {}
            BY ZenonT(30), <2>1, <3>1, <4>1 DEF RunTurn, DrainInv
      <4> QED BY ZenonT(30), <2>1, <3>1, <4>2 DEF RunTurn
    <3>2. CASE pc[c] # "read state"
      <4>1. pc[c] = "judge" => err[c] = {} BY ZenonT(30), <2>1 DEF RunTurn, ErrInv
      <4> QED BY ZenonT(30), <2>1, <3>2, <4>1 DEF RunTurn, Adds
    <3> QED BY ZenonT(30), <3>1, <3>2
  <2>2. CASE TakeTurn(c)
    <3>1. pc[c] = "select" => err[c] = {} BY ZenonT(30), <2>2 DEF TakeTurn, ErrInv
    <3> QED BY ZenonT(30), <2>2, <3>1 DEF TakeTurn, Adds, PhaseInv
  <2>3. CASE OwnerTurn(c) BY ZenonT(30), <2>3 DEF OwnerTurn, Adds
  <2>4. CASE ShutdownTurn(c) \/ AsideTurn(c)
    <3>1. op[c] # "Run" /\ item'[c] = item[c] BY ZenonT(30), <2>4 DEF ShutdownTurn, AsideTurn
    <3>2. item'[c] = NoService /\ NoService \notin late BY ZenonT(30), <3>1, Unnamed
    <3> QED BY ZenonT(30), <3>1, <3>2
  <2> QED BY ZenonT(30), <1>1, <2>1, <2>2, <2>3, <2>4 DEF Turn
<1>2. ASSUME NEW c \in Callers, DrainTurn(c) PROVE LateInv'
      BY ZenonT(60), <1>2 DEF DrainTurn, Others, Drains
<1>3. ASSUME NEW c \in Callers, StopServices(c) \/ StoreVerdict(c) \/ MarkClosed(c) PROVE LateInv'
  BY ZenonT(30), <1>3 DEF StopServices, StoreVerdict, MarkClosed, Goto, services
<1>4. ASSUME NEW c \in Callers, ShutdownStarts(c) PROVE LateInv'
  <2>1. UNCHANGED <<setup, item, err, phase, late>>
        BY ZenonT(30), <1>4 DEF ShutdownStarts, services
  <2>2. op[c] # "Run" /\ \A d \in Callers : d # c => pc'[d] = pc[d] /\ flag'[d] = flag[d]
    BY ZenonT(30), <1>4 DEF ShutdownStarts, At, Goto, Flag
  <2> QED BY ZenonT(30), <2>1, <2>2
<1>5. ASSUME ServiceTurn PROVE LateInv'
  <2>1. UNCHANGED <<setup, pc, err, flag, item>> BY ZenonT(30), <1>5 DEF ServiceTurn, calls
  <2>2. \A s \in Services : phase[s] \notin {"new", "up"} =>
            phase'[s] \notin {"new", "up"} /\ (s \in late' => s \in late)
    BY ZenonT(30), <1>5 DEF ServiceTurn
  <2>3. NoService \notin Services BY ZenonT(30), Unnamed
  <2>4. NoService \notin late' BY ZenonT(30), <1>5, <2>3 DEF ServiceTurn
  <2> QED BY ZenonT(30), <2>1, <2>2, <2>4
<1>6. ASSUME ParentDone PROVE LateInv' BY ZenonT(30), <1>6 DEF ParentDone, calls, services
<1> HIDE DEF IInv, Shape, LateInv, DrainedIsExpected, Judging, Services, op
<1> QED BY <1>1, <1>2, <1>3, <1>4, <1>5, <1>6, Steps DEF IInv

\* The start of a Run, as the parts of the invariant on accepted Runs see it.
LEMMA StartKeeps ==
    ASSUME IInv, NEW c \in Callers, RunStarts(c)
    PROVE  RanInv' /\ FoundInv' /\ CleanInv' /\ LateInv'
<1>1. started = FALSE BY DEF RunStarts, IInv, Shape, LeadInv
<1>2. \A s \in Services : phase[s] = "new" /\ result[s] = "nil" BY <1>1 DEF IInv, PhaseInv
<1>3. \A d \in Callers : ~Ran(d) BY <1>1 DEF IInv, RanInv
<1>4. /\ op[c] = "Run" /\ pc[c] = "call" /\ pc'[c] = "select" /\ started' = TRUE
      /\ \A d \in Callers : d # c => pc'[d] = pc[d]
      /\ UNCHANGED <<setup, err, item, flag, result, late>>
  BY DEF RunStarts, At, Goto, IInv, Shape
<1>5. err[c] = {} BY <1>4 DEF IInv, ErrInv
<1>6. \A d \in Callers : Ran(d)' => d = c BY <1>3, <1>4 DEF Ran, op
<1>7. RanInv' BY <1>4, <1>6 DEF RanInv
<1>8. FoundInv' BY <1>2, <1>4 DEF FoundInv, Services
<1>9. CleanInv' BY <1>4, <1>6 DEF CleanInv, Owning
<1>10. LateInv'
  <2>1. \A d \in Callers : op[d] = "Run" => pc'[d] \notin Judging /\ "unexpected" \notin err[d]
    BY ZenonT(30), <1>2, <1>4, <1>5 DEF IInv, LateInv, Judging
  <2> QED
        BY ZenonT(30), <1>4, <2>1 DEF IInv, LateInv, DrainedIsExpected, op, Services, Judging
<1> QED BY <1>7, <1>8, <1>9, <1>10

\* IInv is an invariant of the runtime.
LEMMA Invariance == Spec => []IInv
<1>1. Init => IInv
  <2> SUFFICES ASSUME Init PROVE IInv OBVIOUS
  <2> USE DEF Init, Services, op
  <2>1. Shape BY ZenonT(30) DEF Shape
  <2>2. DrainInv BY DEF DrainInv, Drawn, Owning
  <2>3. OwnerInv BY DEF OwnerInv, Owning
  <2>4. LeadInv BY DEF LeadInv, Lead, RunAt, Drains, Judging, Drawn, Owning
  <2>5. VerdictInv BY DEF VerdictInv, SameVerdict
  <2>6. ErrInv BY DEF ErrInv
  <2>7. RanInv /\ FoundInv /\ CleanInv BY DEF RanInv, FoundInv, CleanInv, Ran
  <2>8. PhaseInv BY DEF PhaseInv
  <2>9. LateInv BY DEF LateInv, DrainedIsExpected, Judging
  <2> QED BY <2>1, <2>2, <2>3, <2>4, <2>5, <2>6, <2>7, <2>8, <2>9 DEF IInv
<1>2. IInv /\ [Next]_vars => IInv'
  <2> SUFFICES ASSUME IInv, [Next]_vars PROVE IInv' OBVIOUS
  <2>1. CASE Next
    <3>1. Shape' /\ DrainInv' /\ OwnerInv' /\ LeadInv' /\ VerdictInv' /\ ErrInv' /\ PhaseInv'
      BY <2>1, ShapeKept, DrainKept, OwnerKept, LeadKept, VerdictKept, ErrKept, PhaseKept
         DEF IInv
    <3>2. CASE \A c \in Callers : ~RunStarts(c)
      <4>1. RanGoesOn BY <2>1, <3>2, RanGoes DEF IInv
      <4>2. RanInv' BY <4>1 DEF IInv, RanInv, RanGoesOn
      <4>3. FoundInv' /\ CleanInv' /\ LateInv'
            BY <2>1, <3>2, <4>1, FoundKept, CleanKept, LateKept
      <4> QED BY <3>1, <4>2, <4>3 DEF IInv
    <3>3. CASE \E c \in Callers : RunStarts(c) BY <3>1, <3>3, StartKeeps DEF IInv
    <3> QED BY <3>2, <3>3
  <2>2. CASE UNCHANGED vars
    <3> USE <2>2 DEF vars, lifecycle, services, calls, Services, op
    <3>1. Shape' BY DEF IInv, Shape
    <3>2. DrainInv' BY ZenonT(30) DEF IInv, DrainInv
    <3>3. OwnerInv' BY ZenonT(30) DEF IInv, OwnerInv
    <3>4. LeadInv' BY DEF IInv, LeadInv, Lead
    <3>5. VerdictInv' BY DEF IInv, VerdictInv, SameVerdict
    <3>6. ErrInv' /\ RanInv' BY DEF IInv, ErrInv, RanInv, Ran
    <3>7. PhaseInv' /\ FoundInv' BY DEF IInv, PhaseInv, FoundInv, Ran
    <3>8. CleanInv' BY DEF IInv, CleanInv, Ran
    <3>9. LateInv' BY DEF IInv, LateInv, DrainedIsExpected
    <3> QED BY <3>1, <3>2, <3>3, <3>4, <3>5, <3>6, <3>7, <3>8, <3>9 DEF IInv
  <2> QED BY <2>1, <2>2
<1> QED BY <1>1, <1>2, PTL DEF Spec

-----------------------------------------------------------------------------
\* Services are shut down once, by one owner of the lifecycle, and only after every
\* one of them was asked to drain, for any number of Run and Shutdown calls.
THEOREM StoppedOnce == Spec => []StopsOnce
<1>1. IInv => StopsOnce
  <2> SUFFICES ASSUME IInv PROVE StopsOnce OBVIOUS
  <2>1. ASSUME NEW c \in Callers, pc[c] = "stop" PROVE Lead(c)
    BY <2>1 DEF IInv, OwnerInv, Lead, RunAt, Drawn, Owning
  <2>2. \A c \in Callers : pc[c] = "stop" => \A s \in Services : stop[s] = "no"
    BY <2>1 DEF IInv, LeadInv
  <2>3. \A s \in Services : stop[s] # "no" => asked = Services /\ drain
        BY ZenonT(30) DEF IInv, DrainInv
  <2> QED BY <2>2, <2>3 DEF StopsOnce
<1> QED BY <1>1, Invariance, PTL

\* Every call that waits for the runtime to close returns the verdict of the owner.
THEOREM VerdictShared == Spec => []SameVerdict
<1>1. IInv => SameVerdict BY DEF IInv, VerdictInv
<1> QED BY <1>1, Invariance, PTL

\* Run returns nil only when every service returned without a failure and was shut
\* down without an error, however many there are.
THEOREM ReturnIsClean == Spec => []CleanReturn
<1>1. IInv => CleanReturn
  <2> SUFFICES ASSUME IInv, NEW c \in Callers, At(c, "Run", "returned"), err[c] = {}, NEW s \in Services
               PROVE  phase[s] = "done" /\ stop[s] = "ok" /\ result[s] # "failure"
    BY DEF CleanReturn
  <2>1. Ran(c) BY DEF At, Ran
  <2>2. phase[s] = "done" /\ stop[s] = "ok" /\ results = {} BY <2>1 DEF At, IInv, CleanInv
  <2>3. result[s] # "failure" BY ZenonT(30), <2>1, <2>2 DEF At, IInv, FoundInv, Judging
  <2> QED BY <2>2, <2>3
<1> QED BY <1>1, Invariance, PTL

\* A service that returned because it was asked to drain is not an unexpected stop.
THEOREM LateExpected == Spec => []DrainedIsExpected
<1>1. IInv => DrainedIsExpected BY DEF IInv, LateInv
<1> QED BY <1>1, Invariance, PTL

\* A panic in BeginDrain has cancelled a running Run when the drain is announced.
THEOREM PanicCancelled == Spec => []PanicCancels
<1>1. IInv => PanicCancels BY ZenonT(30) DEF IInv, Shape, DrainInv, PanicCancels
<1> QED BY <1>1, Invariance, PTL

\* Readiness answers yes only in a state in which no service was asked to drain.
THEOREM ReadinessCurrent == Spec => ReadyIsCurrent
<1> DEFINE Current ==
        \A c \in Callers :
            op[c] = "Readiness" /\ pc[c] # "returned" /\ pc'[c] = "returned" /\ err'[c] = {}
                => started /\ asked = {} /\ \A s \in Services : stop[s] = "no"
<1>1. IInv /\ [Next]_vars => [Current]_vars
  <2> SUFFICES ASSUME IInv, Next, NEW c \in Callers, op[c] = "Readiness", pc[c] # "returned",
                      pc'[c] = "returned", err'[c] = {}
               PROVE  started /\ asked = {} /\ \A s \in Services : stop[s] = "no"
    OBVIOUS
  <2>1. state = "running"
    <3>1. ASSUME NEW d \in Callers, Turn(d) PROVE state = "running"
      BY ZenonT(30), <3>1
         DEF Turn, Others, RunTurn, TakeTurn, OwnerTurn, ShutdownTurn, AsideTurn, IInv,
           OwnerInv, Owning
    <3>2. ~ServiceTurn /\ ~ParentDone BY DEF ServiceTurn, ParentDone, calls
    <3>3. ASSUME NEW d \in Callers PROVE ~DrainTurn(d)
          BY ZenonT(30) DEF DrainTurn, Others, Drains
    <3>4. ASSUME NEW d \in Callers PROVE ~StopServices(d) /\ ~StoreVerdict(d) /\ ~MarkClosed(d)
      BY DEF StopServices, StoreVerdict, MarkClosed, Goto, IInv, Shape
    <3>5. ASSUME NEW d \in Callers PROVE ~RunStarts(d) /\ ~ShutdownStarts(d)
      BY DEF RunStarts, ShutdownStarts, Goto, IInv, Shape
    <3> QED BY <3>1, <3>2, <3>3, <3>4, <3>5, Steps DEF IInv
  <2> QED BY ZenonT(30), <2>1 DEF IInv, Shape, DrainInv, LeadInv
<1> QED BY <1>1, Invariance, PTL DEF Spec, ReadyIsCurrent
=============================================================================
