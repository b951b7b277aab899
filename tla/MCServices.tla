----------------------------- MODULE MCServices -----------------------------
(***************************************************************************)
(* The services a host runs under the Runtime: a local asynchronous route, *)
(* or one of the durable consumers.  They share nothing, so one of them is *)
(* chosen and the other stays as it is.                                    *)
(***************************************************************************)
EXTENDS LocalAsync, ConsumerLifecycle, TLC

CONSTANTS run, begin, shut, deliver, other

VARIABLE service

services == <<service, vars, consumerVars>>

\* Run, BeginDrain, Shutdown and a delivery race a second Run or a query.
CallMix ==
    {(run :> "Run") @@ (begin :> "BeginDrain") @@ (shut :> "Shutdown")
       @@ (deliver :> "Deliver") @@ (other :> call) : call \in {"Run", "query"}}

ServicesInit ==
    /\ Init /\ LifecycleInit
    /\ \/ service = "local" /\ flavor = CHOOSE f \in Flavors : TRUE
       \/ service = "consumer" /\ calls = CHOOSE mix \in Offered : TRUE

Local(A) == service = "local" /\ A /\ UNCHANGED <<service, consumerVars>>
Consumer(A) == service = "consumer" /\ A /\ UNCHANGED <<service, vars>>

ServicesNext == Local(Next) \/ Consumer(LifecycleNext)

\* The fairness of LocalAsync and of ConsumerLifecycle.
ServicesFairness ==
    /\ \A c \in Callers : WF_services(Local(Step(c)))
    /\ WF_services(Local(Drain))
    /\ WF_services(Consumer(MainStep))
    /\ \A w \in Pool : WF_services(Consumer(WorkerStep(w)))

ServicesSpec == ServicesInit /\ [][ServicesNext]_services /\ ServicesFairness
=============================================================================
