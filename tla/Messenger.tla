----------------------------- MODULE Messenger ------------------------------
(***************************************************************************)
(* The Builder and the Messenger it builds.  Declarations come in any      *)
(* order, conflicts among them make Build fail, and a built Messenger      *)
(* sends, publishes and queries: from outside, and from handlers, whose    *)
(* messages inherit the lineage of the one being handled.                  *)
(*                                                                         *)
(* A descriptor is [kind, key, type]; two of one key and different types   *)
(* conflict.  A route is [class, name, service]: "sync" and "async" need a *)
(* local handler, "durable" is a broker or the Outbox, and a route that is *)
(* a ServiceProvider has a service [id, value].  A value is "nil", a       *)
(* pointer, or "plain" for a service that is not a pointer.  A message is  *)
(* identified by its place in sent.                                        *)
(***************************************************************************)
EXTENDS Naturals, Sequences, SequencesExt, FiniteSets

CONSTANTS Descriptors, MessageRoutes,
          Services,         \* that Use is called with
          HandlerIds,       \* the handler and subscription IDs tried, for each kind
          MaxDeclarations,  \* bound on the Builder calls before Build
          MaxSent           \* bound on the messages sent

VARIABLES builder,   \* registrations and services, and whether an error was added
          declared,  \* the number of Builder calls so far
          built,     \* "no", "failed" or "yes"
          sent,      \* the messages, in the order of their creation
          pending,   \* accepted or staged, their handlers not started
          stack      \* the handlers under way, the innermost last

messenger == <<builder, declared, built, sent, pending, stack>>

None == [none |-> TRUE]
Keys(kinds) == {d.key : d \in {e \in Descriptors : e.kind \in kinds}}
AllKinds == {"command", "event", "query"}

NewBuilder(optionErrors) ==
    [regs |-> [k \in Keys(AllKinds) |-> None], services |-> [id \in {} |-> 0], errors |-> optionErrors]

MessengerInit ==
    /\ \E optionErrors \in BOOLEAN : builder = NewBuilder(optionErrors)
    /\ declared = 0 /\ built = "no"
    /\ sent = <<>> /\ pending = {} /\ stack = <<>>

-----------------------------------------------------------------------------
(* The Builder.                                                            *)

AddError(b) == [b EXCEPT !.errors = TRUE]

Ensure(b, d) ==
    IF b.regs[d.key] # None THEN b
    ELSE [b EXCEPT !.regs[d.key] = [desc |-> d, handlers |-> <<>>, route |-> None]]

Conflicts(b, d) == b.regs[d.key] # None /\ b.regs[d.key].desc # d

ValidStableID(id) == id # ""

Supervise(b, s) ==
    [b EXCEPT !.services = [i \in DOMAIN b.services \cup {s.id} |->
                               IF i = s.id THEN s.value ELSE b.services[i]]]

\* Variant: a service whose ID is taken is taken for the same service.
AddServiceShadowed(b, s) ==
    IF ~ValidStableID(s.id) \/ s.value = "nil" THEN AddError(b)
    ELSE IF s.id \in DOMAIN b.services THEN b ELSE Supervise(b, s)

\* Two uses of an ID are one service if they are one pointer.
AddService(b, s) ==
    IF ~ValidStableID(s.id) \/ s.value = "nil" THEN AddError(b)
    ELSE IF s.id \notin DOMAIN b.services THEN Supervise(b, s)
    ELSE IF s.value # "plain" /\ b.services[s.id] = s.value THEN b ELSE AddError(b)

\* A nil route counts as one without a valid name.
ValidateRoute(r) == ValidStableID(r.name)

AddRouteService(b, r) == IF r.service = None THEN b ELSE AddService(b, r.service)

\* HandleCommand, HandleQuery and Subscribe.
Handle(b, d, id) ==
    LET e == Ensure(b, d)
        taken == IF d.kind = "event" THEN Contains(e.regs[d.key].handlers, id)
                 ELSE e.regs[d.key].handlers # <<>>
    IN  IF Conflicts(b, d) THEN AddError(b)
        ELSE IF ~ValidStableID(id) \/ taken THEN AddError(e)
        ELSE [e EXCEPT !.regs[d.key].handlers = Append(@, id)]

\* RouteCommand, RouteEvent and RouteQuery.
RouteTo(b, d, r) ==
    LET e == Ensure(b, d) IN
    IF Conflicts(b, d) THEN AddError(b)
    ELSE IF ~ValidateRoute(r) \/ e.regs[d.key].route # None THEN AddError(e)
    ELSE AddRouteService([e EXCEPT !.regs[d.key].route = r], r)

Declare ==
    /\ built = "no" /\ declared < MaxDeclarations
    /\ declared' = declared + 1
    /\ \/ \E d \in Descriptors : \E id \in HandlerIds[d.kind] : builder' = Handle(builder, d, id)
       \/ \E d \in Descriptors, r \in MessageRoutes :
            /\ d.kind = "query" => r.class # "durable"
            /\ builder' = RouteTo(builder, d, r)
       \/ \E s \in Services : builder' = AddService(builder, s)   \* Use
    /\ UNCHANGED <<built, sent, pending, stack>>

Registered(k) == builder.regs[k] # None
Reg(k) == builder.regs[k]

Build ==
    /\ built = "no"
    /\ LET missing ==
            \/ \E k \in Keys({"command"}) :
                Registered(k) /\ Reg(k).route # None /\ Reg(k).route.class # "durable"
                              /\ Reg(k).handlers = <<>>
            \/ \E k \in Keys({"query"}) :
                Registered(k) /\ (Reg(k).handlers = <<>> \/ Reg(k).route = None)
       IN  /\ built' = IF builder.errors \/ missing THEN "failed" ELSE "yes"
           /\ builder' = IF missing THEN AddError(builder) ELSE builder
    /\ declared' = MaxDeclarations
    /\ UNCHANGED <<sent, pending, stack>>

-----------------------------------------------------------------------------
(* Metadata.                                                               *)

Top == stack[Len(stack)]
InHandler == stack # <<>> /\ Top.running

NoMetadata == [id |-> 0, corr |-> 0]

\* MetadataFromContext of the code that calls the Messenger.
Parent == IF InHandler THEN Top.meta ELSE NoMetadata

NewMetadata(id, outgoing) ==
    [corr  |-> IF outgoing.corr # 0    THEN outgoing.corr
               ELSE IF Parent.corr # 0 THEN Parent.corr
               ELSE IF Parent.id # 0   THEN Parent.id ELSE id,
     cause |-> IF outgoing.cause # 0 THEN outgoing.cause ELSE Parent.id]

\* Variant: the handler sees the context the middleware passed on.
HandlerMetadataLost(m, detached) ==
    IF detached THEN NoMetadata ELSE [id |-> m, corr |-> sent[m].corr]

\* The metadata in the handler's context.  Middleware may pass a context of its
\* own: invokeMiddleware puts the message's metadata back for a local handler,
\* invokeMiddlewares of the durable consumers does not.
HandlerMetadata(m, detached) ==
    IF detached /\ sent[m].route.class = "durable" THEN NoMetadata
    ELSE [id |-> m, corr |-> sent[m].corr]

-----------------------------------------------------------------------------
(* Sending.                                                                *)

\* The handlers of a message, about to run.
Frame(m, handlers) == [msg |-> m, todo |-> handlers, failed |-> FALSE,
                       running |-> FALSE, meta |-> NoMetadata, detached |-> FALSE]

\* Metadata the caller leaves out, or sets: a correlation, a NotBefore and an
\* ExpiresAt.
Outgoing(corr, timed) == [corr |-> corr, cause |-> 0, timed |-> timed]
Plain == Outgoing(0, FALSE)
Outgoings == {Plain, Outgoing(MaxSent + 1, TRUE)}

\* The times of a message compared with a clock: it may be too early or too late.
Untimely(outgoing) == IF outgoing.timed THEN BOOLEAN ELSE {FALSE}

Refusal(d) ==
    IF ~Registered(d.key) \/ Conflicts(builder, d) THEN "descriptor"
    ELSE IF d.kind = "query" /\ Reg(d.key).handlers = <<>> THEN "unserved"
    ELSE IF Reg(d.key).route = None THEN "route" ELSE ""

\* What the call returns before any handler has run: refused is the verdict of
\* validateImmediateTiming of the local routes, and late whether the message
\* expires before the executor of a sync route looks at it.
Admission(d, refused, late) ==
    IF Refusal(d) # "" THEN Refusal(d)
    ELSE IF Reg(d.key).route.class = "durable" THEN "accepted"
    ELSE IF refused THEN "untimely"
    ELSE IF Reg(d.key).route.class = "async" /\ d.kind # "query" THEN "accepted"
    ELSE IF d.kind = "event" /\ Reg(d.key).handlers = <<>> THEN "noop"
    ELSE IF late THEN "expired" ELSE "open"

Created(m, d, outgoing, state) ==
    [desc |-> d, state |-> state, ran |-> <<>>, outgoing |-> outgoing,
     route |-> IF Refusal(d) = "" THEN Reg(d.key).route ELSE None,
     sender |-> IF InHandler THEN Top.msg ELSE 0,
     cut |-> InHandler /\ Top.detached,
     corr |-> NewMetadata(m, outgoing).corr, cause |-> NewMetadata(m, outgoing).cause]

\* SendMessage, PublishMessage and Query: the message is created, then refused,
\* handled on the spot or handed over.  A query takes no metadata of its own,
\* and through an async route its caller waits: it is answered like a sync one.
Send(d, outgoing, refused, late) ==
    /\ built = "yes" /\ Len(sent) < MaxSent
    /\ stack = <<>> \/ InHandler
    /\ d.kind = "query" => outgoing = Plain
    /\ LET m     == Len(sent) + 1
           state == Admission(d, refused, late)
       IN  /\ sent' = Append(sent, Created(m, d, outgoing, state))
           /\ pending' = IF state = "accepted" THEN pending \cup {m} ELSE pending
           /\ stack' = IF state = "open" THEN Append(stack, Frame(m, Reg(d.key).handlers)) ELSE stack
    /\ UNCHANGED <<builder, declared, built>>

\* SendMessageBatch and PublishMessageBatch of two messages: all are created and
\* staged, or none.  Only the outbox is a BatchRoute.
SendBatch(d) ==
    /\ built = "yes" /\ Len(sent) + 2 <= MaxSent
    /\ stack = <<>> \/ InHandler
    /\ d.kind # "query" /\ Refusal(d) = "" /\ Reg(d.key).route.class = "durable"
    /\ LET first == Len(sent) + 1
       IN  /\ sent' = sent \o <<Created(first, d, Plain, "accepted"), Created(first + 1, d, Plain, "accepted")>>
           /\ pending' = pending \cup {first, first + 1}
    /\ UNCHANGED <<builder, declared, built, stack>>

\* A worker of the async route or a consumer takes a message: it has expired, or
\* its handlers are next.  A durable consumer has one handler, whatever is
\* registered here.
Execute(m, late) ==
    /\ stack = <<>> /\ m \in pending
    /\ pending' = pending \ {m}
    /\ IF late
       THEN sent' = [sent EXCEPT ![m].state = "expired"] /\ UNCHANGED stack
       ELSE /\ stack' = <<Frame(m, IF sent[m].route.class = "durable" THEN <<"consumer">>
                                   ELSE Reg(sent[m].desc.key).handlers)>>
            /\ UNCHANGED sent
    /\ UNCHANGED <<builder, declared, built>>

SetTop(frame) == stack' = [stack EXCEPT ![Len(stack)] = frame]

\* invokeMiddleware reaches the handler, or a middleware answers in its place.
Invoke(detached) ==
    /\ stack # <<>> /\ ~Top.running /\ Top.todo # <<>>
    /\ SetTop([Top EXCEPT !.running = TRUE, !.detached = detached,
                          !.meta = HandlerMetadata(Top.msg, detached)])
    /\ UNCHANGED <<builder, declared, built, sent, pending>>

Invoked(ok) ==
    /\ InHandler
    /\ SetTop([Top EXCEPT !.running = FALSE, !.todo = Tail(@), !.failed = @ \/ ~ok])
    /\ sent' = [sent EXCEPT ![Top.msg].ran = Append(@, [id |-> Head(Top.todo), ok |-> ok])]
    /\ UNCHANGED <<builder, declared, built, pending>>

\* errors.Join over the subscribers, or the one handler's error.
Handled ==
    /\ stack # <<>> /\ ~Top.running /\ Top.todo = <<>>
    /\ sent' = [sent EXCEPT ![Top.msg].state = IF Top.failed THEN "failed" ELSE "completed"]
    /\ stack' = Front(stack)
    /\ UNCHANGED <<builder, declared, built, pending>>

MessengerNext ==
    \/ Declare \/ Build
    \/ \E d \in Descriptors, outgoing \in Outgoings :
         \E refused, late \in Untimely(outgoing) : Send(d, outgoing, refused, late)
    \/ \E d \in Descriptors : SendBatch(d)
    \/ \E m \in pending : \E late \in Untimely(sent[m].outgoing) : Execute(m, late)
    \/ \E b \in BOOLEAN : Invoke(b) \/ Invoked(b)
    \/ Handled

-----------------------------------------------------------------------------
(* Properties.                                                             *)

\* What Build accepts is served: the Runtime supervises the very service behind
\* each route in use, and a declared query always finds its handler and its
\* route.  A local delivery that was neither refused for its timing nor expired
\* in the queue ran each declared handler exactly once, also after one of them
\* failed, and completed only if all succeeded; one that was ran none.
DeclaredIsServed ==
    built = "yes" =>
        /\ \A k \in Keys(AllKinds) :
            Registered(k) /\ Reg(k).route # None /\ Reg(k).route.service # None =>
                /\ Reg(k).route.service.id \in DOMAIN builder.services
                /\ builder.services[Reg(k).route.service.id] = Reg(k).route.service.value
        /\ \A i \in 1..Len(sent) :
            LET ran == [j \in 1..Len(sent[i].ran) |-> sent[i].ran[j].id] IN
            /\ sent[i].state \notin {"unserved"} \cup (IF sent[i].desc.kind = "query" THEN {"route"} ELSE {})
            /\ sent[i].state \in {"untimely", "expired"} => ran = <<>>
            /\ sent[i].state \in {"completed", "failed"} /\ sent[i].route.class # "durable" =>
                /\ ran = Reg(sent[i].desc.key).handlers
                /\ sent[i].state = "completed" <=> \A j \in 1..Len(sent[i].ran) : sent[i].ran[j].ok

\* A message a handler sends belongs to the conversation of the message it
\* handles and names it as its cause, through nested calls, async hand-overs
\* and middleware that replaced the context of a local handler; a message sent
\* from outside starts a conversation of its own.
LineageHolds ==
    \A i \in 1..Len(sent) :
        sent[i].outgoing.corr = 0 =>
            LET parent == sent[i].sender IN
            CASE parent = 0 -> sent[i].corr = i /\ sent[i].cause = 0
              [] parent # 0 /\ ~(sent[i].cut /\ sent[parent].route.class = "durable") ->
                    sent[i].corr = sent[parent].corr /\ sent[i].cause = parent
              [] OTHER -> TRUE
=============================================================================
