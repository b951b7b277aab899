----------------------------- MODULE Invocation -----------------------------
(***************************************************************************)
(* One invocation of an application handler through its middleware.        *)
(*   "local"    invokeMiddleware of the root package, for commands, events *)
(*   "query"    the same under queryBinding.call, which wants a result     *)
(*   "durable"  invokeMiddlewares of the NATS and Kafka consumers          *)
(*   "batch"    batchruntime.Invoke, then ValidateResult                   *)
(* The call goes down the chain, runs the handler and comes back up, while *)
(* contexts end behind its back.  Middleware is application code: each one *)
(* follows one of the Habits.  A context is the set of the sources that    *)
(* can end it: 0 for the caller's and i for one that middleware i made.    *)
(***************************************************************************)
EXTENDS Naturals, Sequences, FiniteSets

CONSTANTS Shapes,     \* the invocation flavours to look at
          MaxChain    \* bound on the number of middlewares

VARIABLES shape, chain, fate,
          at,          \* "down", "handler", "up", "panic" or "done"
          depth,       \* the middlewares entered and not yet left
          passed,      \* the context given to each level
          called,      \* the levels whose next was used (called.CompareAndSwap)
          ended,       \* the sources of cancellation that have ended
          handlerRuns,
          handlerCtx,  \* terminalCtxErr, handlerContextErr: {} or {context}
          completion,  \* terminalCompletionErr
          out          \* the error and the items that travel up

invocation == <<shape, chain, fate, at, depth, passed, called, ended,
                handlerRuns, handlerCtx, completion, out>>

Habits == {"passes", "swallows",  \* returns what it got; hides an error
           "short",               \* does not call next
           "nil context", "twice",
           "detaches",            \* passes context.Background()
           "limits",              \* passes a context it cancels when it returns
           "recovers", "panics",
           "objects"}             \* returns its own error with the result it got

Fates == [err : {"none", "failed"}, items : {"exact", "partial"}]
             \cup {[err |-> "panic", items |-> "none"]}

Err(e) == [err |-> e, items |-> "none"]

\* A middleware of a batch can make up a result; others have none to give.
Success == [err |-> "none", items |-> IF shape = "batch" THEN "exact" ELSE out.items]

InvocationInit ==
    /\ shape \in Shapes
    /\ chain \in UNION {[1..n -> Habits] : n \in 0..MaxChain}
    /\ fate \in Fates
    /\ at = "down" /\ depth = 0
    /\ passed = [i \in 0..Len(chain) |-> {0}]
    /\ called = {} /\ ended = {}
    /\ handlerRuns = 0 /\ handlerCtx = {} /\ completion = "none"
    /\ out = Err("none")

Dead(context) == context \cap ended # {}

\* The deadline of the caller or of a middleware passes, or the caller cancels.
ContextEnds(source) ==
    /\ at # "done" /\ source \notin ended
    /\ source = 0 \/ (source \in called /\ chain[source] = "limits")
    /\ ended' = ended \cup {source}
    /\ UNCHANGED <<shape, chain, fate, at, depth, passed, called, handlerRuns,
                   handlerCtx, completion, out>>

NilContext == {MaxChain + 1}

Passes(i, context) ==
    CASE chain[i] = "nil context" -> NilContext
      [] chain[i] = "detaches"    -> {}
      [] chain[i] = "limits"      -> context \cup {i}
      [] OTHER                    -> context

\* Every level refuses a nil context, in a batch only the handler's does.
Refused == passed[depth] = NilContext /\ (shape # "batch" \/ depth = Len(chain))

Refuse ==
    /\ at = "down" /\ Refused
    /\ at' = "up" /\ out' = Err("invalid")
    /\ UNCHANGED <<shape, chain, fate, depth, passed, called, ended, handlerRuns,
                   handlerCtx, completion>>

\* A middleware is entered and calls next with a context of its choice; to
\* derive one from nil panics.
Enter ==
    /\ at = "down" /\ ~Refused /\ depth < Len(chain)
    /\ LET habit == chain[depth + 1] IN
       IF habit = "limits" /\ passed[depth] = NilContext
       THEN at' = "panic" /\ UNCHANGED <<depth, passed, called, out>>
       ELSE /\ depth' = depth + 1
            /\ IF habit = "short"
               THEN at' = "up" /\ out' = Success /\ UNCHANGED <<passed, called>>
               ELSE /\ called' = called \cup {depth + 1}
                    /\ passed' = [passed EXCEPT ![depth + 1] = Passes(depth + 1, passed[depth])]
                    /\ UNCHANGED <<at, out>>
    /\ UNCHANGED <<shape, chain, fate, ended, handlerRuns, handlerCtx, completion>>

RunHandler ==
    /\ at = "down" /\ ~Refused /\ depth = Len(chain)
    /\ at' = "handler"
    /\ handlerRuns' = handlerRuns + 1
    /\ handlerCtx' = {passed[depth]}
    /\ UNCHANGED <<shape, chain, fate, depth, passed, called, ended, completion, out>>

Late == \E context \in handlerCtx : Dead(context)

\* HandlerCompletionError: a nil from a handler whose context has ended is
\* that context's error, except for the local routes.
CompletionError ==
    IF fate.err = "none" /\ Late /\ shape \in {"durable", "batch"} THEN "late" ELSE fate.err

HandlerReturns ==
    /\ at = "handler"
    /\ IF fate.err = "panic"
       THEN at' = "panic" /\ UNCHANGED <<completion, out>>
       ELSE /\ at' = "up"
            /\ completion' = CompletionError
            /\ out' = [err |-> CompletionError,
                       items |-> IF CompletionError = "late" \/ (shape = "query" /\ fate.err # "none")
                                 THEN "none" ELSE fate.items]
    /\ UNCHANGED <<shape, chain, fate, depth, passed, called, ended, handlerRuns, handlerCtx>>

\* defer cancel() of a middleware that limits the time of what it wraps.
Cancels == IF chain[depth] = "limits" THEN ended \cup {depth} ELSE ended

\* A middleware returns.  The second next of "twice" finds called set.
Leave ==
    /\ at = "up" /\ depth > 0
    /\ at' = IF chain[depth] = "panics" THEN "panic" ELSE "up"
    /\ depth' = depth - 1
    /\ ended' = Cancels
    /\ out' = CASE chain[depth] = "swallows" /\ out.err # "none" -> Success
                [] chain[depth] = "twice" -> Err("invalid")
                [] chain[depth] = "objects" -> [out EXCEPT !.err = "failed"]
                [] OTHER -> out
    /\ UNCHANGED <<shape, chain, fate, passed, called, handlerRuns, handlerCtx, completion>>

\* A panic unwinds to the first middleware that recovers, or to the defer of
\* the invocation itself.
Unwind ==
    /\ at = "panic"
    /\ IF depth = 0 THEN at' = "done" /\ out' = Err("panic") /\ UNCHANGED <<depth, ended>>
       ELSE /\ at' = IF chain[depth] = "recovers" THEN "up" ELSE "panic"
            /\ out' = IF chain[depth] = "recovers" THEN Success ELSE out
            /\ depth' = depth - 1
            /\ ended' = Cancels
    /\ UNCHANGED <<shape, chain, fate, passed, called, handlerRuns, handlerCtx, completion>>

\* The context the handler had is looked at again, after the whole chain.
CheckedLate == IF out.err = "none" /\ Late THEN Err("late") ELSE out

\* Variant: only what the chain returned counts.
BatchVerdictTrusting == out

BatchVerdict ==
    LET errors == {out.err, completion} \cup (IF Late THEN {"late"} ELSE {})
        first  == IF out.err # "none" THEN out.err ELSE IF Late THEN "late" ELSE completion
    IN  CASE errors = {"none"} -> IF out.items = "exact" THEN out ELSE Err("invalid")
          [] out.err # "none" /\ out.items # "none" /\ ~Late /\ completion = "none" -> Err("invalid")
          [] OTHER -> Err(first)

Verdict ==
    CASE shape = "durable" -> CheckedLate
      [] shape = "batch"   -> BatchVerdict
      [] shape = "query" /\ out = Err("none") -> Err("missing")
      [] OTHER -> out

Finish ==
    /\ at = "up" /\ depth = 0
    /\ at' = "done" /\ out' = Verdict
    /\ UNCHANGED <<shape, chain, fate, depth, passed, called, ended, handlerRuns,
                   handlerCtx, completion>>

InvocationNext ==
    \/ Refuse \/ Enter \/ RunHandler \/ HandlerReturns \/ Leave \/ Unwind \/ Finish
    \/ \E source \in 0..MaxChain : ContextEnds(source)

\* Whatever the middleware does, the handler runs at most once, a durable
\* handler that was still running when its own context ended never commits,
\* an error a batch handler returned never becomes a success, a batch is
\* committed only with a result for each message, and a query is answered only
\* by a handler that succeeded.
SuccessIsEarned ==
    /\ handlerRuns <= 1
    /\ at = "done" /\ out.err = "none" =>
        /\ shape \in {"durable", "batch"} => ~Late
        /\ shape = "batch" => out.items = "exact" /\ completion = "none"
        /\ shape = "query" => handlerRuns = 1 /\ fate.err = "none"
=============================================================================
