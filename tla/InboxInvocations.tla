-------------------------- MODULE InboxInvocations --------------------------
(***************************************************************************)
(* Inbox with a history variable that counts, for each identity, how       *)
(* often a handler was started for it, whether or not its transaction      *)
(* committed.  The store's own counter only advances at a commit.          *)
(***************************************************************************)
EXTENDS Inbox

CONSTANT MaxStarts   \* bound on the history counter

VARIABLE starts

\* One identity sorts in one way.
OneKey == [k \in Keys |-> 1]

Started(k) == \E t \in Workers : k \in tx'[t].active /\ k \notin tx[t].active

CountedInit == TxInit /\ starts = [k \in Keys |-> 0]

CountedNext ==
    /\ \A k \in Keys : starts[k] < MaxStarts
    /\ TxNext
    /\ starts' = [k \in Keys |-> IF Started(k) THEN starts[k] + 1 ELSE starts[k]]

CountedSpec == CountedInit /\ [][CountedNext]_<<txVars, starts>>

\* README.md says that MaxAttempts bounds handler invocations.  An invocation
\* whose transaction does not commit is not counted by ProcessAttempt.
InvocationsBounded ==
    \A k \in Keys : \E max \in Limits : starts[k] <= max
=============================================================================
