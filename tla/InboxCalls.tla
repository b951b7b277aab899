----------------------------- MODULE InboxCalls ------------------------------
(***************************************************************************)
(* What the callers of the Inbox store may ask: the operations, the        *)
(* identities they name and the attempt limits they are configured with.   *)
(***************************************************************************)
EXTENDS Naturals

CONSTANTS Keys,    \* logical identities: consumer, source and message
          Limits,  \* values MaxAttempts is configured with
          Ops      \* the store operations that callers use

OpNames == {"Process", "ProcessAttempt", "ProcessBatchAttempt", "ForgetAttempt",
            "ConfirmTerminalHandoff", "PruneTerminalAttempts", "Prune"}

ASSUME CallsAssumption ==
    /\ Limits \subseteq Nat \ {0}
    /\ Ops \subseteq OpNames
=============================================================================
