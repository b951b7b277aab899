----------------------------- MODULE InboxOrder ------------------------------
(***************************************************************************)
(* The two orders in which a transaction of the Inbox comes to identities. *)
(* Go sorts the rows of a batch insert by its own string comparison; a     *)
(* SELECT ... ORDER BY ... FOR UPDATE locks in the order of the database's *)
(* collation, which need not be the same.                                  *)
(***************************************************************************)
EXTENDS InboxCalls

CONSTANTS GoOrder,   \* rank of each identity as Go compares them
          DbOrder    \* rank of each identity as the database collates them

\* Identities are finitely many strings: no two have one rank, and any set of
\* them has a first and a last.
Sorts(order) ==
    /\ order \in [Keys -> Nat]
    /\ \A j, k \in Keys : order[j] = order[k] => j = k
    /\ \A ks \in (SUBSET Keys) \ {{}} :
          \E first, last \in ks : \A k \in ks : order[first] <= order[k] /\ order[k] <= order[last]

ASSUME OrderAssumption == Sorts(GoOrder) /\ Sorts(DbOrder)

First(order, ks) == CHOOSE k \in ks : \A j \in ks : order[k] <= order[j]
=============================================================================
