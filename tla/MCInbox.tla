------------------------------ MODULE MCInbox -------------------------------
(***************************************************************************)
(* Every call of the store by two workers on two identities that Go and    *)
(* the database sort differently.                                          *)
(***************************************************************************)
EXTENDS Inbox, TLC

CONSTANTS k1, k2

Ascending  == k1 :> 1 @@ k2 :> 2
Descending == k1 :> 2 @@ k2 :> 1

WorkerSymmetry == Permutations(Workers)
=============================================================================
