---------------------------- MODULE MCInboxLedger ----------------------------
(* Small instances of InboxLedger for TLC. *)
EXTENDS InboxLedger

=============================================================================
