----------------------------- MODULE InboxTables -----------------------------
(***************************************************************************)
(* The rows the SQL Inbox keeps for one logical identity (consumer,        *)
(* source, message) and the statements of the PostgreSQL backend on them.  *)
(* A value of Rows is what the four tables hold for one identity:          *)
(*                                                                         *)
(*   ident    the inbox row: canonical fingerprint and completed_at        *)
(*   att[s]   the attempts / attempt_generations row of slot s             *)
(*   term[s]  the terminal row of slot s                                   *)
(*                                                                         *)
(* A slot is an AttemptFingerprint, that is a fingerprint and an attempt   *)
(* generation.  Null stands for "no such row" and for SQL NULL.            *)
(***************************************************************************)
EXTENDS Naturals

CONSTANTS Fps,     \* canonical envelope fingerprints
          Gens,    \* attempt generations; NoGen is the original delivery
          NoGen,   \* the empty AttemptGeneration
          Times,   \* instants a clock or a retention cutoff can show
          Null

TerminalKinds == {"permanent", "attempts_exhausted"}
FailureKinds == {"success", "permanent", "defer", "retry_after", "ordinary"}

Slots    == Fps \X Gens
Identity == [fp : Fps, completed : BOOLEAN]
Attempt  == [n : Nat, terminal : BOOLEAN]
Marker   == [kind : TerminalKinds, attempts : Nat \ {0}, confirmed : Times \cup {Null}]

Rows == [ident : Identity \cup {Null},
         att   : [Slots -> Attempt \cup {Null}],
         term  : [Slots -> Marker \cup {Null}]]

NoRows == [ident |-> Null,
           att   |-> [s \in Slots |-> Null],
           term  |-> [s \in Slots |-> Null]]

ASSUME TablesAssumption ==
    /\ NoGen \in Gens
    /\ Times \subseteq Nat
    /\ Null \notin Identity
    /\ Null \notin Attempt
    /\ Null \notin Marker
    /\ Null \notin Times

\* The derived fingerprint is injective in (fingerprint, generation): sha256 is
\* modelled as free of collisions, and the empty generation keeps fp itself.
AttemptFingerprint(fp, gen) == <<fp, gen>>

Present(r)     == r.ident # Null
Completed(r)   == r.ident # Null /\ r.ident.completed
HasAttempts(r) == \E s \in Slots : r.att[s] # Null
HasMarkers(r)  == \E s \in Slots : r.term[s] # Null
Open(r, s)     == r.att[s] # Null /\ r.term[s] = Null
Closed(r, s)   == r.term[s] # Null

-----------------------------------------------------------------------------
(* Statements of one transaction, each on the rows of one identity.        *)

WithIdent(r, row)     == [ident |-> row, att |-> r.att, term |-> r.term]
WithAttempt(r, s, row) == [ident |-> r.ident, att |-> [r.att EXCEPT ![s] = row],
                           term |-> r.term]
WithMarker(r, s, row)  == [ident |-> r.ident, att |-> r.att,
                           term |-> [r.term EXCEPT ![s] = row]]

InsertIdentity(r, fp) == WithIdent(r, [fp |-> fp, completed |-> FALSE])

MarkComplete(r) == WithIdent(r, [fp |-> r.ident.fp, completed |-> TRUE])

\* What the store decides about the next delivery of a slot.  closed is "" when
\* the handler may run and the reason otherwise.
Decision == [attempt : Nat, exists : BOOLEAN, closed : TerminalKinds \cup {""}]

FirstAttempt == [attempt |-> 1, exists |-> FALSE, closed |-> ""]

TerminalKind(r, s) == IF r.term[s] = Null THEN "" ELSE r.term[s].kind

\* Variant: the marker's own reason is not consulted.
NextAttemptIgnoringMarker(r, s, max) ==
    LET row == r.att[s]
    IN  IF row = Null
        THEN FirstAttempt
        ELSE IF row.terminal
        THEN [attempt |-> row.n, exists |-> TRUE, closed |-> "permanent"]
        ELSE IF row.n >= max
        THEN [attempt |-> row.n, exists |-> TRUE, closed |-> "attempts_exhausted"]
        ELSE [attempt |-> row.n + 1, exists |-> TRUE, closed |-> ""]

NextAttempt(r, s, max) ==
    LET row  == r.att[s]
        kind == TerminalKind(r, s)
    IN  IF row = Null
        THEN FirstAttempt
        ELSE IF row.terminal \/ kind = "permanent"
        THEN [attempt |-> row.n, exists |-> TRUE, closed |-> "permanent"]
        ELSE IF row.n >= max \/ kind = "attempts_exhausted"
        THEN [attempt |-> row.n, exists |-> TRUE, closed |-> "attempts_exhausted"]
        ELSE [attempt |-> row.n + 1, exists |-> TRUE, closed |-> ""]

FirstRow == [n |-> 1, terminal |-> FALSE]
Incremented(row) == [n |-> row.n + 1, terminal |-> row.terminal]

ConsumeAttempt(r, s, d) ==
    WithAttempt(r, s, IF d.exists THEN Incremented(r.att[s]) ELSE FirstRow)

\* Variant: the counter's terminal flag is not written.
MarkAttemptTerminalSkipped(r, s) == r

MarkAttemptTerminal(r, s) == WithAttempt(r, s, [n |-> r.att[s].n, terminal |-> TRUE])

\* A marker keeps its first reason and count; observing it again only withdraws
\* an earlier handoff confirmation.
RecordTerminal(r, s, n, kind) ==
    LET old == r.term[s]
    IN  WithMarker(r, s, IF old = Null
                         THEN [kind |-> kind, attempts |-> n, confirmed |-> Null]
                         ELSE [kind |-> old.kind, attempts |-> old.attempts, confirmed |-> Null])

\* Variant: a first deferral writes nothing.
PreserveDeferredSkipped(r, s, attempt) == r

PreserveDeferred(r, s, attempt) ==
    IF attempt = 0 /\ r.att[s] = Null
    THEN WithAttempt(r, s, [n |-> 0, terminal |-> FALSE])
    ELSE r

FinishFailedAttempt(r, s, d, max, kind) ==
    LET consumed == ConsumeAttempt(r, s, d)
    IN  CASE kind = "defer"     -> PreserveDeferred(r, s, d.attempt - 1)
          [] kind = "permanent" -> RecordTerminal(MarkAttemptTerminal(consumed, s), s,
                                                  d.attempt, "permanent")
          [] OTHER              -> IF d.attempt >= max
                                   THEN RecordTerminal(consumed, s, d.attempt,
                                                       "attempts_exhausted")
                                   ELSE consumed

\* Everything ProcessAttempt writes once its handler has returned.
FinishAttempt(r, s, d, max, kind) ==
    IF kind = "success" THEN MarkComplete(ConsumeAttempt(r, s, d))
                        ELSE FinishFailedAttempt(r, s, d, max, kind)

-----------------------------------------------------------------------------
(* The batch path reads and writes the same rows with its own statements.  *)

BatchClosed(r, s, max) ==
    /\ r.att[s] # Null
    /\ r.att[s].terminal \/ r.att[s].n >= max \/ TerminalKind(r, s) # ""

BatchClosedKind(r, s) ==
    IF r.att[s].terminal \/ TerminalKind(r, s) = "permanent"
    THEN "permanent" ELSE "attempts_exhausted"

StoredAttempt(r, s) == IF r.att[s] = Null THEN 0 ELSE r.att[s].n

IncrementBatchAttempts(r, s) ==
    WithAttempt(r, s, IF r.att[s] = Null THEN FirstRow ELSE Incremented(r.att[s]))

\* What one active item of a batch writes once the batch handler has returned.
FinishBatchItem(r, s, max, kind) ==
    LET counted == IncrementBatchAttempts(r, s)
        n       == counted.att[s].n
    IN  CASE kind = "success"   -> MarkComplete(counted)
          [] kind = "defer"     -> PreserveDeferred(r, s, StoredAttempt(r, s))
          [] kind = "permanent" -> RecordTerminal(MarkAttemptTerminal(counted, s), s,
                                                  n, "permanent")
          [] OTHER              -> IF n >= max
                                   THEN RecordTerminal(counted, s, n, "attempts_exhausted")
                                   ELSE counted

-----------------------------------------------------------------------------
(* Reset, confirmation and retention.                                      *)

Removed(r, s) == WithAttempt(WithMarker(r, s, Null), s, Null)

\* Variant: the identity is deleted without asking for other generations.
ForgetAttemptDropsIdentity(r, s) == WithIdent(Removed(r, s), Null)

ForgetAttempt(r, s) ==
    LET kept == Removed(r, s)
    IN  IF HasAttempts(kept) THEN kept ELSE WithIdent(kept, Null)

ConfirmHandoff(r, s, now) ==
    LET old == r.term[s]
    IN  WithMarker(r, s, [kind |-> old.kind, attempts |-> old.attempts,
                          confirmed |-> IF old.confirmed # Null /\ old.confirmed > now
                                        THEN old.confirmed ELSE now])

ConfirmedBefore(r, s, before) ==
    /\ r.term[s] # Null
    /\ r.term[s].confirmed # Null
    /\ r.term[s].confirmed < before

\* pruneCandidate under the identity lock: the confirmation is tested again, and
\* the identity goes only when no row of any generation is left.
PruneCandidate(r, s, before) ==
    LET left == Removed(r, s)
    IN  IF ~Present(r) \/ Completed(r) \/ ~ConfirmedBefore(r, s, before) THEN r
        ELSE IF HasAttempts(left) \/ HasMarkers(left) THEN left
        ELSE WithIdent(left, Null)

PruneCompleted(r) == NoRows
=============================================================================
