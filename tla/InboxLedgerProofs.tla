-------------------------- MODULE InboxLedgerProofs --------------------------
(***************************************************************************)
(* Invariance proofs for InboxLedger, for every set of identities,         *)
(* fingerprints, generations and limits.  Almost every operation rewrites  *)
(* one slot of an identity, so the proofs rest on one lemma about such a   *)
(* rewriting (SlotUpdate); retention, which only removes, has its own.     *)
(***************************************************************************)
EXTENDS InboxLedger, TLAPS

\* A leaf goes to the SMT solver unless it names another prover.
USE SMTT(30)

WellFormed(r) == r \in Rows /\ RowsOwned(r) /\ RowsAgree(r)

\* q is r with the counter and the marker of slot s rewritten.
Rewrites(q, r, s, a, m) ==
    /\ q \in Rows
    /\ q.att[s] = a
    /\ q.term[s] = m
    /\ \A x \in Slots \ {s} : q.att[x] = r.att[x] /\ q.term[x] = r.term[x]

\* q differs from r in slot s only, and has a counter there.
Touches(q, r, s) ==
    /\ q.att[s] # Null
    /\ \A x \in Slots \ {s} : q.att[x] = r.att[x] /\ q.term[x] = r.term[x]

\* The slots of r are still in q: one that stays closed is frozen, and one that
\* was open keeps its counter.
Evolves(r, q) ==
    \A s \in Slots :
        /\ Closed(r, s) /\ Closed(q, s) => /\ q.att[s] = r.att[s]
                                          /\ q.term[s].kind = r.term[s].kind
                                          /\ q.term[s].attempts = r.term[s].attempts
        /\ Open(r, s) => q.att[s] # Null

\* The three setters change one field and keep the rows typed.
LEMMA SetIdent ==
    ASSUME NEW r \in Rows, NEW i \in Identity \cup {Null}
    PROVE  /\ WithIdent(r, i) \in Rows
           /\ WithIdent(r, i).ident = i
           /\ WithIdent(r, i).att = r.att
           /\ WithIdent(r, i).term = r.term
BY DEF WithIdent, Rows

\* Writing one attempt row (saveFailure, deferAttempt) leaves the identity, the
\* markers and every other attempt row alone.
LEMMA SetAttempt ==
    ASSUME NEW r \in Rows, NEW s \in Slots, NEW a \in Attempt \cup {Null}
    PROVE  /\ WithAttempt(r, s, a) \in Rows
           /\ WithAttempt(r, s, a).ident = r.ident
           /\ WithAttempt(r, s, a).term = r.term
           /\ WithAttempt(r, s, a).att[s] = a
           /\ \A x \in Slots \ {s} : WithAttempt(r, s, a).att[x] = r.att[x]
BY DEF WithAttempt, Rows

\* Writing one terminal marker (recordTerminalAttempt, confirmTerminalHandoff)
\* leaves the identity, the attempt rows and every other marker alone.
LEMMA SetMarker ==
    ASSUME NEW r \in Rows, NEW s \in Slots, NEW m \in Marker \cup {Null}
    PROVE  /\ WithMarker(r, s, m) \in Rows
           /\ WithMarker(r, s, m).ident = r.ident
           /\ WithMarker(r, s, m).att = r.att
           /\ WithMarker(r, s, m).term[s] = m
           /\ \A x \in Slots \ {s} : WithMarker(r, s, m).term[x] = r.term[x]
BY DEF WithMarker, Rows

\* The rows of one slot are typed.
LEMMA SlotTyped ==
    ASSUME NEW r \in Rows, NEW s \in Slots
    PROVE  /\ r.att[s] \in Attempt \cup {Null}
           /\ r.term[s] \in Marker \cup {Null}
           /\ r.att[s] # Null => r.att[s].n \in Nat /\ r.att[s].terminal \in BOOLEAN
           /\ r.term[s] # Null => r.term[s].kind \in TerminalKinds /\ r.term[s].attempts \in Nat \ {0}
           /\ Present(r) => r.ident \in Identity /\ r.ident # Null
BY DEF Rows, Attempt, Marker, Present

\* Rewriting a slot of an identity with a counter and a marker that agree keeps
\* its rows consistent and never strands it.
LEMMA SlotUpdate ==
    ASSUME NEW r, WellFormed(r), Present(r),
           NEW s \in Slots, r.ident.fp = s[1],
           NEW a \in Attempt, NEW m \in Marker \cup {Null},
           a.terminal <=> (m # Null /\ m.kind = "permanent"),
           NEW q, Rewrites(q, r, s, a, m),
           q.ident \in Identity, q.ident.fp = r.ident.fp
    PROVE  WellFormed(q) /\ Present(q) /\ NotStranded(q) /\ Touches(q, r, s)
<1>1. a # Null /\ q.ident # Null
  BY TablesAssumption DEF TablesAssumption
<1>2. RowsOwned(q)
  BY <1>1 DEF WellFormed, RowsOwned, Present, Rewrites
<1>3. RowsAgree(q)
  <2> SUFFICES ASSUME NEW x \in Slots
               PROVE  /\ q.term[x] # Null => q.att[x] # Null
                      /\ q.att[x] # Null => (q.att[x].terminal <=> TerminalKind(q, x) = "permanent")
    BY DEF RowsAgree
  <2>1. CASE x = s
    BY <2>1, <1>1 DEF TerminalKind, Rewrites
  <2>2. CASE x # s
    BY <2>2 DEF TerminalKind, WellFormed, RowsAgree, Rewrites
  <2> QED
    BY <2>1, <2>2
<1>4. Present(q) /\ NotStranded(q)
  BY <1>1 DEF Present, NotStranded, HasAttempts, Rewrites
<1>5. Touches(q, r, s)
  BY <1>1 DEF Touches, Rewrites
<1> QED
  BY <1>2, <1>3, <1>4, <1>5 DEF WellFormed, Rewrites

\* The decision to run a handler is taken only for a slot without a marker, and
\* tells whether the slot has a counter.
LEMMA RunDecision ==
    ASSUME NEW r, WellFormed(r), NEW s \in Slots, NEW max \in Nat,
           NextAttempt(r, s, max).closed = ""
    PROVE  /\ r.term[s] = Null
           /\ NextAttempt(r, s, max).exists <=> r.att[s] # Null
           /\ r.att[s] # Null => ~r.att[s].terminal
<1>1. r.term[s] # Null => r.att[s] # Null /\ r.term[s].kind \in TerminalKinds
  BY ZenonT(30), SlotTyped DEF WellFormed, RowsAgree
<1>2. CASE r.att[s] = Null
  BY <1>1, <1>2 DEF NextAttempt, FirstAttempt
<1>3. CASE r.att[s] # Null
  BY <1>1, <1>3 DEF NextAttempt, TerminalKind, TerminalKinds
<1> QED
  BY ZenonT(30), <1>2, <1>3

\* A handler that runs is the next attempt of its slot, and within the limit.
LEMMA RunAttempt ==
    ASSUME NEW r, WellFormed(r), NEW s \in Slots, NEW max \in Nat,
           NextAttempt(r, s, max).closed = ""
    PROVE  /\ NextAttempt(r, s, max).attempt = StoredAttempt(r, s) + 1
           /\ r.att[s] # Null => ~(r.att[s].n >= max)
<1>1. CASE r.att[s] = Null
  BY <1>1 DEF NextAttempt, FirstAttempt, StoredAttempt
<1>2. CASE r.att[s] # Null
  BY <1>2 DEF NextAttempt, StoredAttempt
<1> QED
  BY ZenonT(30), <1>1, <1>2

\* Consistent rows that the slot was changed in.
SoundRows(q, r, s) == WellFormed(q) /\ Present(q) /\ NotStranded(q) /\ Touches(q, r, s)

\* The outcome of a handler, whichever path counted its attempt: c is r with the
\* attempt counted in slot s.
LEMMA CountedGood ==
    ASSUME NEW r, WellFormed(r), Present(r),
           NEW s \in Slots, r.ident.fp = s[1], r.term[s] = Null,
           NEW a \in Attempt, ~a.terminal,
           NEW c, Rewrites(c, r, s, a, Null), c.ident = r.ident, NEW n \in Nat \ {0}
    PROVE  /\ LET q == MarkComplete(c)
              IN  SoundRows(q, r, s) /\ Completed(q)
           /\ LET q == RecordTerminal(MarkAttemptTerminal(c, s), s, n, "permanent")
              IN  SoundRows(q, r, s) /\ q.ident = r.ident
           /\ LET q == RecordTerminal(c, s, n, "attempts_exhausted")
              IN  SoundRows(q, r, s) /\ q.ident = r.ident
           /\ SoundRows(c, r, s)
<1> USE DEF SoundRows
<1>1. r.ident \in Identity /\ r.ident # Null /\ r.ident.fp \in Fps
  BY SlotTyped DEF WellFormed, Identity
<1>2. c \in Rows /\ c.att[s] = a /\ c.term[s] = Null
  BY DEF Rewrites
<1>3. WellFormed(MarkComplete(c)) /\ Present(MarkComplete(c)) /\ NotStranded(MarkComplete(c))
      /\ Completed(MarkComplete(c)) /\ Touches(MarkComplete(c), r, s)
  <2> DEFINE i == [fp |-> c.ident.fp, completed |-> TRUE]
  <2>0. i \in Identity
    BY <1>1 DEF Identity
  <2>1. i \in Identity /\ i.fp = r.ident.fp /\ i.completed /\ i # Null
    BY ZenonT(30), <2>0, TablesAssumption DEF TablesAssumption
  <2>2. MarkComplete(c) = WithIdent(c, i)
    BY DEF MarkComplete
  <2> HIDE DEF i
  <2>3. Rewrites(MarkComplete(c), r, s, a, Null) /\ MarkComplete(c).ident = i
    BY <1>2, <2>1, <2>2, SetIdent DEF Rewrites
  <2>4. Completed(MarkComplete(c))
    BY <2>1, <2>3 DEF Completed
  <2> QED
    BY <2>1, <2>3, <2>4, SlotUpdate
<1>4. LET q == RecordTerminal(MarkAttemptTerminal(c, s), s, n, "permanent")
      IN  WellFormed(q) /\ Present(q) /\ NotStranded(q) /\ Touches(q, r, s) /\ q.ident = r.ident
  <2> DEFINE b == [n |-> c.att[s].n, terminal |-> TRUE]
  <2> DEFINE m == [kind |-> "permanent", attempts |-> n, confirmed |-> Null]
  <2> DEFINE e == MarkAttemptTerminal(c, s)
  <2> DEFINE q == RecordTerminal(e, s, n, "permanent")
  <2>1. b \in Attempt /\ b.terminal
    BY <1>2 DEF Attempt
  <2>2. m \in Marker /\ m # Null /\ m.kind = "permanent"
    BY TablesAssumption DEF Marker, TerminalKinds, TablesAssumption
  <2>3. e = WithAttempt(c, s, b)
    BY DEF MarkAttemptTerminal
  <2> HIDE DEF b, e
  <2>4. /\ e \in Rows /\ e.ident = r.ident /\ e.att[s] = b /\ e.term[s] = Null
        /\ \A x \in Slots \ {s} : e.att[x] = r.att[x] /\ e.term[x] = r.term[x]
    BY SMTT(30), <1>2, <2>1, <2>3, SetAttempt DEF Rewrites
  <2>5. q = WithMarker(e, s, m)
    BY <2>4 DEF RecordTerminal
  <2> HIDE DEF m, q
  <2>6. Rewrites(q, r, s, b, m) /\ q.ident = r.ident
    BY <2>2, <2>4, <2>5, SetMarker DEF Rewrites
  <2>7. WellFormed(q) /\ Present(q) /\ NotStranded(q) /\ Touches(q, r, s) /\ q.ident = r.ident
    BY <1>1, <2>1, <2>2, <2>6, SlotUpdate
  <2> QED
    BY <2>7 DEF q, e
<1>5. LET q == RecordTerminal(c, s, n, "attempts_exhausted")
      IN  WellFormed(q) /\ Present(q) /\ NotStranded(q) /\ Touches(q, r, s) /\ q.ident = r.ident
  <2> DEFINE m == [kind |-> "attempts_exhausted", attempts |-> n, confirmed |-> Null]
  <2> DEFINE q == RecordTerminal(c, s, n, "attempts_exhausted")
  <2>1. m \in Marker /\ m.kind # "permanent"
    BY DEF Marker, TerminalKinds
  <2>2. q = WithMarker(c, s, m)
    BY <1>2 DEF RecordTerminal
  <2> HIDE DEF m, q
  <2>3. Rewrites(q, r, s, a, m) /\ q.ident = r.ident
    BY <1>2, <2>1, <2>2, SetMarker DEF Rewrites
  <2>4. WellFormed(q) /\ Present(q) /\ NotStranded(q) /\ Touches(q, r, s) /\ q.ident = r.ident
    BY <1>1, <2>1, <2>3, SlotUpdate
  <2> QED
    BY <2>4 DEF q
<1>6. WellFormed(c) /\ Present(c) /\ NotStranded(c) /\ Touches(c, r, s)
  BY <1>1, SlotUpdate
<1> QED
  BY <1>3, <1>4, <1>5, <1>6

\* What an operation leaves behind on an identity it ran a handler for.
FinishedRows(q, r, s, kind) ==
    /\ WellFormed(q) /\ Present(q) /\ NotStranded(q) /\ Touches(q, r, s)
    /\ Completed(q) <=> kind = "success"

\* Rows of an identity that is not completed by a failure.
LEMMA FailedRows ==
    ASSUME NEW q, NEW r, NEW s, NEW kind, ~Completed(r), q.ident = r.ident, SoundRows(q, r, s), kind # "success"
    PROVE  FinishedRows(q, r, s, kind)
BY DEF FinishedRows, SoundRows, Completed

\* Deferring keeps the counter, or starts one at zero.
LEMMA DeferredGood ==
    ASSUME NEW r, WellFormed(r), Present(r),
           NEW s \in Slots, r.ident.fp = s[1], r.term[s] = Null
    PROVE  LET q == PreserveDeferred(r, s, StoredAttempt(r, s))
           IN  WellFormed(q) /\ Present(q) /\ NotStranded(q) /\ Touches(q, r, s) /\ q.ident = r.ident
<1>1. r \in Rows /\ r.ident \in Identity
  BY SlotTyped DEF WellFormed
<1>2. CASE r.att[s] = Null
  <2> DEFINE z == [n |-> 0, terminal |-> FALSE]
  <2> DEFINE q == PreserveDeferred(r, s, StoredAttempt(r, s))
  <2>1. z \in Attempt /\ ~z.terminal
    BY DEF Attempt
  <2>2. q = WithAttempt(r, s, z)
    BY <1>2 DEF PreserveDeferred, StoredAttempt
  <2> HIDE DEF z, q
  <2>3. Rewrites(q, r, s, z, Null) /\ q.ident = r.ident
    BY <1>1, <2>1, <2>2, SetAttempt DEF Rewrites
  <2>4. WellFormed(q) /\ Present(q) /\ NotStranded(q) /\ Touches(q, r, s) /\ q.ident = r.ident
    BY <1>1, <2>1, <2>3, SlotUpdate
  <2> QED
    BY <2>4 DEF q
<1>3. CASE r.att[s] # Null
  BY <1>3 DEF PreserveDeferred, NotStranded, HasAttempts, Touches
<1> QED
  BY <1>2, <1>3

\* ProcessAttempt leaves consistent rows, and completes exactly on success.
LEMMA FinishAttemptGood ==
    ASSUME NEW r, WellFormed(r), Present(r), ~Completed(r),
           NEW s \in Slots, r.ident.fp = s[1], r.term[s] = Null,
           NEW max, NEW kind \in FailureKinds,
           NEW d, d.exists <=> r.att[s] # Null,
           d.attempt = StoredAttempt(r, s) + 1,
           r.att[s] # Null => ~r.att[s].terminal
    PROVE  FinishedRows(FinishAttempt(r, s, d, max, kind), r, s, kind)
<1> DEFINE a == IF d.exists THEN Incremented(r.att[s]) ELSE FirstRow
<1> DEFINE c == ConsumeAttempt(r, s, d)
<1> DEFINE q == FinishAttempt(r, s, d, max, kind)
<1>1. r \in Rows /\ StoredAttempt(r, s) \in Nat /\ d.attempt \in Nat \ {0}
  BY SlotTyped DEF WellFormed, StoredAttempt
<1>2. a \in Attempt /\ ~a.terminal
  BY <1>1, SlotTyped DEF Attempt, Incremented, FirstRow
<1>3. c = WithAttempt(r, s, a)
  BY DEF ConsumeAttempt
<1> HIDE DEF a
<1>4. Rewrites(c, r, s, a, Null) /\ c.ident = r.ident
  BY <1>1, <1>2, <1>3, SetAttempt DEF Rewrites
<1> HIDE DEF c
<1>5. CASE kind = "success"
  BY ZenonT(30), <1>1, <1>2, <1>4, <1>5, CountedGood DEF c, FinishAttempt, FinishedRows, SoundRows
<1>6. CASE kind = "defer"
  <2>1. q = PreserveDeferred(r, s, StoredAttempt(r, s))
    BY <1>1, <1>6 DEF FinishAttempt, FinishFailedAttempt
  <2> QED
    BY <2>1, <1>6, DeferredGood DEF FinishedRows, Completed
<1>7. CASE kind = "permanent"
  <2>1. q = RecordTerminal(MarkAttemptTerminal(c, s), s, d.attempt, "permanent")
    BY <1>7 DEF c, FinishAttempt, FinishFailedAttempt
  <2>2. SoundRows(q, r, s) /\ q.ident = r.ident
    BY <2>1, <1>1, <1>2, <1>4, CountedGood
  <2>3. kind # "success"
    BY <1>7
  <2> QED
    BY ZenonT(30), <2>2, <2>3, FailedRows
<1>8. CASE kind \in {"retry_after", "ordinary"}
  <2>1. q = IF d.attempt >= max THEN RecordTerminal(c, s, d.attempt, "attempts_exhausted") ELSE c
    BY ZenonT(30), <1>8 DEF c, FinishAttempt, FinishFailedAttempt
  <2>2. CASE d.attempt >= max
    <3>1. SoundRows(q, r, s) /\ q.ident = r.ident
      BY <2>1, <2>2, <1>1, <1>2, <1>4, CountedGood
    <3>2. kind # "success"
      BY <1>8
    <3> QED
      BY ZenonT(30), <3>1, <3>2, FailedRows
  <2>3. CASE ~(d.attempt >= max)
    <3>1. SoundRows(q, r, s) /\ q.ident = r.ident
      BY ZenonT(30), <2>1, <2>3, <1>1, <1>2, <1>4, CountedGood
    <3>2. kind # "success"
      BY <1>8
    <3> QED
      BY ZenonT(30), <3>1, <3>2, FailedRows
  <2> QED
    BY <2>2, <2>3
<1> QED
  BY <1>5, <1>6, <1>7, <1>8 DEF FailureKinds

\* So does one item of ProcessBatchAttempt.
LEMMA FinishBatchItemGood ==
    ASSUME NEW r, WellFormed(r), Present(r), ~Completed(r),
           NEW s \in Slots, r.ident.fp = s[1], r.term[s] = Null,
           NEW max, NEW kind \in FailureKinds,
           r.att[s] # Null => ~r.att[s].terminal
    PROVE  FinishedRows(FinishBatchItem(r, s, max, kind), r, s, kind)
<1> DEFINE a == IF r.att[s] = Null THEN FirstRow ELSE Incremented(r.att[s])
<1> DEFINE c == IncrementBatchAttempts(r, s)
<1> DEFINE q == FinishBatchItem(r, s, max, kind)
<1>1. r \in Rows
  BY ZenonT(30) DEF WellFormed
<1>2. a \in Attempt /\ ~a.terminal /\ a.n # 0
  BY <1>1, SlotTyped DEF Attempt, Incremented, FirstRow
<1>3. c = WithAttempt(r, s, a)
  BY DEF IncrementBatchAttempts
<1> HIDE DEF a
<1>4. Rewrites(c, r, s, a, Null) /\ c.ident = r.ident
  BY <1>1, <1>2, <1>3, SetAttempt DEF Rewrites
<1> HIDE DEF c
<1>5. c.att[s].n \in Nat \ {0}
  BY <1>2, <1>4 DEF Rewrites, Attempt
<1>6. CASE kind = "success"
  BY <1>2, <1>4, <1>5, <1>6, CountedGood DEF c, FinishBatchItem, FinishedRows, SoundRows
<1>7. CASE kind = "defer"
  <2>1. q = PreserveDeferred(r, s, StoredAttempt(r, s))
    BY ZenonT(30), <1>7 DEF FinishBatchItem
  <2> QED
    BY <2>1, <1>7, DeferredGood DEF FinishedRows, Completed
<1>8. CASE kind = "permanent"
  <2>1. q = RecordTerminal(MarkAttemptTerminal(c, s), s, c.att[s].n, "permanent")
    BY <1>8 DEF c, FinishBatchItem
  <2>2. SoundRows(q, r, s) /\ q.ident = r.ident
    BY <2>1, <1>2, <1>4, <1>5, CountedGood
  <2>3. kind # "success"
    BY <1>8
  <2> QED
    BY ZenonT(30), <2>2, <2>3, FailedRows
<1>9. CASE kind \in {"retry_after", "ordinary"}
  <2>1. q = IF c.att[s].n >= max THEN RecordTerminal(c, s, c.att[s].n, "attempts_exhausted") ELSE c
    BY ZenonT(30), <1>9 DEF c, FinishBatchItem
  <2>2. CASE c.att[s].n >= max
    <3>1. SoundRows(q, r, s) /\ q.ident = r.ident
      BY <2>1, <2>2, <1>2, <1>4, <1>5, CountedGood
    <3>2. kind # "success"
      BY <1>9
    <3> QED
      BY ZenonT(30), <3>1, <3>2, FailedRows
  <2>3. CASE ~(c.att[s].n >= max)
    <3>1. SoundRows(q, r, s) /\ q.ident = r.ident
      BY ZenonT(30), <2>1, <2>3, <1>2, <1>4, <1>5, CountedGood
    <3>2. kind # "success"
      BY <1>9
    <3> QED
      BY ZenonT(30), <3>1, <3>2, FailedRows
  <2> QED
    BY <2>2, <2>3
<1> QED
  BY <1>6, <1>7, <1>8, <1>9 DEF FailureKinds

\* Observing a closed generation again, or closing one whose counter already
\* reached the limit, keeps the rows consistent.
LEMMA ObservedGood ==
    ASSUME NEW r, WellFormed(r), Present(r),
           NEW s \in Slots, r.ident.fp = s[1], r.att[s] # Null,
           NEW n, NEW kind \in TerminalKinds,
           r.term[s] = Null => n \in Nat \ {0} /\ kind = "attempts_exhausted"
    PROVE  LET q == RecordTerminal(r, s, n, kind)
           IN  WellFormed(q) /\ Present(q) /\ NotStranded(q) /\ q.ident = r.ident /\ Evolves(r, q)
<1> DEFINE m == IF r.term[s] = Null
                THEN [kind |-> kind, attempts |-> n, confirmed |-> Null]
                ELSE [kind |-> r.term[s].kind, attempts |-> r.term[s].attempts, confirmed |-> Null]
<1> DEFINE q == RecordTerminal(r, s, n, kind)
<1>1. r \in Rows /\ r.att[s] \in Attempt /\ r.ident \in Identity
  BY SlotTyped DEF WellFormed
<1>2. m \in Marker
  BY <1>1, SlotTyped DEF Marker, TerminalKinds
<1>3. m # Null
  BY <1>2, TablesAssumption DEF TablesAssumption
<1>4. r.att[s].terminal <=> (m # Null /\ m.kind = "permanent")
  BY <1>3 DEF WellFormed, RowsAgree, TerminalKind
<1>5. q = WithMarker(r, s, m)
  BY DEF RecordTerminal
<1>6. r.term[s] # Null => m.kind = r.term[s].kind /\ m.attempts = r.term[s].attempts
  OBVIOUS
<1> HIDE DEF m, q
<1>7. Rewrites(q, r, s, r.att[s], m) /\ q.ident = r.ident
  BY <1>1, <1>2, <1>5, SetMarker DEF Rewrites
<1>8. WellFormed(q) /\ Present(q) /\ NotStranded(q) /\ q.ident = r.ident
  BY <1>1, <1>2, <1>4, <1>7, SlotUpdate
<1>9. Evolves(r, q)
  BY <1>6, <1>7 DEF Rewrites, Evolves, Open, Closed
<1> QED
  BY <1>8, <1>9 DEF q

\* A closed slot has a counter, and without a marker it can only be exhausted.
LEMMA ClosedDecision ==
    ASSUME NEW r, WellFormed(r), NEW s \in Slots, NEW max \in Nat \ {0},
           NextAttempt(r, s, max).closed # ""
    PROVE  /\ r.att[s] # Null
           /\ NextAttempt(r, s, max).closed \in TerminalKinds
           /\ r.term[s] = Null => /\ NextAttempt(r, s, max).attempt \in Nat \ {0}
                                  /\ NextAttempt(r, s, max).closed = "attempts_exhausted"
<1>1. r \in Rows /\ (r.att[s] # Null => r.att[s].n \in Nat)
  BY ZenonT(30), SlotTyped DEF WellFormed
<1>2. r.att[s] # Null
  BY DEF NextAttempt, FirstAttempt
<1>3. r.att[s].terminal <=> TerminalKind(r, s) = "permanent"
  BY ZenonT(30), <1>2 DEF WellFormed, RowsAgree
<1> QED
  BY <1>1, <1>2, <1>3 DEF NextAttempt, TerminalKinds, TerminalKind

\* The batch path closes and runs the same slots.
LEMMA BatchDecision ==
    ASSUME NEW r, WellFormed(r), NEW s \in Slots, NEW max \in Nat \ {0}
    PROVE  /\ BatchClosed(r, s, max) =>
                /\ r.att[s] # Null
                /\ BatchClosedKind(r, s) \in TerminalKinds
                /\ r.term[s] = Null => /\ r.att[s].n \in Nat \ {0}
                                       /\ BatchClosedKind(r, s) = "attempts_exhausted"
           /\ ~BatchClosed(r, s, max) =>
                /\ r.term[s] = Null
                /\ r.att[s] # Null => ~r.att[s].terminal /\ ~(r.att[s].n >= max)
<1>1. r \in Rows /\ (r.att[s] # Null => r.att[s].n \in Nat)
  BY SlotTyped DEF WellFormed
<1>2. r.att[s] # Null => (r.att[s].terminal <=> TerminalKind(r, s) = "permanent")
  BY DEF WellFormed, RowsAgree
<1>3. r.term[s] # Null => r.att[s] # Null /\ r.term[s].kind \in TerminalKinds
  BY <1>1, SlotTyped DEF WellFormed, RowsAgree
<1>4. CASE BatchClosed(r, s, max)
  <2>1. r.att[s] # Null /\ BatchClosedKind(r, s) \in TerminalKinds
    BY ZenonT(30), <1>4 DEF BatchClosed, BatchClosedKind, TerminalKinds
  <2>2. CASE r.term[s] = Null
    <3>1. TerminalKind(r, s) = "" /\ ~r.att[s].terminal
      BY <1>2, <2>1, <2>2 DEF TerminalKind
    <3>2. r.att[s].n >= max
      BY ZenonT(30), <1>4, <3>1 DEF BatchClosed
    <3>3. r.att[s].n \in Nat \ {0}
      BY <1>1, <2>1, <3>2
    <3>4. BatchClosedKind(r, s) = "attempts_exhausted"
      BY ZenonT(30), <3>1 DEF BatchClosedKind
    <3> QED
      BY <1>4, <2>1, <3>3, <3>4
  <2> QED
    BY <1>4, <2>1, <2>2
<1>5. CASE ~BatchClosed(r, s, max)
  BY ZenonT(30), <1>3, <1>5 DEF BatchClosed, TerminalKinds, TerminalKind
<1> QED
  BY <1>4, <1>5

\* Confirming a handoff only moves the confirmation time.
LEMMA ConfirmGood ==
    ASSUME NEW r, WellFormed(r), Present(r),
           NEW s \in Slots, r.ident.fp = s[1], Closed(r, s), NEW now \in Times
    PROVE  LET q == ConfirmHandoff(r, s, now)
           IN  WellFormed(q) /\ Present(q) /\ NotStranded(q) /\ q.ident = r.ident /\ Evolves(r, q)
<1> DEFINE m == [kind |-> r.term[s].kind, attempts |-> r.term[s].attempts,
                 confirmed |-> IF r.term[s].confirmed # Null /\ r.term[s].confirmed > now
                               THEN r.term[s].confirmed ELSE now]
<1> DEFINE q == ConfirmHandoff(r, s, now)
<1>1. r \in Rows /\ r.term[s] # Null /\ r.att[s] # Null
  BY DEF WellFormed, Closed, RowsAgree
<1>2. r.term[s] \in Marker /\ r.att[s] \in Attempt /\ r.ident \in Identity
  BY <1>1, SlotTyped
<1>3. m \in Marker
  BY <1>2 DEF Marker
<1>4. m # Null
  BY <1>3, TablesAssumption DEF TablesAssumption
<1>5. r.att[s].terminal <=> (m # Null /\ m.kind = "permanent")
  BY <1>1, <1>4 DEF WellFormed, RowsAgree, TerminalKind
<1>6. q = WithMarker(r, s, m)
  BY DEF ConfirmHandoff
<1>7. m.kind = r.term[s].kind /\ m.attempts = r.term[s].attempts
  OBVIOUS
<1> HIDE DEF m, q
<1>8. Rewrites(q, r, s, r.att[s], m) /\ q.ident = r.ident
  <2>1. /\ q \in Rows /\ q.ident = r.ident /\ q.att = r.att /\ q.term[s] = m
        /\ \A x \in Slots \ {s} : q.term[x] = r.term[x]
    BY <1>1, <1>3, <1>6, SetMarker
  <2> QED
    BY <2>1 DEF Rewrites
<1>9. WellFormed(q) /\ Present(q) /\ NotStranded(q) /\ q.ident = r.ident
  BY <1>2, <1>3, <1>5, <1>8, SlotUpdate
<1>10. Evolves(r, q)
  BY <1>7, <1>8 DEF Rewrites, Evolves, Open, Closed
<1> QED
  BY <1>9, <1>10 DEF q

\* What is left of an incomplete identity once whole slots are removed: if a
\* counter remains nothing else changes, and otherwise the identity goes too.
LEMMA LeftGood ==
    ASSUME NEW r, WellFormed(r), NEW gone \in SUBSET Slots,
           NEW q \in Rows,
           \A s \in gone : q.att[s] = Null /\ q.term[s] = Null,
           \A s \in Slots \ gone : q.att[s] = r.att[s] /\ q.term[s] = r.term[s],
           HasAttempts(q) => q.ident = r.ident,
           ~HasAttempts(q) => q.ident = Null
    PROVE  WellFormed(q) /\ NotStranded(q) /\ (Completed(q) => Completed(r))
<1>1. RowsAgree(q)
  BY DEF WellFormed, RowsAgree, TerminalKind
<1>2. RowsOwned(q)
  BY <1>1 DEF WellFormed, RowsOwned, RowsAgree, HasAttempts, Present
<1>3. NotStranded(q) /\ (Completed(q) => Completed(r))
  BY DEF NotStranded, Present, Completed
<1> QED
  BY <1>1, <1>2, <1>3 DEF WellFormed

\* ForgetAttempt deletes the identity only with its last counter.
LEMMA ForgetGood ==
    ASSUME NEW r, WellFormed(r), NEW s \in Slots
    PROVE  LET q == ForgetAttempt(r, s)
           IN  /\ WellFormed(q) /\ NotStranded(q) /\ (Completed(q) => Completed(r))
               /\ q.term[s] = Null
               /\ \A x \in Slots \ {s} : q.att[x] = r.att[x] /\ q.term[x] = r.term[x]
<1> DEFINE k == Removed(r, s)
<1> DEFINE q == ForgetAttempt(r, s)
<1>1. r \in Rows
  BY DEF WellFormed
<1>2. /\ k \in Rows /\ k.ident = r.ident /\ k.att[s] = Null /\ k.term[s] = Null
      /\ \A x \in Slots \ {s} : k.att[x] = r.att[x] /\ k.term[x] = r.term[x]
  BY <1>1, SetAttempt, SetMarker DEF Removed
<1>3. q = IF HasAttempts(k) THEN k ELSE WithIdent(k, Null)
  BY DEF ForgetAttempt
<1> HIDE DEF k, q
<1>4. q \in Rows /\ q.att = k.att /\ q.term = k.term
  BY <1>2, <1>3, SetIdent
<1>5. (HasAttempts(q) => q.ident = r.ident) /\ (~HasAttempts(q) => q.ident = Null)
  BY <1>2, <1>3, <1>4, SetIdent DEF HasAttempts
<1>6. \A x \in {s} : q.att[x] = Null /\ q.term[x] = Null
  BY <1>2, <1>4
<1>7. \A x \in Slots \ {s} : q.att[x] = r.att[x] /\ q.term[x] = r.term[x]
  BY <1>2, <1>4
<1>8. WellFormed(q) /\ NotStranded(q) /\ (Completed(q) => Completed(r))
  <2>1. {s} \in SUBSET Slots
    OBVIOUS
  <2> QED
    BY ZenonT(30), <1>4, <1>5, <1>6, <1>7, <2>1, LeftGood
<1> QED
  BY <1>6, <1>7, <1>8 DEF q

\* Retention deletes the identity only with its last counter and marker.
LEMMA PruneSlotsGood ==
    ASSUME NEW r, WellFormed(r), NotStranded(r), NEW gone \in SUBSET Slots,
           gone # {} => Present(r) /\ ~Completed(r)
    PROVE  LET q == PruneSlots(r, gone)
           IN  /\ WellFormed(q) /\ NotStranded(q) /\ (Completed(q) <=> Completed(r))
               /\ \A s \in gone : q.term[s] = Null
               /\ \A s \in Slots \ gone : q.att[s] = r.att[s] /\ q.term[s] = r.term[s]
<1> DEFINE k == [ident |-> r.ident,
                 att   |-> [s \in Slots |-> IF s \in gone THEN Null ELSE r.att[s]],
                 term  |-> [s \in Slots |-> IF s \in gone THEN Null ELSE r.term[s]]]
<1> DEFINE q == PruneSlots(r, gone)
<1>1. r \in Rows
  BY DEF WellFormed
<1>2. /\ k \in Rows /\ k.ident = r.ident
      /\ \A s \in gone : k.att[s] = Null /\ k.term[s] = Null
      /\ \A s \in Slots \ gone : k.att[s] = r.att[s] /\ k.term[s] = r.term[s]
  BY ZenonT(30), <1>1 DEF Rows
<1>3. q = IF gone # {} /\ ~HasAttempts(k) /\ ~HasMarkers(k) THEN WithIdent(k, Null) ELSE k
  BY ZenonT(30) DEF PruneSlots
<1> HIDE DEF k, q
<1>4. HasMarkers(k) => HasAttempts(k)
  BY <1>2 DEF WellFormed, RowsAgree, HasMarkers, HasAttempts
<1>5. q \in Rows /\ q.att = k.att /\ q.term = k.term
  BY <1>2, <1>3, SetIdent
<1>6. CASE gone = {}
  <2>1. q = k
    BY <1>3, <1>6
  <2>2. \A s \in Slots : q.att[s] = r.att[s] /\ q.term[s] = r.term[s]
    BY <1>2, <1>6, <2>1
  <2>3. q.ident = r.ident
    BY <1>2, <2>1
  <2>4. RowsOwned(q) /\ RowsAgree(q)
    BY <2>2, <2>3 DEF WellFormed, RowsOwned, RowsAgree, Present, TerminalKind
  <2>5. NotStranded(q) /\ (Completed(q) <=> Completed(r))
    BY <2>2, <2>3 DEF NotStranded, HasAttempts, Present, Completed
  <2>6. WellFormed(q) /\ NotStranded(q) /\ (Completed(q) <=> Completed(r))
    BY <1>5, <2>4, <2>5 DEF WellFormed
  <2> QED
    BY <1>6, <2>2, <2>6 DEF q
<1>7. CASE gone # {}
  <2>1. (HasAttempts(q) => q.ident = r.ident) /\ (~HasAttempts(q) => q.ident = Null)
    BY <1>2, <1>3, <1>4, <1>5, <1>7, SetIdent DEF HasAttempts
  <2>2. /\ \A s \in gone : q.att[s] = Null /\ q.term[s] = Null
        /\ \A s \in Slots \ gone : q.att[s] = r.att[s] /\ q.term[s] = r.term[s]
    BY <1>2, <1>5
  <2>3. WellFormed(q) /\ NotStranded(q) /\ (Completed(q) => Completed(r))
    BY ZenonT(30), <1>5, <2>1, <2>2, LeftGood
  <2> QED
    BY ZenonT(30), <1>7, <2>2, <2>3 DEF q
<1> QED
  BY <1>6, <1>7

-----------------------------------------------------------------------------
(* The inductive invariant: the rows of every identity are consistent, and  *)
(* the committed effects are the ones completed identities stand for.       *)

Kept(r, count) ==
    /\ WellFormed(r)
    /\ NotStranded(r)
    /\ count = IF Completed(r) THEN 1 ELSE 0

IInv == /\ db \in [Keys -> Rows]
        /\ effects \in [Keys -> Nat]
        /\ \A k \in Keys : Kept(db[k], effects[k])

\* What a step may do to the slots of every identity: the two action properties.
Evolution ==
    \A k \in Keys, s \in Slots :
        /\ Closed(db[k], s) /\ Closed(db'[k], s) =>
              /\ db'[k].att[s] = db[k].att[s]
              /\ db'[k].term[s].kind = db[k].term[s].kind
              /\ db'[k].term[s].attempts = db[k].term[s].attempts
        /\ Open(db[k], s) /\ ~Completed(db[k]) =>
              db'[k].att[s] # Null \/ ForgetAttempts(k, s[1], s[2])

\* Moving on the rows of every identity is all that a step must do.
LEMMA EvolvesEnough ==
    ASSUME \A k \in Keys : Evolves(db[k], db'[k])
    PROVE  Evolution
BY DEF Evolves, Evolution

\* Rewriting one slot without a marker moves the rows on.
LEMMA TouchesEvolves ==
    ASSUME NEW r, NEW q, NEW s \in Slots, Touches(q, r, s), r.term[s] = Null
    PROVE  Evolves(r, q)
BY DEF Touches, Evolves, Open, Closed

\* Writing kept rows to one identity keeps the invariant, and leaves the others
\* as they are.
LEMMA WriteKept ==
    ASSUME IInv, NEW k \in Keys, NEW rows, NEW count,
           WellFormed(rows), NotStranded(rows),
           Present(rows) => count = IF Completed(rows) THEN 1 ELSE 0,
           Write(k, rows, count)
    PROVE  IInv' /\ (Evolves(db[k], rows) => Evolution)
<1> DEFINE c == Recount(k, rows, count)
<1>1. rows \in Rows /\ c = IF Completed(rows) THEN 1 ELSE 0
  BY DEF Recount, Completed, Present, WellFormed
<1>2. db' = [db EXCEPT ![k] = rows] /\ effects' = [effects EXCEPT ![k] = c]
  BY DEF Write
<1> HIDE DEF c
<1>3. c \in Nat
  BY <1>1
<1>4. db' \in [Keys -> Rows] /\ effects' \in [Keys -> Nat]
  BY <1>1, <1>2, <1>3 DEF IInv
<1>5. ASSUME NEW x \in Keys PROVE Kept(db'[x], effects'[x])
  BY ZenonT(30), <1>1, <1>2 DEF IInv, Kept
<1>6. ASSUME Evolves(db[k], rows), NEW x \in Keys PROVE Evolves(db[x], db'[x])
  <2>1. db'[x] = IF x = k THEN rows ELSE db[x]
    BY <1>2 DEF IInv
  <2> QED
    BY ZenonT(30), <1>6, <2>1 DEF Evolves, Open
<1> QED
  BY <1>4, <1>5, <1>6, EvolvesEnough DEF IInv

\* The rows a delivery works on: an identity that was missing has no counter and
\* no marker, so treating it as fresh is right.
LEMMA OpenedGood ==
    ASSUME IInv, NEW k \in Keys, NEW fp \in Fps
    PROVE  /\ WellFormed(Opened(k, fp)) /\ Present(Opened(k, fp))
           /\ effects[k] = IF Completed(Opened(k, fp)) THEN 1 ELSE 0
           /\ Present(db[k]) => Opened(k, fp) = db[k]
           /\ ~Present(db[k]) => /\ Opened(k, fp).ident.fp = fp
                                 /\ ~Completed(Opened(k, fp))
                                 /\ \A s \in Slots : Opened(k, fp).att[s] = Null
                                 /\ \A s \in Slots : Opened(k, fp).term[s] = Null
           /\ \A q : Evolves(Opened(k, fp), q) => Evolves(db[k], q)
<1>1. WellFormed(db[k]) /\ effects[k] = IF Completed(db[k]) THEN 1 ELSE 0
  BY ZenonT(30) DEF IInv, Kept
<1>2. CASE Present(db[k])
  BY <1>1, <1>2 DEF Opened
<1>3. CASE ~Present(db[k])
  <2> DEFINE i == [fp |-> fp, completed |-> FALSE]
  <2> DEFINE q == Opened(k, fp)
  <2>1. i \in Identity
    BY DEF Identity
  <2>2. i.fp = fp /\ ~i.completed /\ i # Null
    BY ZenonT(30), <2>1, TablesAssumption DEF TablesAssumption
  <2>3. q = WithIdent(db[k], i)
    BY <1>3 DEF Opened, InsertIdentity
  <2> HIDE DEF i, q
  <2>4. q \in Rows /\ q.ident = i /\ q.att = db[k].att /\ q.term = db[k].term
    BY <1>1, <2>1, <2>3, SetIdent DEF WellFormed
  <2>5. \A s \in Slots : q.att[s] = Null /\ q.term[s] = Null
    BY <1>1, <1>3, <2>4 DEF WellFormed, RowsOwned
  <2>6. WellFormed(q)
    BY <2>4, <2>5 DEF WellFormed, RowsOwned, RowsAgree
  <2>7. Present(q) /\ ~Completed(q) /\ q.ident.fp = fp
    BY <2>2, <2>4 DEF Present, Completed
  <2>8. ~Completed(db[k])
    BY <1>3 DEF Present, Completed
  <2>9. \A x : Evolves(db[k], x)
    BY <2>4, <2>5 DEF Evolves, Open, Closed
  <2> QED
    BY ZenonT(30), <1>1, <1>3, <2>5, <2>6, <2>7, <2>8, <2>9 DEF q
<1> QED
  BY ZenonT(30), <1>2, <1>3

\* A success of Process leaves a completed identity without counters.
LEMMA MarkCompleteGood ==
    ASSUME NEW r, WellFormed(r), Present(r)
    PROVE  LET q == MarkComplete(r)
           IN  WellFormed(q) /\ NotStranded(q) /\ Completed(q) /\ Evolves(r, q)
<1> DEFINE i == [fp |-> r.ident.fp, completed |-> TRUE]
<1> DEFINE q == MarkComplete(r)
<1>1. r \in Rows /\ r.ident.fp \in Fps
  BY DEF WellFormed, Rows, Present, Identity
<1>2. i \in Identity
  BY <1>1 DEF Identity
<1>3. i.fp = r.ident.fp /\ i.completed /\ i # Null
  BY ZenonT(30), <1>2, TablesAssumption DEF TablesAssumption
<1>4. q = WithIdent(r, i)
  BY DEF MarkComplete
<1> HIDE DEF i, q
<1>5. q \in Rows /\ q.ident = i /\ q.att = r.att /\ q.term = r.term
  BY <1>1, <1>2, <1>4, SetIdent
<1>6. RowsOwned(q) /\ RowsAgree(q)
  BY <1>3, <1>5 DEF WellFormed, RowsOwned, RowsAgree, Present, TerminalKind
<1>7. WellFormed(q) /\ NotStranded(q) /\ Completed(q)
  BY <1>3, <1>5, <1>6 DEF WellFormed, NotStranded, Completed
<1>8. Evolves(r, q)
  BY <1>5 DEF Evolves, Open
<1> QED
  BY <1>7, <1>8 DEF q

\* Process keeps the invariant.
LEMMA ProcessKept ==
    ASSUME IInv, NEW k \in Keys, NEW fp \in Fps, Process(k, fp)
    PROVE  IInv' /\ Evolution
<1> DEFINE r == Opened(k, fp)
<1>1. ~Completed(r) /\ Write(k, MarkComplete(r), effects[k] + 1)
  BY ZenonT(30) DEF Process, HandleExisting
<1>2. WellFormed(r) /\ Present(r) /\ effects[k] = 0
  BY <1>1, OpenedGood
<1> HIDE DEF r
<1>3. WellFormed(MarkComplete(r)) /\ NotStranded(MarkComplete(r)) /\ Completed(MarkComplete(r))
  BY ZenonT(30), <1>2, MarkCompleteGood
<1>4. Evolves(db[k], MarkComplete(r))
  BY ZenonT(30), <1>2, MarkCompleteGood, OpenedGood DEF r
<1> QED
  BY <1>1, <1>2, <1>3, <1>4, WriteKept

\* ProcessAttempt keeps the invariant, whatever the handler returns.
LEMMA ProcessAttemptKept ==
    ASSUME IInv, NEW k \in Keys, NEW fp \in Fps, NEW gen \in Gens,
           NEW max \in Limits, NEW kind \in FailureKinds,
           ProcessAttempt(k, fp, gen, max, kind)
    PROVE  IInv' /\ Evolution
<1> DEFINE r == Opened(k, fp)
<1> DEFINE s == AttemptFingerprint(fp, gen)
<1> DEFINE d == IF Present(db[k]) THEN NextAttempt(r, s, max) ELSE FirstAttempt
<1>1. s \in Slots /\ s[1] = fp /\ max \in Nat \ {0}
  BY SMTT(30), CallsAssumption DEF CallsAssumption, Slots, AttemptFingerprint
<1>2. /\ r.ident.fp = fp
      /\ ~Completed(r)
      /\ d.closed # "" => Write(k, RecordTerminal(r, s, d.attempt, d.closed), effects[k])
      /\ d.closed = "" => Write(k, FinishAttempt(r, s, d, max, kind), Gained(k, kind))
  BY ZenonT(30) DEF ProcessAttempt
<1>3. WellFormed(r) /\ Present(r) /\ effects[k] = 0
  BY ZenonT(30), <1>2, OpenedGood
<1>4. \A q : Evolves(r, q) => Evolves(db[k], q)
  BY ZenonT(30), OpenedGood
<1>5. CASE d.closed # ""
  <2>1. d = NextAttempt(r, s, max)
    BY ZenonT(30), <1>5 DEF FirstAttempt
  <2> HIDE DEF d, r, s
  <2> DEFINE q == RecordTerminal(r, s, d.attempt, d.closed)
  <2>2. /\ r.att[s] # Null
        /\ d.closed \in TerminalKinds
        /\ r.term[s] = Null => d.attempt \in Nat \ {0} /\ d.closed = "attempts_exhausted"
    BY ZenonT(30), <1>1, <1>3, <1>5, <2>1, ClosedDecision
  <2>3. WellFormed(q) /\ Present(q) /\ NotStranded(q) /\ q.ident = r.ident /\ Evolves(r, q)
    BY ZenonT(30), <1>1, <1>2, <1>3, <2>2, ObservedGood
  <2>4. ~Completed(q) /\ Write(k, q, effects[k])
    BY ZenonT(30), <1>2, <1>5, <2>3 DEF Completed
  <2> HIDE DEF q
  <2> QED
    BY ZenonT(30), <1>3, <1>4, <2>3, <2>4, WriteKept
<1>6. CASE d.closed = ""
  <2>1. /\ d.exists <=> r.att[s] # Null
        /\ d.attempt = StoredAttempt(r, s) + 1
        /\ r.term[s] = Null
        /\ r.att[s] # Null => ~r.att[s].terminal
    <3>1. CASE Present(db[k])
      <4>1. d = NextAttempt(r, s, max)
        BY <3>1
      <4> HIDE DEF d, r, s
      <4>2. /\ r.term[s] = Null
            /\ NextAttempt(r, s, max).exists <=> r.att[s] # Null
            /\ r.att[s] # Null => ~r.att[s].terminal
        BY ZenonT(30), <1>1, <1>3, <1>6, <4>1, RunDecision
      <4>3. NextAttempt(r, s, max).attempt = StoredAttempt(r, s) + 1
        BY ZenonT(30), <1>1, <1>3, <1>6, <4>1, RunAttempt
      <4> QED
        BY <4>1, <4>2, <4>3
    <3>2. CASE ~Present(db[k])
      <4>1. ~d.exists /\ d.attempt = 1
        BY ZenonT(30), <3>2 DEF FirstAttempt
      <4> HIDE DEF d, s
      <4>2. \A x \in Slots : r.att[x] = Null /\ r.term[x] = Null
        BY SMTT(30), <3>2, OpenedGood
      <4> HIDE DEF r
      <4> QED
        BY <1>1, <4>1, <4>2 DEF StoredAttempt
    <3> HIDE DEF d, r, s
    <3> QED
      BY ZenonT(30), <3>1, <3>2
  <2> HIDE DEF d, r, s
  <2> DEFINE q == FinishAttempt(r, s, d, max, kind)
  <2>2. FinishedRows(q, r, s, kind)
    BY ZenonT(30), <1>1, <1>2, <1>3, <2>1, FinishAttemptGood
  <2>3. Write(k, q, Gained(k, kind))
    BY ZenonT(30), <1>2, <1>6
  <2>4. WellFormed(q) /\ NotStranded(q) /\ Gained(k, kind) = IF Completed(q) THEN 1 ELSE 0
    BY SMTT(30), <1>3, <2>2 DEF FinishedRows, Gained
  <2>5. Evolves(r, q)
    BY ZenonT(30), <1>1, <2>1, <2>2, TouchesEvolves DEF FinishedRows
  <2> HIDE DEF q
  <2> QED
    BY <1>4, <2>3, <2>4, <2>5, WriteKept
<1> QED
  BY ZenonT(30), <1>5, <1>6

\* A batch keeps every identity it names: one that conflicts or is completed is
\* left alone, a closed one is observed, an active one counts its attempt.
LEMMA BatchItemKept ==
    ASSUME IInv, NEW k \in Keys, NEW item \in Items, item.first \in item.fps,
           NEW max \in Limits, NEW kind \in FailureKinds
    PROVE  /\ Kept(BatchRows(k, item, max, kind),
                   IF BatchRuns(k, item, max) THEN Gained(k, kind) ELSE effects[k])
           /\ Evolves(db[k], BatchRows(k, item, max, kind))
           /\ Present(BatchRows(k, item, max, kind))
<1> DEFINE r == Opened(k, item.first)
<1> DEFINE s == AttemptFingerprint(r.ident.fp, item.gen)
<1> DEFINE q == BatchRows(k, item, max, kind)
<1> DEFINE c == IF BatchRuns(k, item, max) THEN Gained(k, kind) ELSE effects[k]
<1>1. item.first \in Fps /\ item.gen \in Gens /\ max \in Nat \ {0}
  BY CallsAssumption DEF CallsAssumption, Items
<1>2. /\ WellFormed(r) /\ Present(r)
      /\ effects[k] = IF Completed(r) THEN 1 ELSE 0
      /\ Present(db[k]) => r = db[k]
      /\ ~Present(db[k]) => r.ident.fp = item.first /\ ~Completed(r)
      /\ \A x : Evolves(r, x) => Evolves(db[k], x)
  BY ZenonT(30), <1>1, OpenedGood
<1>3. r.ident.fp \in Fps
  <2> HIDE DEF r
  <2> QED
    BY ZenonT(30), <1>2 DEF WellFormed, Rows, Present, Identity
<1>4. s \in Slots /\ r.ident.fp = s[1]
  BY SMTT(30), <1>1, <1>3 DEF Slots, AttemptFingerprint
<1>5. /\ q = IF r.ident.fp \notin item.fps \/ Completed(r) THEN r
             ELSE IF BatchClosed(r, s, max)
             THEN RecordTerminal(r, s, r.att[s].n, BatchClosedKind(r, s))
             ELSE FinishBatchItem(r, s, max, kind)
      /\ BatchRuns(k, item, max) <=>
           r.ident.fp \in item.fps /\ ~Completed(r) /\ ~BatchClosed(r, s, max)
  BY ZenonT(30) DEF BatchRows, BatchRuns
<1> HIDE DEF r, s, q
<1>6. CASE r.ident.fp \notin item.fps \/ Completed(r)
  <2>1. q = r /\ c = effects[k] /\ r = db[k]
    BY ZenonT(30), <1>2, <1>5, <1>6
  <2>2. Kept(q, c)
    BY ZenonT(30), <2>1 DEF IInv, Kept
  <2>3. Evolves(db[k], q)
    BY <2>1 DEF Evolves, Open
  <2> QED
    BY ZenonT(30), <1>2, <2>1, <2>2, <2>3 DEF q
<1>7. CASE ~(r.ident.fp \notin item.fps \/ Completed(r)) /\ BatchClosed(r, s, max)
  <2>1. q = RecordTerminal(r, s, r.att[s].n, BatchClosedKind(r, s)) /\ c = effects[k]
    BY ZenonT(30), <1>5, <1>7
  <2>2. /\ r.att[s] # Null
        /\ BatchClosedKind(r, s) \in TerminalKinds
        /\ r.term[s] = Null => /\ r.att[s].n \in Nat \ {0}
                               /\ BatchClosedKind(r, s) = "attempts_exhausted"
    BY ZenonT(30), <1>1, <1>2, <1>4, <1>7, BatchDecision
  <2>3. WellFormed(q) /\ Present(q) /\ NotStranded(q) /\ q.ident = r.ident /\ Evolves(r, q)
    BY ZenonT(30), <1>2, <1>4, <2>1, <2>2, ObservedGood
  <2>4. Kept(q, c)
    BY ZenonT(30), <1>2, <1>7, <2>1, <2>3 DEF Kept, Completed
  <2>5. Evolves(db[k], q)
    BY ZenonT(30), <1>2, <2>3
  <2> QED
    BY ZenonT(30), <2>3, <2>4, <2>5 DEF q
<1>8. CASE ~(r.ident.fp \notin item.fps \/ Completed(r)) /\ ~BatchClosed(r, s, max)
  <2>1. q = FinishBatchItem(r, s, max, kind) /\ c = Gained(k, kind)
    BY ZenonT(30), <1>5, <1>8
  <2>2. r.term[s] = Null /\ (r.att[s] # Null => ~r.att[s].terminal)
    BY ZenonT(30), <1>1, <1>2, <1>4, <1>8, BatchDecision
  <2>3. FinishedRows(q, r, s, kind)
    BY ZenonT(30), <1>2, <1>4, <1>8, <2>1, <2>2, FinishBatchItemGood
  <2>4. Kept(q, c)
    <3>1. effects[k] = 0
      BY ZenonT(30), <1>2, <1>8
    <3>2. c = IF kind = "success" THEN 1 ELSE 0
      <4> HIDE DEF c
      <4> QED
        BY <2>1, <3>1 DEF Gained
    <3> HIDE DEF c
    <3> QED
      BY ZenonT(30), <2>3, <3>2 DEF Kept, FinishedRows
  <2>5. Evolves(db[k], q)
    BY ZenonT(30), <1>2, <1>4, <2>2, <2>3, TouchesEvolves DEF FinishedRows
  <2> QED
    BY ZenonT(30), <2>3, <2>4, <2>5 DEF q, FinishedRows
<1> QED
  BY ZenonT(30), <1>6, <1>7, <1>8

\* ProcessBatchAttempt keeps the invariant.
LEMMA BatchKept ==
    ASSUME IInv, NEW ks \in SUBSET Keys, NEW max \in Limits,
           NEW batch \in [ks -> Items], NEW kinds \in [ks -> FailureKinds],
           \A k \in ks : batch[k].first \in batch[k].fps,
           ProcessBatchAttempt(batch, max, kinds)
    PROVE  IInv' /\ Evolution
<1>1. DOMAIN batch = ks
  BY ZenonT(30)
<1>2. ASSUME NEW k \in Keys
      PROVE  Kept(db'[k], effects'[k]) /\ Evolves(db[k], db'[k])
  <2>1. CASE k \in ks
    <3>1. /\ db'[k] = BatchRows(k, batch[k], max, kinds[k])
          /\ effects'[k] = IF BatchRuns(k, batch[k], max) THEN Gained(k, kinds[k]) ELSE effects[k]
      BY <1>1, <2>1 DEF ProcessBatchAttempt
    <3>2. batch[k] \in Items /\ kinds[k] \in FailureKinds
      BY <2>1
    <3> QED
      BY ZenonT(30), <2>1, <3>1, <3>2, BatchItemKept
  <2>2. CASE k \notin ks
    BY ZenonT(30), <1>1, <2>2 DEF ProcessBatchAttempt, IInv, Evolves, Open
  <2> QED
    BY <2>1, <2>2
<1>3. /\ db' = [k \in Keys |-> db'[k]]
      /\ effects' = [k \in Keys |-> effects'[k]]
  BY DEF ProcessBatchAttempt
<1>4. \A k \in Keys : db'[k] \in Rows /\ effects'[k] \in Nat
  BY <1>2 DEF Kept, WellFormed
<1> QED
  BY <1>2, <1>3, <1>4, EvolvesEnough DEF IInv

\* Reset, confirmation and retention keep the invariant.
LEMMA ForgetKept ==
    ASSUME IInv, NEW k \in Keys, NEW fp \in Fps, NEW gen \in Gens, ForgetAttempts(k, fp, gen)
    PROVE  IInv' /\ Evolution
<1> DEFINE s == AttemptFingerprint(fp, gen)
<1> DEFINE q == ForgetAttempt(db[k], s)
<1>1. s \in Slots
  BY DEF Slots, AttemptFingerprint
<1>2. WellFormed(db[k]) /\ effects[k] = IF Completed(db[k]) THEN 1 ELSE 0
  BY DEF IInv, Kept
<1>3. ~Completed(db[k]) /\ Write(k, q, effects[k])
  BY DEF ForgetAttempts
<1>4. /\ WellFormed(q) /\ NotStranded(q) /\ ~Completed(q) /\ q.term[s] = Null
      /\ \A x \in Slots \ {s} : q.att[x] = db[k].att[x] /\ q.term[x] = db[k].term[x]
  BY ZenonT(30), <1>1, <1>2, <1>3, ForgetGood
<1>5. ForgetAttempts(k, s[1], s[2])
  BY DEF AttemptFingerprint
<1> HIDE DEF q, s
<1>6. IInv'
  BY ZenonT(30), <1>2, <1>3, <1>4, WriteKept
<1>7. \A x \in Keys : db'[x] = IF x = k THEN q ELSE db[x]
  BY <1>3 DEF Write, IInv
<1>8. Evolution
  BY ZenonT(30), <1>4, <1>5, <1>7 DEF Evolution, Open, Closed
<1> QED
  BY <1>6, <1>8

\* Confirming changes nothing but the confirmation time.
LEMMA ConfirmKept ==
    ASSUME IInv, NEW k \in Keys, NEW fp \in Fps, NEW gen \in Gens, NEW now \in Times,
           ConfirmTerminalHandoff(k, fp, gen, now)
    PROVE  IInv' /\ Evolution
<1> DEFINE s == AttemptFingerprint(fp, gen)
<1> DEFINE q == ConfirmHandoff(db[k], s, now)
<1>1. s \in Slots /\ s[1] = fp
  BY DEF Slots, AttemptFingerprint
<1>2. WellFormed(db[k]) /\ effects[k] = IF Completed(db[k]) THEN 1 ELSE 0
  BY ZenonT(30) DEF IInv, Kept
<1>3. Present(db[k]) /\ db[k].ident.fp = fp /\ Closed(db[k], s) /\ Write(k, q, effects[k])
  BY SMTT(30) DEF ConfirmTerminalHandoff
<1> HIDE DEF s
<1>4. WellFormed(q) /\ Present(q) /\ NotStranded(q) /\ q.ident = db[k].ident /\ Evolves(db[k], q)
  BY ZenonT(30), <1>1, <1>2, <1>3, ConfirmGood
<1>5. Completed(q) <=> Completed(db[k])
  BY ZenonT(30), <1>4 DEF Completed
<1> HIDE DEF q
<1> QED
  BY ZenonT(30), <1>2, <1>3, <1>4, <1>5, WriteKept

\* PruneTerminalAttempts drops only incomplete identities, which have no effect.
LEMMA PruneTerminalKept ==
    ASSUME IInv, NEW gone \in [Keys -> SUBSET Slots], NEW before \in Times,
           PruneTerminalAttempts(gone, before)
    PROVE  IInv' /\ Evolution
<1>1. ASSUME NEW k \in Keys
      PROVE  Kept(db'[k], effects'[k]) /\ Evolves(db[k], db'[k])
  <2> DEFINE q == PruneSlots(db[k], gone[k])
  <2>1. /\ WellFormed(db[k]) /\ NotStranded(db[k])
        /\ effects[k] = IF Completed(db[k]) THEN 1 ELSE 0
    BY ZenonT(30) DEF IInv, Kept
  <2>2. /\ gone[k] \in SUBSET Slots /\ (gone[k] # {} => Present(db[k]) /\ ~Completed(db[k]))
        /\ \A s \in gone[k] : db[k].term[s] # Null
    BY SMTT(30) DEF PruneTerminalAttempts, ConfirmedBefore
  <2>3. /\ WellFormed(q) /\ NotStranded(q) /\ (Completed(q) <=> Completed(db[k]))
        /\ \A s \in gone[k] : q.term[s] = Null
        /\ \A s \in Slots \ gone[k] : q.att[s] = db[k].att[s] /\ q.term[s] = db[k].term[s]
    BY ZenonT(30), <2>1, <2>2, PruneSlotsGood
  <2>4. db'[k] = q /\ effects'[k] = Recount(k, db'[k], effects[k])
    BY DEF PruneTerminalAttempts
  <2> HIDE DEF q
  <2>5. Evolves(db[k], q)
    BY ZenonT(30), <2>2, <2>3 DEF Evolves, Open, Closed
  <2>6. Kept(db'[k], effects'[k])
    BY ZenonT(30), <2>1, <2>3, <2>4 DEF Kept, Recount, Completed, Present
  <2> QED
    BY <2>4, <2>5, <2>6
<1>2. /\ db' = [k \in Keys |-> db'[k]]
      /\ effects' = [k \in Keys |-> effects'[k]]
  BY ZenonT(30) DEF PruneTerminalAttempts
<1>3. \A k \in Keys : db'[k] \in Rows /\ effects'[k] \in Nat
  BY <1>1 DEF Kept, WellFormed
<1> QED
  BY <1>1, <1>2, <1>3, EvolvesEnough DEF IInv

\* No rows at all are consistent rows.
LEMMA NoRowsKept == Kept(NoRows, 0)
<1>1. NoRows \in Rows /\ NoRows.ident = Null
  BY DEF NoRows, Rows
<1>2. \A s \in Slots : NoRows.att[s] = Null /\ NoRows.term[s] = Null
  BY DEF NoRows
<1> QED
  BY <1>1, <1>2 DEF Kept, WellFormed, RowsOwned, RowsAgree, NotStranded, Present, Completed

\* Prune removes whole completed identities together with their effect.
LEMMA PruneKept ==
    ASSUME IInv, NEW doomed \in SUBSET Keys, Prune(doomed)
    PROVE  IInv' /\ Evolution
<1>1. ASSUME NEW k \in Keys
      PROVE  Kept(db'[k], effects'[k])
  <2>1. CASE k \in doomed
    <3>1. db'[k] = NoRows /\ effects'[k] = 0
      BY <2>1 DEF Prune, PruneCompleted
    <3> QED
      BY <3>1, NoRowsKept
  <2>2. CASE k \notin doomed
    BY <2>2 DEF Prune, IInv
  <2> QED
    BY <2>1, <2>2
<1>2. /\ db' = [k \in Keys |-> db'[k]]
      /\ effects' = [k \in Keys |-> effects'[k]]
  BY DEF Prune
<1>3. \A k \in Keys : db'[k] \in Rows /\ effects'[k] \in Nat
  BY <1>1 DEF Kept, WellFormed
<1>4. Evolution
  <2>1. \A s \in Slots : NoRows.term[s] = Null
    BY DEF NoRows
  <2>2. \A k \in Keys : (Completed(db[k]) /\ db'[k] = NoRows) \/ db'[k] = db[k]
    BY DEF Prune, PruneCompleted
  <2> QED
    BY <2>1, <2>2 DEF Evolution, Open, Closed
<1> QED
  BY <1>1, <1>2, <1>3, <1>4 DEF IInv

\* Every call of the store keeps the invariant and moves the rows on.
LEMMA StepGood ==
    ASSUME IInv, [Next]_vars
    PROVE  IInv' /\ (Next => Evolution)
<1>1. CASE \E k \in Keys, fp \in Fps : Process(k, fp)
  BY <1>1, ProcessKept
<1>2. CASE \E k \in Keys, fp \in Fps, gen \in Gens, max \in Limits, kind \in FailureKinds :
             ProcessAttempt(k, fp, gen, max, kind)
  BY SMTT(30), <1>2, ProcessAttemptKept
<1>3. CASE \E ks \in SUBSET Keys, max \in Limits :
             \E batch \in [ks -> Items], kinds \in [ks -> FailureKinds] :
                /\ \A k \in ks : batch[k].first \in batch[k].fps
                /\ ProcessBatchAttempt(batch, max, kinds)
  BY ZenonT(30), <1>3, BatchKept
<1>4. CASE \E k \in Keys, fp \in Fps, gen \in Gens : ForgetAttempts(k, fp, gen)
  BY <1>4, ForgetKept
<1>5. CASE \E k \in Keys, fp \in Fps, gen \in Gens, now \in Times :
             ConfirmTerminalHandoff(k, fp, gen, now)
  BY <1>5, ConfirmKept
<1>6. CASE \E gone \in [Keys -> SUBSET Slots], before \in Times :
             PruneTerminalAttempts(gone, before)
  BY <1>6, PruneTerminalKept
<1>7. CASE \E doomed \in SUBSET Keys : Prune(doomed)
  BY ZenonT(30), <1>7, PruneKept
<1>8. CASE UNCHANGED vars
  BY <1>8, EvolvesEnough DEF vars, IInv, Evolves, Open
<1> QED
  BY ZenonT(30), <1>1, <1>2, <1>3, <1>4, <1>5, <1>6, <1>7, <1>8 DEF Next

\* In the empty store every identity has no rows and no effect.
LEMMA InitGood == Init => IInv
<1> SUFFICES ASSUME Init PROVE IInv
  OBVIOUS
<1>1. \A k \in Keys : db[k] = NoRows /\ effects[k] = 0
  BY DEF Init
<1>2. NoRows \in Rows
  BY SMTT(30), NoRowsKept DEF Kept, WellFormed
<1> QED
  BY <1>1, <1>2, NoRowsKept DEF Init, IInv

\* The invariant holds initially and every call keeps it.
THEOREM Invariance == Spec => []IInv
<1>1. Init => IInv
  BY InitGood
<1>2. IInv /\ [Next]_vars => IInv'
  BY StepGood
<1> QED
  BY <1>1, <1>2, PTL DEF Spec

\* Every row keeps the shape its migration gives it.
THEOREM TypeCorrect == Spec => []TypeOK
<1>1. IInv => TypeOK
  BY DEF IInv, TypeOK
<1> QED
  BY <1>1, Invariance, PTL

\* While an identity is retained its business effect commits at most once, and
\* exactly when the identity is completed.
THEOREM OnceCorrect == Spec => []EffectivelyOnce
<1>1. IInv => EffectivelyOnce
  BY DEF IInv, Kept, EffectivelyOnce
<1> QED
  BY <1>1, Invariance, PTL

\* No counter or marker is left without its identity or under another
\* fingerprint.
THEOREM RowsCorrect == Spec => []ChildRowsOwned
<1>1. IInv => ChildRowsOwned
  BY DEF IInv, Kept, WellFormed, ChildRowsOwned
<1> QED
  BY <1>1, Invariance, PTL

\* The terminal flag of a counter and the reason of its marker agree after any
\* mixture of single and batch deliveries, resets and retention.
THEOREM MarkersCorrect == Spec => []MarkersAgree
<1>1. IInv => MarkersAgree
  BY DEF IInv, Kept, WellFormed, MarkersAgree
<1> QED
  BY <1>1, Invariance, PTL

\* No incomplete identity is left where neither retention path finds it.
THEOREM RetentionComplete == Spec => []NothingStranded
<1>1. IInv => NothingStranded
  BY DEF IInv, Kept, NothingStranded
<1> QED
  BY <1>1, Invariance, PTL

\* A closed generation keeps its counter, its reason and its count for as long as
\* its marker is retained, under any limits.
THEOREM FrozenCorrect == Spec => ClosedFrozen
<1> DEFINE Freeze == \A k \in Keys, s \in Slots :
                       Closed(db[k], s) /\ Closed(db'[k], s)
                         => /\ db'[k].att[s] = db[k].att[s]
                            /\ db'[k].term[s].kind = db[k].term[s].kind
                            /\ db'[k].term[s].attempts = db[k].term[s].attempts
<1>1. IInv /\ [Next]_vars => [Freeze]_vars
  BY ZenonT(30), StepGood DEF Evolution
<1> QED
  BY <1>1, Invariance, PTL DEF Spec, ClosedFrozen

\* Only ForgetAttempt for that generation removes the counter of a generation
\* that is still open, from an identity that is not completed.
THEOREM SurvivalCorrect == Spec => OpenSurvives
<1> DEFINE Survive == \A k \in Keys, s \in Slots :
                        Open(db[k], s) /\ ~Completed(db[k])
                          => db'[k].att[s] # Null \/ ForgetAttempts(k, s[1], s[2])
<1>1. IInv /\ [Next]_vars => [Survive]_vars
  BY ZenonT(30), StepGood DEF Evolution
<1> QED
  BY <1>1, Invariance, PTL DEF Spec, OpenSurvives
=============================================================================
