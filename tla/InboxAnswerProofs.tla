-------------------------- MODULE InboxAnswerProofs --------------------------
(***************************************************************************)
(* What the callers of the Inbox store rely on: how a call moves the rows  *)
(* of an identity, and what the answer of the call says about them.  The   *)
(* consumers settle broker messages by these answers.                      *)
(***************************************************************************)
EXTENDS InboxLedgerProofs

\* A leaf goes to the SMT solver unless it names another prover.
USE SMTT(30)

\* A handler outcome that closes the slot: a permanent failure, or the counted one
\* that reaches the limit.
Fatal(r, s, max, kind) ==
    \/ kind = "permanent"
    \/ kind \in {"retry_after", "ordinary"} /\ StoredAttempt(r, s) + 1 >= max

\* q is r after a run with that outcome: the slot has a marker exactly if it closed.
Judged(q, r, s, max, kind) ==
    /\ q.ident.fp = r.ident.fp
    /\ q.term[s] = IF Fatal(r, s, max, kind)
                   THEN [kind |-> IF kind = "permanent" THEN kind ELSE "attempts_exhausted",
                         attempts |-> StoredAttempt(r, s) + 1, confirmed |-> Null]
                   ELSE Null

\* The writes of ProcessAttempt after its handler close the slot exactly when the
\* outcome is fatal.
LEMMA FinishAttemptJudges ==
    ASSUME NEW r \in Rows, Present(r), NEW s \in Slots, r.term[s] = Null,
           NEW max, NEW kind \in FailureKinds,
           NEW d, d.exists <=> r.att[s] # Null, d.attempt = StoredAttempt(r, s) + 1
    PROVE  Judged(FinishAttempt(r, s, d, max, kind), r, s, max, kind)
<1> DEFINE n == StoredAttempt(r, s) + 1
<1> DEFINE c == ConsumeAttempt(r, s, d)
<1>1. c.ident = r.ident /\ c.term = r.term
  BY DEF ConsumeAttempt, WithAttempt
<1> HIDE DEF c
<1>2. r.term = [x \in Slots |-> r.term[x]]
  BY DEF Rows
<1>3. CASE kind = "success"
  BY <1>1, <1>3 DEF c, FinishAttempt, MarkComplete, WithIdent, Judged, Fatal
<1>4. CASE kind = "defer"
  BY <1>4 DEF FinishAttempt, FinishFailedAttempt, PreserveDeferred, WithAttempt, Judged, Fatal
<1>5. CASE kind = "permanent"
  BY <1>1, <1>2, <1>5 DEF c, FinishAttempt, FinishFailedAttempt, RecordTerminal,
     MarkAttemptTerminal, WithAttempt, WithMarker, Judged, Fatal
<1>6. CASE kind \in {"retry_after", "ordinary"}
  BY <1>1, <1>2, <1>6 DEF c, FinishAttempt, FinishFailedAttempt, RecordTerminal,
     WithMarker, Judged, Fatal
<1> QED
  BY <1>3, <1>4, <1>5, <1>6 DEF FailureKinds

\* So do the writes of ProcessBatchAttempt for one active item.
LEMMA FinishBatchItemJudges ==
    ASSUME NEW r \in Rows, Present(r), NEW s \in Slots, r.term[s] = Null,
           NEW max, NEW kind \in FailureKinds
    PROVE  Judged(FinishBatchItem(r, s, max, kind), r, s, max, kind)
<1> DEFINE c == IncrementBatchAttempts(r, s)
<1>1. r.term = [x \in Slots |-> r.term[x]] /\ r.att = [x \in Slots |-> r.att[x]]
  BY DEF Rows
<1>2. c.ident = r.ident /\ c.term = r.term
  BY DEF IncrementBatchAttempts, WithAttempt
<1>3. c.att[s].n = StoredAttempt(r, s) + 1
  BY <1>1 DEF IncrementBatchAttempts, WithAttempt, StoredAttempt, FirstRow, Incremented
<1> HIDE DEF c
<1>4. CASE kind = "success"
  BY <1>2, <1>4 DEF c, FinishBatchItem, MarkComplete, WithIdent, Judged, Fatal
<1>5. CASE kind = "defer"
  BY <1>5 DEF FinishBatchItem, PreserveDeferred, WithAttempt, Judged, Fatal
<1>6. CASE kind = "permanent"
  BY <1>1, <1>2, <1>3, <1>6 DEF c, FinishBatchItem, RecordTerminal,
     MarkAttemptTerminal, WithAttempt, WithMarker, Judged, Fatal
<1>7. CASE kind \in {"retry_after", "ordinary"}
  BY <1>1, <1>2, <1>3, <1>7 DEF c, FinishBatchItem, RecordTerminal, WithMarker, Judged, Fatal
<1> QED
  BY <1>4, <1>5, <1>6, <1>7 DEF FailureKinds

\* The next rows of an identity no call resets or confirms: what is closed stays
\* closed, no confirmation appears, and a completed identity is left alone.
Follows(r, q) ==
    /\ \A s \in Slots :
          /\ Closed(r, s) => Closed(q, s)
          /\ Closed(q, s) /\ q.term[s].confirmed # Null => Closed(r, s) /\ r.term[s].confirmed # Null
    /\ Completed(r) => q = r

\* The decision of ProcessAttempt about the next delivery of fp in generation gen.
Planned(k, fp, gen, max) ==
    IF Present(db[k]) THEN NextAttempt(db[k], AttemptFingerprint(fp, gen), max) ELSE FirstAttempt

\* ProcessAttempt refuses a slot only with a reason, and runs the next attempt of
\* one that is open, within the limit.
LEMMA PlannedGood ==
    ASSUME IInv, NEW k \in Keys, NEW fp \in Fps, NEW gen \in Gens, NEW max \in Limits
    PROVE  LET d == Planned(k, fp, gen, max)
               s == AttemptFingerprint(fp, gen)
               r == Opened(k, fp)
           IN  /\ d.closed # "" => /\ r.att[s] # Null
                                   /\ d.closed \in TerminalKinds
                                   /\ r.term[s] = Null => /\ d.attempt \in Nat \ {0}
                                                          /\ d.closed = "attempts_exhausted"
               /\ d.closed = "" => /\ d.exists <=> r.att[s] # Null
                                   /\ d.attempt = StoredAttempt(r, s) + 1
                                   /\ r.term[s] = Null
                                   /\ r.att[s] # Null => ~r.att[s].terminal
                                   /\ ~(StoredAttempt(r, s) >= max)
<1> DEFINE d == Planned(k, fp, gen, max)
<1> DEFINE s == AttemptFingerprint(fp, gen)
<1> DEFINE r == Opened(k, fp)
<1>1. s \in Slots /\ max \in Nat \ {0} /\ max \in Nat
  BY CallsAssumption DEF CallsAssumption, Slots, AttemptFingerprint
<1>2. WellFormed(r)
  BY ZenonT(30), OpenedGood
<1>3. CASE Present(db[k])
  <2>1. d = NextAttempt(r, s, max)
    BY <1>3 DEF Planned, Opened
  <2> HIDE DEF d, r, s
  <2>2. CASE d.closed # ""
    BY ZenonT(30), <1>1, <1>2, <2>1, <2>2, ClosedDecision DEF d, r, s
  <2>3. CASE d.closed = ""
    <3>1. /\ d.exists <=> r.att[s] # Null
          /\ r.term[s] = Null
          /\ r.att[s] # Null => ~r.att[s].terminal
      BY ZenonT(60), <1>1, <1>2, <2>1, <2>3, RunDecision
    <3>2. /\ d.attempt = StoredAttempt(r, s) + 1
          /\ r.att[s] # Null => ~(r.att[s].n >= max)
      BY ZenonT(30), <1>1, <1>2, <2>1, <2>3, RunAttempt
    <3>3. ~(StoredAttempt(r, s) >= max)
      BY <1>1, <3>2 DEF StoredAttempt
    <3> QED
      BY ZenonT(30), <2>3, <3>1, <3>2, <3>3 DEF d, r, s
  <2> QED
    BY ZenonT(30), <2>2, <2>3 DEF d
<1>4. CASE ~Present(db[k])
  <2>1. d.closed = "" /\ ~d.exists
    BY <1>4 DEF Planned, FirstAttempt
  <2>2. d.attempt = 1
    BY <1>4 DEF Planned, FirstAttempt
  <2>3. r.att[s] = Null /\ r.term[s] = Null
    <3>1. \A x \in Slots : Opened(k, fp).att[x] = Null /\ Opened(k, fp).term[x] = Null
      BY <1>4, OpenedGood
    <3> HIDE DEF s
    <3> QED
      BY ZenonT(30), <1>1, <3>1
  <2> HIDE DEF d, r, s
  <2>4. d.attempt = StoredAttempt(r, s) + 1 /\ ~(StoredAttempt(r, s) >= max)
    BY <1>1, <2>2, <2>3 DEF StoredAttempt
  <2> QED
    BY ZenonT(30), <2>1, <2>3, <2>4 DEF d, r, s
<1> HIDE DEF d, r, s
<1> QED
  BY ZenonT(30), <1>3, <1>4

\* Closing a slot, or observing that it is closed, leaves a marker there without
\* a confirmation.
LEMMA ObservedMarks ==
    ASSUME NEW r \in Rows, NEW s \in Slots, NEW n, NEW kind \in TerminalKinds,
           r.term[s] = Null => n \in Nat \ {0},
           NEW q, q = RecordTerminal(r, s, n, kind)
    PROVE  /\ q.ident = r.ident
           /\ q.term[s] # Null /\ q.term[s].confirmed = Null
           /\ \A x \in Slots \ {s} : q.term[x] = r.term[x]
<1> DEFINE m == IF r.term[s] = Null
                THEN [kind |-> kind, attempts |-> n, confirmed |-> Null]
                ELSE [kind |-> r.term[s].kind, attempts |-> r.term[s].attempts, confirmed |-> Null]
<1>1. m \in Marker /\ m # Null /\ m.confirmed = Null
  BY SlotTyped, TablesAssumption DEF Marker, TablesAssumption
<1>2. q = WithMarker(r, s, m)
  BY ZenonT(30) DEF RecordTerminal
<1> HIDE DEF m
<1> QED
  BY <1>1, <1>2, SetMarker

\* A slot is closed by a permanent failure and by a counted failure at the limit.
LEMMA JudgedMarks ==
    ASSUME NEW r \in Rows, NEW s \in Slots, NEW max, NEW kind \in FailureKinds,
           NEW q, Judged(q, r, s, max, kind)
    PROVE  /\ Fatal(r, s, max, kind) => q.term[s] # Null /\ q.term[s].confirmed = Null
           /\ ~Fatal(r, s, max, kind) => q.term[s] = Null
<1> DEFINE m == [kind |-> IF kind = "permanent" THEN kind ELSE "attempts_exhausted",
                 attempts |-> StoredAttempt(r, s) + 1, confirmed |-> Null]
<1>1. StoredAttempt(r, s) \in Nat
  BY ZenonT(30), SlotTyped DEF StoredAttempt
<1>2. m \in Marker /\ m # Null /\ m.confirmed = Null
  BY <1>1, TablesAssumption DEF Marker, TerminalKinds, TablesAssumption
<1>3. q.term[s] = IF Fatal(r, s, max, kind) THEN m ELSE Null
  BY DEF Judged
<1> HIDE DEF m
<1> QED
  BY <1>2, <1>3

\* Inserting the identity row touches no counter and no marker.
LEMMA OpenedSlots ==
    ASSUME NEW k \in Keys, NEW fp
    PROVE  Opened(k, fp).att = db[k].att /\ Opened(k, fp).term = db[k].term
BY DEF Opened, InsertIdentity, WithIdent

\* A call moves one slot of the rows: it leaves the markers of the others alone,
\* keeps a marker that is there and confirms none.
MovesSlot(q, r, s) ==
    /\ \A x \in Slots \ {s} : q.term[x] = r.term[x]
    /\ q.term[s] # Null => q.term[s].confirmed = Null
    /\ r.term[s] # Null => q.term[s] # Null

\* What a call that moves one slot of the opened rows does to the stored ones.
LEMMA MovedFollows ==
    ASSUME IInv, NEW k \in Keys, NEW fp \in Fps, ~Completed(Opened(k, fp)),
           NEW s \in Slots, NEW q, MovesSlot(q, Opened(k, fp), s)
    PROVE  Follows(db[k], q) /\ ~Completed(db[k])
<1>1. ~Completed(db[k])
  BY ZenonT(30), OpenedGood DEF Completed, Present
<1>2. Opened(k, fp).term = db[k].term
  BY ZenonT(30), OpenedSlots
<1> QED
  BY <1>1, <1>2 DEF Follows, Closed, MovesSlot

\* What the answer of ProcessAttempt tells its caller: a refused slot is closed, a
\* success is the one that completed the identity, and a failure the caller takes
\* for final (Reported at the limit, or permanent) closed the slot.
LEMMA ProcessAttemptSettles ==
    ASSUME IInv, NEW k \in Keys, NEW fp \in Fps, NEW gen \in Gens,
           NEW max \in Limits, NEW kind \in FailureKinds,
           ProcessAttempt(k, fp, gen, max, kind)
    PROVE  LET d == Planned(k, fp, gen, max)
               s == AttemptFingerprint(fp, gen)
           IN  /\ \A j \in Keys \ {k} : db'[j] = db[j]
               /\ ~Completed(db[k]) /\ Follows(db[k], db'[k]) /\ db'[k].ident.fp = fp
               /\ d.closed # "" => /\ d.closed \in TerminalKinds
                                   /\ Closed(db'[k], s) /\ ~Completed(db'[k])
               /\ d.closed = "" => /\ ~Closed(db[k], s)
                                   /\ Completed(db'[k]) <=> kind = "success"
                                   /\ kind = "success" => ~Closed(db'[k], s)
                                   /\ kind = "permanent" => Closed(db'[k], s)
                                   /\ kind \in {"retry_after", "ordinary"} /\ d.attempt >= max
                                        => Closed(db'[k], s)
                                   /\ ~(d.attempt - 1 >= max)
<1> DEFINE r == Opened(k, fp)
<1> DEFINE s == AttemptFingerprint(fp, gen)
<1> DEFINE d == Planned(k, fp, gen, max)
<1>1. s \in Slots /\ s[1] = fp /\ max \in Nat \ {0}
  BY CallsAssumption DEF CallsAssumption, Slots, AttemptFingerprint
<1>2. WellFormed(r) /\ Present(r) /\ r \in Rows /\ (Present(db[k]) => r = db[k])
  BY ZenonT(30), OpenedGood DEF WellFormed
<1>3. /\ r.ident.fp = fp
      /\ ~Completed(r)
      /\ d.closed # "" => Write(k, RecordTerminal(r, s, d.attempt, d.closed), effects[k])
      /\ d.closed = "" => Write(k, FinishAttempt(r, s, d, max, kind), Gained(k, kind))
  BY ZenonT(30), <1>2 DEF ProcessAttempt, Planned
<1>4. /\ d.closed # "" => /\ r.att[s] # Null
                          /\ d.closed \in TerminalKinds
                          /\ r.term[s] = Null => /\ d.attempt \in Nat \ {0}
                                                 /\ d.closed = "attempts_exhausted"
      /\ d.closed = "" => /\ d.exists <=> r.att[s] # Null
                          /\ d.attempt = StoredAttempt(r, s) + 1
                          /\ r.term[s] = Null
                          /\ r.att[s] # Null => ~r.att[s].terminal
                          /\ ~(StoredAttempt(r, s) >= max)
  BY ZenonT(30), PlannedGood
<1>5. r.term = db[k].term
  BY OpenedSlots
<1>6. \A rows, count : Write(k, rows, count) =>
          db'[k] = rows /\ \A j \in Keys \ {k} : db'[j] = db[j]
  BY DEF Write, IInv
<1>7. ~Completed(r)
  BY ZenonT(30), <1>3
<1>8. ASSUME NEW q, MovesSlot(q, r, s)
      PROVE  Follows(db[k], q) /\ ~Completed(db[k])
  <2> HIDE DEF s
  <2> QED
    BY ZenonT(30), <1>1, <1>7, <1>8, MovedFollows
<1> HIDE DEF d, r, s
<1>9. CASE d.closed # ""
  <2> DEFINE q == RecordTerminal(r, s, d.attempt, d.closed)
  <2>1. d.closed \in TerminalKinds /\ (r.term[s] = Null => d.attempt \in Nat \ {0})
    BY ZenonT(30), <1>4, <1>9
  <2>2. /\ q.ident = r.ident
        /\ q.term[s] # Null /\ q.term[s].confirmed = Null
        /\ \A x \in Slots \ {s} : q.term[x] = r.term[x]
    BY <1>1, <1>2, <2>1, ObservedMarks
  <2>3. db'[k] = q /\ \A j \in Keys \ {k} : db'[j] = db[j]
    BY ZenonT(30), <1>3, <1>6, <1>9
  <2> HIDE DEF q
  <2>4. Follows(db[k], q) /\ ~Completed(db[k])
    BY ZenonT(30), <1>8, <2>2 DEF MovesSlot
  <2>5. ~Completed(q) /\ Closed(q, s) /\ q.ident.fp = fp
    BY ZenonT(30), <1>3, <2>2 DEF Completed, Closed
  <2> QED
    BY ZenonT(30), <1>4, <1>9, <2>3, <2>4, <2>5 DEF d, s
<1>10. CASE d.closed = ""
  <2> DEFINE q == FinishAttempt(r, s, d, max, kind)
  <2>1. Judged(q, r, s, max, kind)
    BY ZenonT(30), <1>1, <1>2, <1>4, <1>10, FinishAttemptJudges
  <2>2. Touches(q, r, s) /\ (Completed(q) <=> kind = "success")
    BY ZenonT(30), <1>1, <1>2, <1>3, <1>4, <1>10, FinishAttemptGood DEF FinishedRows
  <2>3. db'[k] = q /\ \A j \in Keys \ {k} : db'[j] = db[j]
    BY ZenonT(30), <1>3, <1>6, <1>10
  <2> HIDE DEF q
  <2>4. /\ Fatal(r, s, max, kind) => q.term[s] # Null /\ q.term[s].confirmed = Null
        /\ ~Fatal(r, s, max, kind) => q.term[s] = Null
    BY ZenonT(30), <1>1, <1>2, <2>1, JudgedMarks
  <2>5. Follows(db[k], q) /\ ~Completed(db[k])
    BY ZenonT(30), <1>4, <1>8, <1>10, <2>2, <2>4 DEF Touches, MovesSlot
  <2>6. q.ident.fp = fp
    BY ZenonT(30), <1>3, <2>1 DEF Judged
  <2>7. d.attempt = StoredAttempt(r, s) + 1 /\ r.term[s] = Null /\ ~(StoredAttempt(r, s) >= max)
    BY ZenonT(30), <1>4, <1>10
  <2>8. /\ ~Closed(db[k], s)
        /\ kind = "success" => ~Closed(q, s)
        /\ kind = "permanent" => Closed(q, s)
        /\ kind \in {"retry_after", "ordinary"} /\ d.attempt >= max => Closed(q, s)
    BY ZenonT(30), <1>5, <2>4, <2>7 DEF Fatal, Closed
  <2>9. ~(d.attempt - 1 >= max)
    <3>1. StoredAttempt(r, s) \in Nat
      BY ZenonT(30), <1>1, <1>2, SlotTyped DEF StoredAttempt
    <3> QED
      BY <1>1, <2>7, <3>1
  <2> QED
    BY ZenonT(30), <1>10, <2>2, <2>3, <2>5, <2>6, <2>8, <2>9 DEF d, s
<1> QED
  BY ZenonT(30), <1>9, <1>10 DEF d, s

\* What the report of ProcessBatchAttempt tells about one identity: an entry is
\* acknowledged only with a completed identity, one that is reported as failed for
\* good is closed, and the item that completes the identity was open before.
LEMMA BatchItemSettles ==
    ASSUME IInv, NEW k \in Keys, NEW item \in Items, item.first \in item.fps,
           NEW max \in Limits, NEW kind \in FailureKinds
    PROVE  LET q == BatchRows(k, item, max, kind)
               s == AttemptFingerprint(q.ident.fp, item.gen)
               wins == kind = "success" /\ BatchRuns(k, item, max)
           IN  /\ Follows(db[k], q) /\ q.ident.fp \in Fps
               /\ Completed(q) <=> Completed(db[k]) \/ wins
               /\ wins => ~Completed(db[k]) /\ ~Closed(db[k], s) /\ ~Closed(q, s)
               /\ \A fp \in item.fps :
                     LET outcome == BatchOutcome(k, item, fp, max, kind)
                     IN  /\ outcome = "ack" => fp = q.ident.fp /\ Completed(q)
                         /\ outcome \in TerminalKinds => fp = q.ident.fp /\ Closed(q, s) /\ ~wins
                         /\ outcome \in TerminalKinds \cup {"ack", "defer", "retry", "identity_conflict"}
<1> DEFINE r == Opened(k, item.first)
<1> DEFINE f == r.ident.fp
<1> DEFINE s == AttemptFingerprint(f, item.gen)
<1> DEFINE q == BatchRows(k, item, max, kind)
<1> DEFINE wins == kind = "success" /\ BatchRuns(k, item, max)
<1> DEFINE outcome(fp) == BatchOutcome(k, item, fp, max, kind)
<1>1. item.first \in Fps /\ item.gen \in Gens /\ max \in Nat \ {0}
  BY CallsAssumption DEF CallsAssumption, Items
<1>2. /\ WellFormed(r) /\ Present(r) /\ r \in Rows
      /\ Present(db[k]) => r = db[k]
      /\ ~Present(db[k]) => f = item.first /\ ~Completed(r)
  BY ZenonT(30), <1>1, OpenedGood DEF WellFormed
<1>3. f \in Fps /\ s \in Slots /\ s[1] = f
  BY <1>1, <1>2, SlotTyped DEF Slots, AttemptFingerprint, Identity, Rows, Present
<1>4. r.term = db[k].term
  BY OpenedSlots
<1>5. q = IF f \notin item.fps \/ Completed(r) THEN r
          ELSE IF BatchClosed(r, s, max)
          THEN RecordTerminal(r, s, r.att[s].n, BatchClosedKind(r, s))
          ELSE FinishBatchItem(r, s, max, kind)
  BY ZenonT(30) DEF BatchRows
<1>6. wins <=> /\ kind = "success" /\ f \in item.fps /\ ~Completed(r)
              /\ ~BatchClosed(r, s, max)
  BY ZenonT(30) DEF BatchRuns
<1>7. \A fp : outcome(fp) =
          IF f # fp THEN "identity_conflict"
          ELSE IF Completed(r) THEN "ack"
          ELSE IF BatchClosed(r, s, max) THEN BatchClosedKind(r, s)
          ELSE IF kind = "success" THEN "ack"
          ELSE IF kind \in {"defer", "permanent"} THEN kind
          ELSE IF StoredAttempt(r, s) + 1 >= max THEN "attempts_exhausted" ELSE "retry"
  BY ZenonT(30) DEF BatchOutcome
<1>8. ASSUME ~Completed(r), NEW p, MovesSlot(p, r, s)
      PROVE  Follows(db[k], p) /\ ~Completed(db[k])
  <2> HIDE DEF s
  <2> QED
    BY ZenonT(30), <1>1, <1>3, <1>8, MovedFollows
<1> HIDE DEF r, s, q, wins, outcome
<1> DEFINE Settles(fp) ==
           /\ outcome(fp) = "ack" => fp = f /\ Completed(q)
           /\ outcome(fp) \in TerminalKinds => fp = f /\ Closed(q, s) /\ ~wins
           /\ outcome(fp) \in TerminalKinds \cup {"ack", "defer", "retry", "identity_conflict"}
<1> DEFINE Goal ==
           /\ Follows(db[k], q) /\ q.ident.fp = f
           /\ Completed(q) <=> Completed(db[k]) \/ wins
           /\ wins => ~Completed(db[k]) /\ ~Closed(db[k], s) /\ ~Closed(q, s)
           /\ \A fp \in item.fps : Settles(fp)
<1>9. ASSUME f \notin item.fps \/ Completed(r)
      PROVE  Goal
  <2>1. q = r /\ ~wins
    BY ZenonT(30), <1>5, <1>6, <1>9
  <2>2. r = db[k]
    BY ZenonT(30), <1>2, <1>9
  <2>3. Follows(db[k], q)
    BY <2>1, <2>2 DEF Follows
  <2>4. ASSUME NEW fp \in item.fps PROVE Settles(fp)
    <3>1. outcome(fp) = IF f # fp THEN "identity_conflict" ELSE "ack"
      BY ZenonT(30), <1>7, <1>9
    <3> QED
      BY <1>9, <2>1, <3>1 DEF TerminalKinds
  <2> QED
    BY ZenonT(30), <2>1, <2>2, <2>3, <2>4
<1>10. ASSUME f \in item.fps, ~Completed(r), BatchClosed(r, s, max)
       PROVE  Goal
  <2>1. q = RecordTerminal(r, s, r.att[s].n, BatchClosedKind(r, s)) /\ ~wins
    BY ZenonT(30), <1>5, <1>6, <1>10
  <2>2. /\ BatchClosedKind(r, s) \in TerminalKinds
        /\ r.term[s] = Null => r.att[s].n \in Nat \ {0}
    BY ZenonT(30), <1>1, <1>2, <1>3, <1>10, BatchDecision
  <2>3. /\ q.ident = r.ident
        /\ q.term[s] # Null /\ q.term[s].confirmed = Null
        /\ \A x \in Slots \ {s} : q.term[x] = r.term[x]
    BY <1>2, <1>3, <2>1, <2>2, ObservedMarks
  <2>4. Follows(db[k], q) /\ ~Completed(db[k])
    BY ZenonT(30), <1>8, <1>10, <2>3 DEF MovesSlot
  <2>5. ~Completed(q) /\ Closed(q, s)
    BY ZenonT(30), <1>10, <2>3 DEF Completed, Closed
  <2>6. ASSUME NEW fp \in item.fps PROVE Settles(fp)
    <3>1. outcome(fp) = IF f # fp THEN "identity_conflict" ELSE BatchClosedKind(r, s)
      BY ZenonT(30), <1>7, <1>10
    <3> QED
      BY <2>1, <2>2, <2>5, <3>1 DEF TerminalKinds
  <2> QED
    BY ZenonT(30), <2>1, <2>3, <2>4, <2>5, <2>6
<1>11. ASSUME f \in item.fps, ~Completed(r), ~BatchClosed(r, s, max)
       PROVE  Goal
  <2>1. q = FinishBatchItem(r, s, max, kind) /\ (wins <=> kind = "success")
    BY ZenonT(30), <1>5, <1>6, <1>11
  <2>2. r.term[s] = Null /\ (r.att[s] # Null => ~r.att[s].terminal)
    BY ZenonT(30), <1>1, <1>2, <1>3, <1>11, BatchDecision
  <2>3. Judged(q, r, s, max, kind)
    BY ZenonT(30), <1>2, <1>3, <2>1, <2>2, FinishBatchItemJudges
  <2>4. Touches(q, r, s) /\ (Completed(q) <=> kind = "success")
    BY ZenonT(30), <1>2, <1>3, <1>11, <2>1, <2>2, FinishBatchItemGood DEF FinishedRows
  <2>5. /\ Fatal(r, s, max, kind) => q.term[s] # Null /\ q.term[s].confirmed = Null
        /\ ~Fatal(r, s, max, kind) => q.term[s] = Null
    BY ZenonT(30), <1>2, <1>3, <2>3, JudgedMarks
  <2>6. Follows(db[k], q) /\ ~Completed(db[k])
    BY ZenonT(30), <1>8, <1>11, <2>2, <2>4, <2>5 DEF Touches, MovesSlot
  <2>7. ~Closed(db[k], s) /\ (kind = "success" => ~Closed(q, s))
    BY <1>4, <2>2, <2>5 DEF Fatal, Closed
  <2>8. ASSUME NEW fp \in item.fps PROVE Settles(fp)
    <3>1. outcome(fp) = IF f # fp THEN "identity_conflict"
                        ELSE IF kind = "success" THEN "ack"
                        ELSE IF kind \in {"defer", "permanent"} THEN kind
                        ELSE IF StoredAttempt(r, s) + 1 >= max THEN "attempts_exhausted" ELSE "retry"
      BY ZenonT(30), <1>7, <1>11
    <3>2. outcome(fp) \in TerminalKinds => fp = f /\ kind # "success" /\ Fatal(r, s, max, kind)
      BY <3>1 DEF TerminalKinds, Fatal, FailureKinds
    <3>3. outcome(fp) = "ack" => fp = f /\ kind = "success"
      BY <3>1
    <3>4. outcome(fp) \in TerminalKinds \cup {"ack", "defer", "retry", "identity_conflict"}
      BY <3>1 DEF TerminalKinds
    <3> QED
      BY ZenonT(30), <2>1, <2>4, <2>5, <3>2, <3>3, <3>4 DEF Closed
  <2> QED
    BY ZenonT(30), <2>1, <2>3, <2>4, <2>6, <2>7, <2>8 DEF Judged
<1>12. Goal
  BY ZenonT(30), <1>9, <1>10, <1>11
<1> QED
  BY ZenonT(30), <1>3, <1>12 DEF r, s, q, wins, outcome

\* ConfirmTerminalHandoff closes and opens nothing, completes nothing, and
\* confirms no slot but its own.
LEMMA ConfirmSettles ==
    ASSUME IInv, NEW k \in Keys, NEW fp \in Fps, NEW gen \in Gens, NEW now \in Times,
           ConfirmTerminalHandoff(k, fp, gen, now)
    PROVE  /\ \A j \in Keys \ {k} : db'[j] = db[j]
           /\ db'[k].ident = db[k].ident
           /\ \A x \in Slots : Closed(db'[k], x) <=> Closed(db[k], x)
           /\ \A x \in Slots \ {AttemptFingerprint(fp, gen)} : db'[k].term[x] = db[k].term[x]
<1> DEFINE s == AttemptFingerprint(fp, gen)
<1> DEFINE m == [kind |-> db[k].term[s].kind, attempts |-> db[k].term[s].attempts,
                 confirmed |-> IF db[k].term[s].confirmed # Null /\ db[k].term[s].confirmed > now
                               THEN db[k].term[s].confirmed ELSE now]
<1>1. s \in Slots /\ db[k] \in Rows
  BY DEF Slots, AttemptFingerprint, IInv
<1>2. Closed(db[k], s)
  BY DEF ConfirmTerminalHandoff
<1>3. m \in Marker /\ m # Null
  <2> DEFINE c == m.confirmed
  <2>1. /\ db[k].term[s].kind \in TerminalKinds /\ db[k].term[s].attempts \in Nat \ {0}
        /\ db[k].term[s] \in Marker
    BY ZenonT(30), <1>1, <1>2, SlotTyped DEF Closed
  <2>2. c \in Times
    BY <2>1 DEF Marker
  <2>3. m = [kind |-> db[k].term[s].kind, attempts |-> db[k].term[s].attempts, confirmed |-> c]
    OBVIOUS
  <2> HIDE DEF m, c, s
  <2> QED
    BY <2>1, <2>2, <2>3, TablesAssumption DEF Marker, TablesAssumption
<1>4. db'[k] = WithMarker(db[k], s, m) /\ \A j \in Keys \ {k} : db'[j] = db[j]
  BY ZenonT(30) DEF ConfirmTerminalHandoff, ConfirmHandoff, Write, IInv
<1> HIDE DEF m, s
<1>5. /\ db'[k].ident = db[k].ident
      /\ db'[k].term[s] = m
      /\ \A x \in Slots \ {s} : db'[k].term[x] = db[k].term[x]
  BY <1>1, <1>3, <1>4, SetMarker
<1>6. \A x \in Slots : Closed(db'[k], x) <=> Closed(db[k], x)
  BY <1>2, <1>3, <1>5 DEF Closed
<1> QED
  BY ZenonT(30), <1>4, <1>5, <1>6 DEF s
=============================================================================
