---------------------------- MODULE NatsGroupProofs ----------------------------
(***************************************************************************)
(* The batch consumer's call of the Inbox, and what the steps of the       *)
(* group's parts give together: the theorems about the NATS consumers.     *)
(***************************************************************************)
EXTENDS NatsProofs, WellFoundedInduction

\* A leaf goes to the SMT solver unless it names another prover.
USE SMTT(30)

\* A set of natural numbers that is not empty has a least element.
LEMMA HasLeast ==
    ASSUME NEW T \in SUBSET Nat, T # {}
    PROVE  \E d \in T : \A e \in T : d <= e
<1> DEFINE R == {p \in Nat \X Nat : p[1] < p[2]}
<1>1. IsWellFoundedOn(R, Nat)
  BY ZenonT(30), NatLessThanWellFounded DEF OpToRel
<1>2. PICK d \in T : \A e \in T : <<e, d>> \notin R
  BY ZenonT(30), <1>1, WFMin
<1>3. \A e \in T : ~(e < d)
  BY ZenonT(30), <1>2
<1> QED
  BY <1>3

\* The call of the Inbox names known identities, groups the deliveries of one
\* identity, and gives the group their one generation.
LEMMA BatchItemsGood ==
    ASSUME SharedInv, BatchInv, NEW w \in Workers, phase[w] = "process"
    PROVE  /\ DOMAIN BatchItems(w) \subseteq Keys
           /\ \A k \in DOMAIN BatchItems(w) :
                 BatchItems(w)[k] \in Items /\ BatchItems(w)[k].first \in BatchItems(w)[k].fps
           /\ \A d \in In(w, {"valid"}) :
                 LET m == Of(held[w][d])
                 IN  /\ m.key \in DOMAIN BatchItems(w) /\ m.fp \in BatchItems(w)[m.key].fps
                     /\ m.gen = BatchItems(w)[m.key].gen
<1> DEFINE V == In(w, {"valid"})
           mail(d) == Of(held[w][d])
           least(k) == CHOOSE d \in Group(w, k) : \A e \in Group(w, k) : d <= e
<1>1. \A d \in V : d \in Deliveries(w) /\ held[w][d].step = "valid"
  BY DEF In
<1>2. \A d \in V : mail(d).key \in Keys /\ mail(d).fp \in Fps /\ mail(d).gen \in Gens
  <2> TAKE d \in V
  <2>1. PICK i \in DOMAIN stream : stream[i] = mail(d)
    BY ZenonT(30), <1>1, BatchOwed
  <2> QED
    BY ZenonT(30), <2>1, BrokerTyped DEF SharedInv
<1>3. \A d \in V : d \in Nat
  BY ZenonT(30), <1>1, BatchTyped
<1>4. \A d, e \in V : mail(d).key = mail(e).key => mail(d).gen = mail(e).gen
  <2>1. OneGeneration(held[w]) /\ Decoded(held[w])
    BY ZenonT(30) DEF BatchInv, BatchGood
  <2> TAKE d, e \in V
  <2>2. Joins(held[w][d]) /\ Joins(held[w][e])
    BY ZenonT(30), <1>1, <2>1 DEF Decoded, Joins, Deliveries
  <2> QED
    BY ZenonT(30), <1>1, <2>1, <2>2 DEF OneGeneration, Deliveries
<1>5. \A k : Group(w, k) = {d \in V : mail(d).key = k}
  BY DEF Group
<1>6. \A d \in V : LET l == least(mail(d).key) IN l \in V /\ mail(l).key = mail(d).key
  <2> TAKE d \in V
  <2> DEFINE k == mail(d).key
  <2>1. Group(w, k) \in SUBSET Nat /\ Group(w, k) # {}
    BY ZenonT(30), <1>3, <1>5
  <2>2. \E l \in Group(w, k) : \A e \in Group(w, k) : l <= e
    BY ZenonT(30), <2>1, HasLeast
  <2>3. least(k) \in Group(w, k)
    BY ZenonT(30), <2>2
  <2> QED
    BY ZenonT(30), <1>5, <2>3
<1>7. /\ DOMAIN BatchItems(w) = {mail(d).key : d \in V}
      /\ \A d \in V : BatchItems(w)[mail(d).key] =
             [first |-> mail(least(mail(d).key)).fp,
              fps   |-> {mail(e).fp : e \in Group(w, mail(d).key)},
              gen   |-> mail(least(mail(d).key)).gen]
  BY ZenonT(30) DEF BatchItems
<1> HIDE DEF V, mail, least
<1>8. ASSUME NEW d \in V
      PROVE  LET item == BatchItems(w)[mail(d).key]
             IN  /\ item \in Items /\ item.first \in item.fps
                 /\ mail(d).fp \in item.fps /\ mail(d).gen = item.gen
  <2>1. PICK k, l : k = mail(d).key /\ l = least(k)
    OBVIOUS
  <2>2. l \in V /\ mail(l).key = k
    BY ZenonT(30), <1>6, <2>1
  <2>3. BatchItems(w)[k] = [first |-> mail(l).fp, fps |-> {mail(e).fp : e \in Group(w, k)}, gen |-> mail(l).gen]
    BY ZenonT(30), <1>7, <2>1
  <2>4. d \in Group(w, k) /\ l \in Group(w, k) /\ Group(w, k) \subseteq V
    BY ZenonT(30), <1>5, <2>1, <2>2
  <2>5. mail(d).gen = mail(l).gen
    BY ZenonT(30), <1>4, <2>1, <2>2
  <2> QED
    BY <1>2, <2>1, <2>2, <2>3, <2>4, <2>5 DEF Items
<1> QED
  BY ZenonT(30), <1>2, <1>7, <1>8 DEF V, mail

\* A committed batch call is sound: it adds at most one winner, of the content and
\* the generation the call gave, for each identity.
LEMMA BatchCallSound ==
    ASSUME SharedInv, NEW B, NEW ks \in SUBSET Keys, B \in [ks -> Items],
           \A k \in ks : B[k].first \in B[k].fps,
           NEW max \in Limits, NEW kinds \in [ks -> FailureKinds],
           ProcessBatchAttempt(B, max, kinds), UNCHANGED broker, NEW W, won' = won \cup W,
           \A k \in ks : kinds[k] = "success" /\ BatchRuns(k, B[k], max)
                            => <<k, db'[k].ident.fp, B[k].gen>> \in W,
           \A t \in W : \E k \in ks : /\ kinds[k] = "success" /\ BatchRuns(k, B[k], max)
                                    /\ t = <<k, db'[k].ident.fp, B[k].gen>>
    PROVE  Sound
<1> DEFINE runs(k) == kinds[k] = "success" /\ BatchRuns(k, B[k], max)
<1>1. IInv' /\ IInv
  BY ZenonT(30), BatchKept DEF SharedInv
<1>2. \A k \in Keys : /\ k \in ks => db'[k] = BatchRows(k, B[k], max, kinds[k])
                      /\ k \notin ks => db'[k] = db[k]
  BY DEF ProcessBatchAttempt
<1>3. \A k \in ks : /\ Follows(db[k], db'[k]) /\ db'[k].ident.fp \in Fps
                    /\ Completed(db'[k]) <=> Completed(db[k]) \/ runs(k)
                    /\ runs(k) => /\ ~Completed(db[k])
                                  /\ ~Closed(db'[k], AttemptFingerprint(db'[k].ident.fp, B[k].gen))
  <2> TAKE k \in ks
  <2>1. k \in Keys /\ B[k] \in Items /\ B[k].first \in B[k].fps /\ kinds[k] \in FailureKinds
    BY ZenonT(30)
  <2>2. db'[k] = BatchRows(k, B[k], max, kinds[k])
    BY <1>2
  <2>3. LET q == BatchRows(k, B[k], max, kinds[k])
        IN  /\ Follows(db[k], q) /\ q.ident.fp \in Fps
            /\ Completed(q) <=> Completed(db[k]) \/ runs(k)
            /\ runs(k) => /\ ~Completed(db[k])
                          /\ ~Closed(q, AttemptFingerprint(q.ident.fp, B[k].gen))
    BY ZenonT(30), <1>1, <2>1, BatchItemSettles
  <2> QED
    BY ZenonT(30), <2>2, <2>3
<1>4. \A k \in ks : B[k].gen \in Gens
  BY DEF Items
<1>5. \A r : Follows(r, r)
  BY ZenonT(30) DEF Follows
<1>6. \A k \in Keys : Follows(db[k], db'[k])
  BY ZenonT(30), <1>2, <1>3, <1>5
<1>7. \A k \in ks : runs(k) => <<k, db'[k].ident.fp, B[k].gen>> \in W
  BY ZenonT(30)
<1>8. \A t \in W : \E k \in ks : runs(k) /\ t = <<k, db'[k].ident.fp, B[k].gen>>
  BY ZenonT(30)
<1> HIDE DEF runs
<1>9. \A k \in Keys : Completed(db'[k]) => Completed(db[k]) \/ \E t \in W : t[1] = k
  <2> SUFFICES ASSUME NEW k \in Keys, Completed(db'[k]), ~Completed(db[k])
               PROVE  \E t \in W : t[1] = k
    BY ZenonT(30)
  <2>1. k \in ks /\ runs(k)
    BY ZenonT(30), <1>2, <1>3
  <2>2. <<k, db'[k].ident.fp, B[k].gen>> \in W
    BY ZenonT(30), <1>7, <2>1
  <2>3. \A x, y, z : <<x, y, z>>[1] = x
    BY ZenonT(30)
  <2> QED
    BY ZenonT(30), <2>2, <2>3
<1>10. \A t \in W : \E k \in ks, fp \in Fps, gen \in Gens :
          t = <<k, fp, gen>> /\ runs(k) /\ fp = db'[k].ident.fp /\ gen = B[k].gen
  BY ZenonT(30), <1>3, <1>4, <1>8
<1>11. W \subseteq Keys \X Fps \X Gens /\ \A t, u \in W : t[1] = u[1] => t = u
  BY <1>10
<1>12. \A t \in W : /\ ~Completed(db[t[1]])
                    /\ Completed(db'[t[1]]) /\ db'[t[1]].ident.fp = t[2]
                    /\ ~Closed(db'[t[1]], AttemptFingerprint(t[2], t[3]))
  <2> TAKE t \in W
  <2>1. PICK k \in ks, fp \in Fps, gen \in Gens :
          t = <<k, fp, gen>> /\ runs(k) /\ fp = db'[k].ident.fp /\ gen = B[k].gen
    BY ZenonT(30), <1>10
  <2>2. t[1] = k /\ t[2] = fp /\ t[3] = gen
    BY <2>1
  <2> QED
    BY ZenonT(30), <1>3, <2>1, <2>2
<1>13. StoreStep(W)
  BY ZenonT(30), <1>1, <1>6, <1>9, <1>11, <1>12 DEF StoreStep
<1> QED
  BY ZenonT(30), <1>13, StoreSound

\* What a committed batch call reports of one content of an item agrees with the
\* rows it leaves.
LEMMA BatchOutcomeTrue ==
    ASSUME IInv, NEW k \in Keys, NEW item \in Items, item.first \in item.fps,
           NEW max \in Limits, NEW kind \in FailureKinds, NEW fp \in item.fps
    PROVE  LET q == BatchRows(k, item, max, kind)
               outcome == BatchOutcome(k, item, fp, max, kind)
           IN  /\ outcome = "ack" => fp = q.ident.fp /\ Completed(q)
               /\ outcome \in HandlerFates => Closed(q, AttemptFingerprint(fp, item.gen))
               /\ outcome \in HandlerFates \cup {"ack", "defer", "retry", "identity_conflict"}
<1>1. TerminalKinds = HandlerFates
  BY DEF TerminalKinds, HandlerFates
<1>2. LET p == BatchRows(k, item, max, kind)
          s == AttemptFingerprint(p.ident.fp, item.gen)
          wins == kind = "success" /\ BatchRuns(k, item, max)
      IN  /\ Follows(db[k], p) /\ p.ident.fp \in Fps
          /\ Completed(p) <=> Completed(db[k]) \/ wins
          /\ wins => ~Completed(db[k]) /\ ~Closed(db[k], s) /\ ~Closed(p, s)
          /\ \A f \in item.fps :
                LET o == BatchOutcome(k, item, f, max, kind)
                IN  /\ o = "ack" => f = p.ident.fp /\ Completed(p)
                    /\ o \in TerminalKinds => f = p.ident.fp /\ Closed(p, s) /\ ~wins
                    /\ o \in TerminalKinds \cup {"ack", "defer", "retry", "identity_conflict"}
  BY ZenonT(30), BatchItemSettles
<1>3. LET q == BatchRows(k, item, max, kind)
          outcome == BatchOutcome(k, item, fp, max, kind)
      IN  /\ outcome = "ack" => fp = q.ident.fp /\ Completed(q)
          /\ outcome \in TerminalKinds => fp = q.ident.fp /\ Closed(q, AttemptFingerprint(q.ident.fp, item.gen))
          /\ outcome \in TerminalKinds \cup {"ack", "defer", "retry", "identity_conflict"}
  BY ZenonT(30), <1>2
<1> QED
  BY ZenonT(30), <1>1, <1>3

\* What the report of a committed batch says of a delivery is true: what is to be
\* acknowledged has won, what failed for good is closed.
LEMMA BatchReports ==
    ASSUME SharedInv, BatchInv, NEW w \in Workers, phase[w] = "process",
           NEW max \in Limits, NEW kinds \in [DOMAIN BatchItems(w) -> FailureKinds],
           ProcessBatchAttempt(BatchItems(w), max, kinds),
           won' = won \cup Wins(w, max, kinds), UNCHANGED broker
    PROVE  /\ Sound
           /\ \A d \in In(w, {"valid"}) :
                 LET m == Of(held[w][d])
                     outcome == BatchOutcome(m.key, BatchItems(w)[m.key], m.fp, max, kinds[m.key])
                 IN  /\ outcome = "ack" => \E gen \in Gens : <<m.key, m.fp, gen>> \in won'
                     /\ outcome \in HandlerFates => Closed(db'[m.key], AttemptFingerprint(m.fp, m.gen))
                     /\ outcome \in HandlerFates \cup {"ack", "defer", "retry", "identity_conflict"}
<1>1. PICK B : B = BatchItems(w)
  OBVIOUS
<1>2. /\ DOMAIN B \subseteq Keys
      /\ \A k \in DOMAIN B : B[k] \in Items /\ B[k].first \in B[k].fps
      /\ \A d \in In(w, {"valid"}) :
            LET m == Of(held[w][d])
            IN  m.key \in DOMAIN B /\ m.fp \in B[m.key].fps /\ m.gen = B[m.key].gen
  BY ZenonT(30), <1>1, BatchItemsGood
<1>3. PICK ks : ks = DOMAIN B
  OBVIOUS
<1>4. ks \in SUBSET Keys /\ kinds \in [ks -> FailureKinds] /\ \A k \in ks : B[k].first \in B[k].fps
  BY ZenonT(30), <1>1, <1>2, <1>3
<1>5. B \in [ks -> Items]
  <2>1. B = [k \in ks |-> B[k]]
    BY ZenonT(30), <1>1, <1>3 DEF BatchItems
  <2> QED
    BY <1>2, <1>3, <2>1
<1>6. ProcessBatchAttempt(B, max, kinds)
  BY ZenonT(30), <1>1
<1>7. PICK W : W = Wins(w, max, kinds)
  OBVIOUS
<1>8. /\ \A k \in ks : kinds[k] = "success" /\ BatchRuns(k, B[k], max)
                         => <<k, db'[k].ident.fp, B[k].gen>> \in W
      /\ \A t \in W : \E k \in ks : /\ kinds[k] = "success" /\ BatchRuns(k, B[k], max)
                                  /\ t = <<k, db'[k].ident.fp, B[k].gen>>
  BY ZenonT(30), <1>1, <1>3, <1>7 DEF Wins
<1>9. Sound
  <2>1. won' = won \cup W
    BY ZenonT(30), <1>7
  <2> QED
    BY ZenonT(30), <1>4, <1>5, <1>6, <1>8, <2>1, BatchCallSound
<1>10. ASSUME NEW d \in In(w, {"valid"}), NEW m, m = Of(held[w][d]), NEW outcome,
             outcome = BatchOutcome(m.key, B[m.key], m.fp, max, kinds[m.key])
      PROVE  /\ outcome = "ack" => \E gen \in Gens : <<m.key, m.fp, gen>> \in won'
             /\ outcome \in HandlerFates => Closed(db'[m.key], AttemptFingerprint(m.fp, m.gen))
             /\ outcome \in HandlerFates \cup {"ack", "defer", "retry", "identity_conflict"}
  <2>1. PICK k, fp : k \in ks /\ fp \in B[k].fps /\ k = m.key /\ fp = m.fp /\ m.gen = B[k].gen
    BY ZenonT(30), <1>2, <1>3, <1>10
  <2>2. k \in Keys /\ B[k] \in Items /\ B[k].first \in B[k].fps /\ kinds[k] \in FailureKinds
    BY <1>4, <1>5, <2>1
  <2>3. db'[k] = BatchRows(k, B[k], max, kinds[k])
    BY ZenonT(30), <1>3, <1>6, <2>1, <2>2 DEF ProcessBatchAttempt
  <2>4. /\ outcome = "ack" => fp = db'[k].ident.fp /\ Completed(db'[k])
        /\ outcome \in HandlerFates => Closed(db'[k], AttemptFingerprint(fp, B[k].gen))
        /\ outcome \in HandlerFates \cup {"ack", "defer", "retry", "identity_conflict"}
    <3>1. outcome = BatchOutcome(k, B[k], fp, max, kinds[k])
      BY ZenonT(30), <1>10, <2>1
    <3>2. IInv
      BY ZenonT(30) DEF SharedInv
    <3>3. PICK item, kind, q : item = B[k] /\ kind = kinds[k] /\ q = db'[k]
      OBVIOUS
    <3>4. /\ k \in Keys /\ item \in Items /\ item.first \in item.fps
          /\ kind \in FailureKinds /\ fp \in item.fps
          /\ q = BatchRows(k, item, max, kind)
          /\ outcome = BatchOutcome(k, item, fp, max, kind)
      BY ZenonT(30), <2>1, <2>2, <2>3, <3>1, <3>3
    <3>5. LET p == BatchRows(k, item, max, kind)
              o == BatchOutcome(k, item, fp, max, kind)
          IN  /\ o = "ack" => fp = p.ident.fp /\ Completed(p)
              /\ o \in HandlerFates => Closed(p, AttemptFingerprint(fp, item.gen))
              /\ o \in HandlerFates \cup {"ack", "defer", "retry", "identity_conflict"}
      BY ZenonT(30), <3>2, <3>4, BatchOutcomeTrue
    <3> QED
      BY ZenonT(30), <3>3, <3>4, <3>5
  <2>5. \A j \in Keys : Completed(db'[j]) => \E gen \in Gens : <<j, db'[j].ident.fp, gen>> \in won'
    BY ZenonT(30), <1>9 DEF Sound, WonInv
  <2> QED
    BY ZenonT(30), <2>1, <2>2, <2>4, <2>5
<1> QED
  BY ZenonT(30), <1>1, <1>9, <1>10

\* What a delivery is made of.
LEMMA DeliveryTyped ==
    ASSUME NEW i \in Nat, NEW step \in Steps, NEW reason \in Fates
    PROVE  /\ Delivery(i, step, reason) \in Item
           /\ Delivery(i, step, reason).msg = i
           /\ Delivery(i, step, reason).step = step
           /\ Delivery(i, step, reason).fate = reason
BY DEF Delivery, Item

\* The report of a committed call decides every valid delivery as the rows say.
LEMMA BatchProcessedKept ==
    ASSUME SharedInv, BatchInv, NEW w \in Workers, NEW max \in Limits,
           NEW kinds \in [DOMAIN BatchItems(w) -> FailureKinds], BatchProcessed(w, max, kinds)
    PROVE  Sound /\ BatchInv'
<1> DEFINE outcome(d) == LET m == Of(held[w][d])
                         IN  BatchOutcome(m.key, BatchItems(w)[m.key], m.fp, max, kinds[m.key])
           t == [d \in Deliveries(w) |->
                    IF held[w][d].step = "valid" THEN Decided(w, d, outcome(d)) ELSE held[w][d]]
<1>1. /\ phase[w] = "process" /\ ProcessBatchAttempt(BatchItems(w), max, kinds)
      /\ won' = won \cup Wins(w, max, kinds) /\ UNCHANGED broker
      /\ phase' = [phase EXCEPT ![w] = "settle"] /\ held' = [held EXCEPT ![w] = t]
  BY ZenonT(30) DEF BatchProcessed, Enter
<1>2. /\ Sound
      /\ \A d \in In(w, {"valid"}) :
            LET m == Of(held[w][d])
            IN  /\ outcome(d) = "ack" => \E gen \in Gens : <<m.key, m.fp, gen>> \in won'
                /\ outcome(d) \in HandlerFates => Closed(db'[m.key], AttemptFingerprint(m.fp, m.gen))
                /\ outcome(d) \in HandlerFates \cup {"ack", "defer", "retry", "identity_conflict"}
  BY ZenonT(30), <1>1, BatchReports
<1> HIDE DEF outcome
<1>3. held'[w] = t
  <2> HIDE DEF t
  <2> QED
    BY <1>1, BatchTyped
<1>4. held' = [held EXCEPT ![w] = held'[w]] /\ held'[w] = [d \in Deliveries(w) |-> held'[w][d]]
  BY ZenonT(30), <1>1, <1>3
<1>5. ASSUME NEW d \in Deliveries(w)
      PROVE  \/ held'[w][d] = held[w][d]
             \/ held'[w][d] \in Item /\ Owed(held[w][d].msg, held[w][d].step, held[w][d].fate)'
  <2>1. CASE held[w][d].step = "valid"
    <3>1. d \in In(w, {"valid"})
      BY <2>1 DEF In
    <3>2. PICK o : o = outcome(d)
      OBVIOUS
    <3>3. PICK i \in DOMAIN stream : i = held[w][d].msg /\ stream[i] = Of(held[w][d]) /\ i \in Nat
      <4>1. held[w][d].msg \in Nat
        BY ZenonT(30), BatchTyped
      <4> QED
        BY ZenonT(30), <4>1, BatchOwed
    <3>4. i \in DOMAIN stream' /\ stream'[i] = stream[i]
      BY ZenonT(30), <1>2 DEF Sound, Grows
    <3>5. /\ o = "ack" => Won(stream[i])'
          /\ o \in HandlerFates => Dead(stream[i])'
          /\ o \in HandlerFates \cup {"ack", "defer", "retry", "identity_conflict"}
      BY ZenonT(30), <1>2, <3>1, <3>2, <3>3, <3>4 DEF Won, Dead, SlotOf
    <3>6. PICK step \in {"ack", "nak", "publish"}, reason \in Fates :
             /\ held'[w][d] = Delivery(i, step, reason)
             /\ step = "ack" => o = "ack"
             /\ step = "publish" => reason = o
      <4>1. held'[w][d] = Decided(w, d, o)
        BY ZenonT(30), <1>3, <2>1, <3>2
      <4>2. CASE o = "ack"
        BY ZenonT(30), <3>3, <4>1, <4>2 DEF Decided, Fates
      <4>3. CASE o \in {"defer", "retry"}
        BY <3>3, <4>1, <4>3 DEF Decided, Fates
      <4>4. CASE o \in HandlerFates \cup {"identity_conflict"}
        <5>1. /\ o # "ack" /\ o \notin {"defer", "retry"} /\ o \in Fates
          BY <4>4 DEF Fates, HandlerFates
        <5> QED
          BY ZenonT(30), <3>3, <4>1, <5>1 DEF Decided
      <4> QED
        BY ZenonT(30), <3>5, <4>2, <4>3, <4>4
    <3>7. /\ held'[w][d] \in Item /\ held'[w][d].msg = i
          /\ held'[w][d].step = step /\ held'[w][d].fate = reason
      <4>1. i \in Nat /\ step \in Steps /\ reason \in Fates
        BY ZenonT(30), <3>3, <3>6 DEF Steps
      <4>2. LET x == Delivery(i, step, reason)
            IN  x \in Item /\ x.msg = i /\ x.step = step /\ x.fate = reason
        BY <4>1, DeliveryTyped
      <4> QED
        BY ZenonT(30), <3>6, <4>2
    <3>8. Owed(i, step, reason)'
      BY ZenonT(30), <3>4, <3>5, <3>6 DEF Owed
    <3> QED
      BY ZenonT(30), <3>7, <3>8 DEF Owed
  <2>2. CASE held[w][d].step # "valid"
    BY ZenonT(30), <1>3, <2>2
  <2> QED
    BY ZenonT(30), <2>1, <2>2
<1> QED
  BY ZenonT(30), <1>1, <1>2, <1>4, <1>5, SettleMoved

\* When the answer of a committed call is lost the deliveries go back, and the
\* effects stay.
LEMMA BatchCommitUnknownKept ==
    ASSUME SharedInv, BatchInv, NEW w \in Workers, NEW max \in Limits,
           NEW kinds \in [DOMAIN BatchItems(w) -> FailureKinds], BatchCommitUnknown(w, max, kinds)
    PROVE  Sound /\ BatchInv'
<1>1. /\ phase[w] = "process" /\ ProcessBatchAttempt(BatchItems(w), max, kinds)
      /\ won' = won \cup Wins(w, max, kinds) /\ UNCHANGED broker /\ ReturnValid(w)
  BY ZenonT(30) DEF BatchCommitUnknown
<1>2. Sound
  BY ZenonT(30), <1>1, BatchReports
<1> QED
  BY ZenonT(30), <1>1, <1>2, ReturnedKept

\* Every step of the batch consumer is sound.
LEMMA BatchSteps ==
    ASSUME SharedInv, BatchInv, BatchNext
    PROVE  Sound /\ BatchInv'
BY ZenonT(30), FetchFirstKept, FetchFillKept, FillEndsKept, LeaveKept, ClassifyKept,
   BatchProcessedKept, BatchCommitUnknownKept, RolledBackKept, SettleCancelledKept, DoneKept,
   BatchAckKept, BatchPublishKept, BatchAckRecordKept, BatchConfirmKept, BatchCrashKept
   DEF BatchNext, BatchOutcomes, BatchHandoff

-----------------------------------------------------------------------------
(* The group.                                                              *)

\* What producers, the operator who replays, the clock and the owner of the
\* consumer do is sound.
LEMMA OutsideSound ==
    ASSUME SharedInv, Outside
    PROVE  Sound
<1>1. BrokerInv
  BY DEF SharedInv
<1>2. CASE \E m \in setup.offers : Publish(m)
  <2>1. setup.offers \subseteq Message
    BY ZenonT(30), <1>1, StreamAssumption DEF BrokerInv, Setup
  <2>2. PICK m \in setup.offers : Publish(m)
    BY <1>2
  <2> QED
    BY ZenonT(30), <2>1, <2>2, ArrivalSound DEF Publish
<1>3. CASE \E n \in DOMAIN dlq : Replay(n)
  <2>1. PICK n \in DOMAIN dlq : Replay(n)
    BY <1>3
  <2>2. dlq[n].key \in Keys /\ dlq[n].fp \in Fps /\ n \in Gens
    BY ZenonT(30), <1>1, <2>1, BrokerTyped DEF Replay
  <2>3. [key |-> dlq[n].key, fp |-> dlq[n].fp, gen |-> n] \in Message
    BY <2>2 DEF Message
  <2> QED
    BY ZenonT(30), <2>1, <2>3, ArrivalSound DEF Replay
<1>4. CASE \/ \E fp \in Fps : Expire(fp) \/ Mature(fp)
           \/ Stop("draining") \/ Stop("cancelled")
  <2>1. UNCHANGED <<store, broker>>
    BY <1>4 DEF Expire, Mature, Stop
  <2> QED
    BY <2>1, QuietSound
<1> QED
  BY ZenonT(30), <1>2, <1>3, <1>4 DEF Outside

\* Every step of the group keeps the invariant: the one consumer shape that steps
\* keeps its own part, and whatever a sound step does leaves the others' parts true.
LEMMA GroupStep ==
    ASSUME NatsInv, [GroupNext]_groupVars
    PROVE  NatsInv'
<1>1. SharedInv /\ SingleInv /\ BatchInv
  BY DEF NatsInv
<1>2. CASE Outside /\ UNCHANGED <<worker, batchWorker>>
  <2>1. UNCHANGED worker /\ UNCHANGED <<phase, held>>
    BY <1>2 DEF batchWorker
  <2> QED
    BY ZenonT(30), <1>1, <1>2, <2>1, OutsideSound, SharedKept, SingleKept, BatchesKept DEF NatsInv
<1>3. CASE ConsumerNext /\ UNCHANGED batchWorker
  <2>1. UNCHANGED <<phase, held>>
    BY <1>3 DEF batchWorker
  <2> QED
    BY ZenonT(30), <1>1, <1>3, <2>1, SingleNext, SharedKept, BatchesKept DEF NatsInv
<1>4. CASE BatchNext /\ UNCHANGED worker
  BY ZenonT(30), <1>1, <1>4, BatchSteps, SharedKept, SingleKept DEF NatsInv
<1>5. CASE UNCHANGED groupVars
  <2>1. UNCHANGED worker /\ UNCHANGED <<phase, held>> /\ UNCHANGED <<store, broker>>
    BY <1>5 DEF groupVars, batchWorker, shared
  <2> QED
    BY ZenonT(30), <1>1, <2>1, QuietSound, SharedKept, SingleKept, BatchesKept DEF NatsInv
<1> QED
  BY ZenonT(30), <1>2, <1>3, <1>4, <1>5 DEF GroupNext

\* At the start the stream holds the messages of the instance, the ledger and the
\* dead-letter stream are empty and no worker holds anything.
LEMMA GroupStarts == GroupInit => NatsInv
<1> SUFFICES ASSUME GroupInit PROVE NatsInv
  BY ZenonT(30)
<1>1. Init /\ SharedInit /\ WorkerInit /\ BatchInit
  BY DEF GroupInit, SharedInit
<1>2. IInv
  BY ZenonT(30), <1>1, InitGood
<1>3. BrokerInv
  <2>1. setup \in Setups /\ setup.first \in Seq(Message)
    BY <1>1, StreamAssumption DEF SharedInit, Setup
  <2>2. stream = setup.first /\ acked = {} /\ dlq = <<>>
    BY <1>1 DEF SharedInit
  <2> QED
    BY <2>1, <2>2 DEF BrokerInv
<1>4. /\ won = {} /\ acked = {}
      /\ \A n \in DOMAIN dlq : FALSE
  BY <1>1 DEF SharedInit
<1>5. \A k \in Keys : db[k].ident = Null /\ \A s \in Slots : db[k].term[s] = Null
  BY <1>1 DEF Init, NoRows
<1>6. WonInv /\ OneWinner /\ NothingLost /\ RecordsDead
  <2>1. \A k \in Keys : ~Completed(db[k])
    BY ZenonT(30), <1>5 DEF Completed, Present
  <2> QED
    BY ZenonT(30), <1>4, <2>1 DEF WonInv, OneWinner, NothingLost, RecordsDead
<1>7. ConfirmedIsHandedOff
  BY ZenonT(30), <1>5 DEF ConfirmedIsHandedOff, Closed
<1>8. SingleInv
  BY ZenonT(30), <1>1 DEF WorkerInit, SingleInv, Labels, Fates, HandlerFates
<1>9. BatchInv
  BY <1>1 DEF BatchInit, BatchInv, BatchGood, OneGeneration, Decoded, Phases
<1> QED
  BY ZenonT(30), <1>2, <1>3, <1>6, <1>7, <1>8, <1>9 DEF NatsInv, SharedInv

\* The inductive invariant of the NATS consumers, of either shape.
THEOREM NatsInvariance == GroupSpec => []NatsInv
<1>1. NatsInv /\ [GroupNext]_groupVars => NatsInv'
  BY GroupStep
<1> QED
  BY <1>1, GroupStarts, PTL DEF GroupSpec

\* No message is lost: what the broker will not deliver again had its effect
\* committed or is in the dead-letter stream, for any number of workers and
\* messages and any mixture of crashes, drains, cancellations and lost answers.
THEOREM NothingLostCorrect == GroupSpec => []NothingLost
<1>1. NatsInv => NothingLost
  BY DEF NatsInv, SharedInv
<1> QED
  BY <1>1, NatsInvariance, PTL

\* A message dead-lettered for what its handler did is closed in the Inbox and
\* its generation never committed an effect.
THEOREM DeadIsClosedCorrect == GroupSpec => []DeadIsClosed
<1>1. NatsInv => DeadIsClosed
  <2> SUFFICES ASSUME NatsInv, NEW n \in DOMAIN dlq, dlq[n].reason \in HandlerFates
               PROVE  /\ Closed(db[dlq[n].key], SlotOf(dlq[n]))
                      /\ <<dlq[n].key, dlq[n].fp, dlq[n].gen>> \notin won
    BY ZenonT(30) DEF DeadIsClosed
  <2>1. RecordsDead /\ WonInv /\ BrokerInv
    BY DEF NatsInv, SharedInv
  <2>2. dlq[n].key \in Keys /\ dlq[n].fp \in Fps /\ dlq[n].gen \in Gens
    BY ZenonT(30), <2>1, BrokerTyped
  <2>3. Closed(db[dlq[n].key], SlotOf(dlq[n]))
    BY ZenonT(30), <2>1 DEF RecordsDead, Dead
  <2>4. Closed(db[dlq[n].key], AttemptFingerprint(dlq[n].fp, dlq[n].gen))
    BY ZenonT(30), <2>3 DEF SlotOf
  <2>5. \A k \in Keys, fp \in Fps, gen \in Gens :
           Closed(db[k], AttemptFingerprint(fp, gen)) => <<k, fp, gen>> \notin won
    BY ZenonT(30), <2>1 DEF WonInv
  <2>6. <<dlq[n].key, dlq[n].fp, dlq[n].gen>> \notin won
    BY ZenonT(30), <2>2, <2>4, <2>5
  <2> QED
    BY <2>3, <2>6
<1> QED
  BY <1>1, NatsInvariance, PTL

\* Retention sees a confirmation only after the record is stored and a source
\* message of that generation is acknowledged.
THEOREM HandedOffCorrect == GroupSpec => []ConfirmedIsHandedOff
<1>1. NatsInv => ConfirmedIsHandedOff
  BY DEF NatsInv, SharedInv
<1> QED
  BY <1>1, NatsInvariance, PTL

\* No identity commits a second effect, across replays, generations and workers.
THEOREM OneWinnerCorrect == GroupSpec => []OneWinner
<1>1. NatsInv => OneWinner
  BY DEF NatsInv, SharedInv
<1> QED
  BY <1>1, NatsInvariance, PTL
=============================================================================
