------------------------------- MODULE MCNats -------------------------------
EXTENDS NatsGroup, TLC

CONSTANTS k1, k2, f1, f2, f3

Msg(k, fp) == [key |-> k, fp |-> fp, gen |-> 0]

Instance(form, goroutines, initial, more, perishable, delayed, most, ends) ==
    [shape |-> form, workers |-> goroutines, first |-> initial,
     offers |-> more, expirable |-> perishable, scheduled |-> delayed,
     msgs |-> most, stops |-> ends]

WorkerSymmetry == Permutations(Workers)

\* Two workers on single messages of one identity with two contents.
Single2 == {Instance("single", Workers, <<Msg(k1, f1)>>, {Msg(k1, f1), Msg(k1, f2)}, {}, {}, 2, 1)}

\* One worker on batches of two identities, or of one under two contents.
Batch1 == {Instance("batch", {w}, <<Msg(k1, f1)>>, {Msg(k2, f1), Msg(k1, f2)}, {f1}, {}, 2, 1) : w \in Workers}

\* Two workers that are handed the same message in different batches.
Batch2 == {Instance("batch", Workers, <<Msg(k1, f1)>>, {}, {f1}, {}, 1, 1)}

DeliverySetups == Single2 \cup Batch1 \cup Batch2

\* One worker on contents that expire and are scheduled, do not decode, or
\* cannot be recorded.
SettleSetups ==
    UNION {{Instance("single", {w}, <<Msg(k1, f1)>>, {Msg(k1, f2), Msg(k1, f3)}, {f1}, {f1}, 2, 1),
            Instance("batch", {w}, <<Msg(k1, f1), Msg(k2, f3)>>, {}, {}, {}, 2, 0),
            Instance("batch", {w}, <<Msg(k1, f1)>>, {}, {f1}, {}, 2, 0)} : w \in Workers}
=============================================================================
