------------------------------- MODULE MCKafka -------------------------------
EXTENDS KafkaConsumer

CONSTANTS w1, k1, k2, f1, f2, f3

Message(k, fp, n) == [key |-> k, fp |-> fp, gen |-> 0, origin |-> <<"source", n>>]

Instance(form, goroutines, records, perishable, hasty, delayed, again, most) ==
    [shape |-> form, workers |-> goroutines, source |-> records, expirable |-> perishable,
     brief |-> hasty, scheduled |-> delayed, replays |-> again, faults |-> most]

\* Two members on single records of one identity with two contents, or on one
\* record with more failures.
Single2 == {Instance("single", Workers, <<Message(k1, f1, 1), Message(k1, f2, 2)>>, {}, {}, {}, FALSE, 1),
            Instance("single", Workers, <<Message(k1, f1, 1)>>, {}, {}, {}, FALSE, 3)}

\* Two members that take a batch from each other.
Batch2 == {Instance("batch", Workers, <<Message(k1, f1, 1)>>, {}, {}, {}, FALSE, 1)}

\* One member on batches of two identities, with most failures.
Batch1(most) == {Instance("batch", {w1}, <<Message(k1, f1, 1), Message(k2, f1, 2)>>, {}, {}, {}, FALSE, most)}

\* A replay of a dead letter meets other copies of its message.
Again == {Instance("single", {w1}, <<Message(k1, f1, 1), Message(k1, f1, 2)>>, {}, {}, {}, TRUE, 1),
          Instance("batch", {w1}, <<Message(k1, f1, 1)>>, {}, {}, {}, TRUE, 0)}

\* Contents that expire, are scheduled or do not decode.
Timed ==
    LET timed(form, hasty, most) ==
            Instance(form, {w1}, <<Message(k1, f1, 1), Message(k2, f3, 2)>>, {f1}, hasty, {f1}, FALSE, most)
    IN  {timed("single", hasty, 1) : hasty \in {{}, {f1}}} \cup {timed("batch", hasty, 0) : hasty \in {{}, {f1}}}

GroupSetups == Single2 \cup Batch1(0) \cup Batch2 \cup Again \cup Timed

BatchSetups == Batch1(1)
=============================================================================
