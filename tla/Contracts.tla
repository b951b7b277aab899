----------------------------- MODULE Contracts -----------------------------
(***************************************************************************)
(* The pure algorithms the adapters rest on, each beside a reference that  *)
(* says what it must compute without saying how.  A behaviour is one call: *)
(* Init chooses a function and its argument, Compute applies the code, and *)
(* MatchesReference compares the two.                                      *)
(*                                                                         *)
(* A subject, a topic name and an identifier are sequences of the segments *)
(* between their dots; a text is the sequence of the widths, in bytes, of  *)
(* its code points.                                                        *)
(***************************************************************************)
EXTENDS Integers, Sequences, SequencesExt, FiniteSets, FiniteSetsExt

CONSTANTS
    Tokens,                  \* literal subject tokens
    MaxTokens,               \* length of a subject pattern (bound)
    MaxDuration,             \* largest time.Duration, and the largest int
    MaxRebalance,            \* maxKafkaRebalanceTimeout
    DefaultRebalance,        \* defaultConsumerRebalanceTimeout
    RebalanceMargin,         \* defaultBatchRebalanceSafetyMargin
    MaxRecord,               \* DefaultMaxDLQRecordBytes
    Durations,               \* the durations tried (bound)
    Invalid                  \* the refusal of a function

VARIABLES fn, arg, computed     \* the function called, its argument, its result

contract == <<fn, arg, computed>>

Uncomputed == <<>>

-----------------------------------------------------------------------------
(* NATS subjects.                                                          *)

Patterns ==
    LET literal == BoundedSeq(Tokens \union {"*"}, MaxTokens)
    IN  (literal \ {<<>>}) \union {Append(p, ">") : p \in {q \in literal : Len(q) < MaxTokens}}

\* The subjects a pattern matches, one token more than any pattern has included.
Matches(p, subject) ==
    \/ /\ Len(p) = Len(subject) /\ Last(p) # ">"
       /\ \A i \in DOMAIN p : p[i] \in {"*", subject[i]}
    \/ /\ Last(p) = ">" /\ Len(subject) >= Len(p)
       /\ \A i \in DOMAIN Front(p) : p[i] \in {"*", subject[i]}

Subjects == BoundedSeq(Tokens \union {"other"}, MaxTokens + 1) \ {<<>>}

Includes(desired, current) ==
    \A s \in Subjects : Matches(current, s) => Matches(desired, s)

\* Variant: a pattern that ends in the wildcard of one token covers any tail.
SubjectPatternCoversTail(desired, current) ==
    \E n \in 1 .. Len(desired) :
        /\ \A i \in 1 .. n - 1 :
              /\ i <= Len(current) /\ current[i] # ">"
              /\ desired[i] \in {"*", current[i]} /\ desired[i] # ">"
        /\ \/ desired[n] = ">" /\ n = Len(desired) /\ n <= Len(current)
           \/ n = Len(desired) /\ n <= Len(current) /\ desired[n] \in {"*", current[n]}

\* The loop over the desired tokens: the tokens before the one that decides pass.
SubjectPatternCovers(desired, current) ==
    LET passes(i) == /\ desired[i] # ">" /\ i <= Len(current) /\ current[i] # ">"
                     /\ desired[i] = "*" \/ (current[i] # "*" /\ desired[i] = current[i])
        stops == {i \in DOMAIN desired : ~passes(i)}
        first == Min(stops)
    IN  IF stops = {} THEN Len(desired) = Len(current)
        ELSE desired[first] = ">" /\ first = Len(desired) /\ first <= Len(current)

\* Every subject of the stream as it is stays covered by one of the declared.
IsSubjectSuperset(desired, current) ==
    \A e \in current : \E c \in desired : SubjectPatternCovers(c, e)

StreamSubjectsCoverFilter(subjects, filter) ==
    \E s \in subjects : SubjectPatternCovers(s, filter)

-----------------------------------------------------------------------------
(* Kafka names.                                                            *)

Kinds == {"command", "event"}

TopicName(namespace, d) ==
    IF /\ \A i \in DOMAIN namespace : namespace[i] \notin Kinds \union {"gm"}
       /\ d.kind \in Kinds
       /\ \A i \in DOMAIN d.name : d.name[i] # "gm"
    THEN namespace \o <<d.kind>> \o d.name \o <<d.version>>
    ELSE Invalid

\* Every place where a kind could end the namespace is tried.
ValidateSourceTopicName(topic) ==
    \E i \in 2 .. Len(topic) - 2 :
        /\ topic[i] \in Kinds
        /\ Last(topic) \in {"v1", "v2"}
        /\ TopicName(SubSeq(topic, 1, i - 1),
              [kind |-> topic[i], name |-> SubSeq(topic, i + 1, Len(topic) - 1),
               version |-> Last(topic)]) = topic

\* The envelope's descriptor is cut off the end, and what is left is the namespace.
SourceTopicMatchesMetadata(topic, d) ==
    LET suffix == <<d.kind>> \o d.name \o <<d.version>>
        length == Len(topic) - Len(suffix)
    IN  /\ length > 0 /\ IsSuffix(suffix, topic)
        /\ TopicName(SubSeq(topic, 1, length), d) = topic

ConsumerTopic(topic, consumerID, suffix) ==
    IF ValidateSourceTopicName(topic) THEN topic \o <<"gm">> \o consumerID \o suffix ELSE Invalid

-----------------------------------------------------------------------------
(* Timeouts and retries.                                                   *)

\* Durations are two's complement numbers: the sum of two may wrap.
Wrap(d) == ((d + MaxDuration + 1) % (2 * (MaxDuration + 1))) - (MaxDuration + 1)

HandlerTransactionTimeout(handler, finalization) ==
    IF handler > MaxDuration - finalization THEN MaxDuration ELSE Wrap(handler + finalization)

BatchConsumerRebalanceTimeout(wait, handler, finalization, operation) ==
    LET handlerTx == HandlerTransactionTimeout(handler, finalization)
        afterHandler == MaxRebalance - wait - handlerTx
        broker == Wrap(2 * operation)
    IN  IF \/ \E d \in {wait, handler, finalization, operation} : d < 0
           \/ wait > MaxRebalance
           \/ handlerTx > MaxRebalance - wait
           \/ broker > afterHandler
           \/ RebalanceMargin > Wrap(afterHandler - broker)
        THEN Invalid
        ELSE Max({DefaultRebalance, Wrap(wait + handlerTx + broker + RebalanceMargin)})

\* The doubling of retryDelay, before the jitter is drawn.
DelayCeiling(base, maximum, attempt) ==
    LET double[n \in 1 .. attempt] ==
            IF n = 1 THEN base
            ELSE LET delay == double[n - 1]
                 IN  CASE delay >= maximum -> delay
                       [] delay < maximum /\ delay > maximum \div 2 -> maximum
                       [] OTHER -> Wrap(delay * 2)
    IN  Min({double[attempt], maximum})

\* What the jitter may return: Kafka never a delay of zero.
RetryDelay(adapter, base, maximum, attempt) ==
    LET delay == DelayCeiling(base, maximum, attempt)
    IN  IF delay <= 1 THEN {delay}
        ELSE (IF adapter = "kafka" THEN 1 ELSE 0) .. delay

\* The first tier at least as long as the delay, or the last one (counted from 1).
RetryTier(tiers, delay) ==
    LET long == {i \in DOMAIN tiers : delay <= tiers[i]}
    IN  IF long = {} THEN Len(tiers) ELSE Min(long)

\* retryDue; 0 is the zero time.
RetryDue(notBefore, expiresAt, now) ==
    CASE expiresAt # 0 /\ expiresAt <= now -> "expired"
      [] (expiresAt = 0 \/ expiresAt > now) /\ (notBefore = 0 \/ notBefore <= now) -> "due"
      [] expiresAt # 0 /\ expiresAt > now /\ notBefore > now /\ expiresAt <= notBefore -> "expired"
      [] OTHER -> "later"

-----------------------------------------------------------------------------
(* Batches.                                                                *)

DefaultBatchMaxMessages == 3
DefaultBatchMaxBytes == 5
DefaultBatchMaxWait == 2
DefaultMaxEnvelopeBytes == 4

\* BatchConfig.Normalize for a concurrency: the bounds of all the batches in
\* flight must be numbers.  The middlewares are known by whether one is nil.
Normalize(config, concurrency) ==
    LET or(value, default) == IF value = 0 THEN default ELSE value
        maxMessages == or(config.messages, DefaultBatchMaxMessages)
        maxBytes == or(config.bytes, DefaultBatchMaxBytes)
    IN  IF \/ concurrency <= 0
           \/ config.messages < 0 \/ config.bytes < 0 \/ config.wait < 0
           \/ config.nilMiddleware
           \/ maxMessages > MaxDuration \div concurrency
           \/ Max({maxBytes, DefaultMaxEnvelopeBytes}) > MaxDuration \div concurrency
        THEN Invalid
        ELSE [messages |-> maxMessages, bytes |-> maxBytes, wait |-> or(config.wait, DefaultBatchMaxWait),
              nilMiddleware |-> FALSE]

\* ValidateResult: the errors in the order of the batch, or a refusal.
ValidateResult(expected, items) ==
    LET found(key) == SelectSeq(items, LAMBDA item : item.key = key)
    IN  IF \/ Len(items) # Len(expected)
           \/ ~IsInjective(expected)
           \/ \E i \in DOMAIN items : ~Contains(expected, items[i].key)
           \/ \E i, j \in DOMAIN items : i < j /\ items[i].key = items[j].key
        THEN Invalid
        ELSE [i \in DOMAIN expected |-> found(expected[i])[1].err]

\* BatchResultBuilder: the calls of FailKey and OKKey in turn, then Build.
BuildResult(keys, calls) ==
    LET last(key) == SelectLastInSeq(calls, LAMBDA call : call.key = key)
    IN  IF \E i \in DOMAIN calls : ~Contains(keys, calls[i].key) THEN Invalid
        ELSE [i \in DOMAIN keys |->
                 [key |-> keys[i], err |-> IF last(keys[i]) = 0 THEN "nil" ELSE calls[last(keys[i])].err]]

-----------------------------------------------------------------------------
(* What a dead letter carries.                                             *)

Width(text) == FoldLeft(LAMBDA a, b : a + b, 0, text)

\* truncate and BoundedFailureText: step back from the limit to the start of a
\* code point.  RuneStart(k): a code point starts after k bytes.
Truncate(text, limit) ==
    LET starts == {Width(SubSeq(text, 1, n)) : n \in 0 .. Len(text)}
        end == Max({k \in starts : k <= limit})
    IN  IF Width(text) <= limit THEN text
        ELSE CHOOSE prefix \in {SubSeq(text, 1, n) : n \in 0 .. Len(text)} : Width(prefix) = end

QuarantineBytes == 1

\* prepareDLQ and prepareQuarantine.  A record holds its summary, with a block
\* about the source if it is quarantined, and may hold the envelope and the
\* original: its data and its headers, which JSON escapes.  validateDLQRecord
\* refuses one that is not complete.
PrepareQuarantine(m) ==
    LET size(original) == m.summary + QuarantineBytes + original
        original == m.data + m.escaped
    IN  IF size(0) > MaxRecord \/ ~m.complete THEN Invalid
        ELSE IF m.lossless /\ m.data + m.headers <= MaxRecord /\ size(original) <= MaxRecord
        THEN "quarantine with original" ELSE "quarantine"

PrepareDLQ(m) ==
    LET size(envelope) == m.summary + envelope + m.data + m.escaped
    IN  IF ~m.replayable \/ ~m.lossless \/ m.data > MaxRecord THEN PrepareQuarantine(m)
        ELSE IF ~m.complete THEN Invalid
        ELSE IF size(m.envelope) <= MaxRecord THEN "replayable with envelope"
        ELSE IF size(0) <= MaxRecord THEN "replayable"
        ELSE PrepareQuarantine(m)

\* A trace header of an event's headers travels as an extension, whatever the
\* case of its name, and comes back under the canonical name; the rest as they are.
TraceNames == {"traceparent", "Traceparent"}

\* The values takeHeader may return: the first that is not empty, in the order of
\* a Go map, which is any.
TakeHeader(headers) ==
    LET values == {headers[h] : h \in DOMAIN headers \intersect TraceNames} \ {""}
    IN  IF values = {} THEN {""} ELSE values

CloudEventHeaders(headers) ==
    LET rest == [h \in DOMAIN headers \ TraceNames |-> headers[h]]
        with(trace) == [h \in DOMAIN rest \union {"traceparent"} |->
                           IF h = "traceparent" THEN trace ELSE rest[h]]
    IN  {IF trace = "" THEN rest ELSE with(trace) : trace \in TakeHeader(headers)}

-----------------------------------------------------------------------------
(* Control headers: the position of a retry or replay record, written as   *)
(* headers and read back.  A header's value is a text: what it spells, the *)
(* number or instant it stands for, and its length in bytes.  Instant 0 is *)
(* the zero time.                                                          *)

MaxHeaderBytes == 4          \* 512
MaxGenerationBytes == 2      \* 128
MaxInt32 == 7

Text(spells, of, bytes) == [spells |-> spells, of |-> of, bytes |-> bytes]
EmptyText == Text("nothing", 0, 0)

Required == {"topic", "partition", "offset", "attempt"}
ReservedHeaders == Required \union {"notBefore", "generation"}

\* strings.ToLower, of the names tried.
ToLower(key) == IF key = "Attempt" THEN "attempt" ELSE key

FormatInt(n) == Text("number", n, 1)
FormatUTC(time) == Text("utc time", time.instant, 3)

ControlHeaders(control) ==
    <<<<"topic", control.topic>>, <<"partition", FormatInt(control.partition)>>,
      <<"offset", FormatInt(control.offset)>>, <<"attempt", FormatInt(control.attempt)>>>>
        \o (IF control.notBefore.instant = 0 THEN <<>> ELSE <<<<"notBefore", FormatUTC(control.notBefore)>>>>)
        \o (IF control.generation = EmptyText THEN <<>> ELSE <<<<"generation", control.generation>>>>)

\* validateTopicName, of what a text spells; the name "." is reserved.
IsTopicName(text) == text.spells \in {"name", "replay id", "number"}

\* strconv.ParseInt and ParseUint succeed, with a result between these.
Parses(text, least, most) == text.spells = "number" /\ text.of \in least .. most

DecodeControlHeaders(headers) ==
    LET key(i) == ToLower(headers[i][1])
        values == [h \in ReservedHeaders |->
                      LET at == {i \in DOMAIN headers : key(i) = h}
                      IN  IF at = {} THEN EmptyText ELSE headers[CHOOSE i \in at : TRUE][2]]
        generation == values["generation"]
    IN  IF \/ \E i \in DOMAIN headers : key(i) \notin ReservedHeaders
           \/ \E i, j \in DOMAIN headers : i < j /\ key(i) = key(j)
           \/ \E i \in DOMAIN headers : headers[i][2].bytes > MaxHeaderBytes
           \/ \E h \in Required : values[h] = EmptyText
           \/ ~IsTopicName(values["topic"])
           \/ ~Parses(values["partition"], 0, MaxInt32)
           \/ ~Parses(values["offset"], 0, MaxDuration)
           \/ ~Parses(values["attempt"], 0, 2 * MaxDuration + 1)
           \/ values["notBefore"] # EmptyText /\ values["notBefore"].spells \notin {"utc time", "zoned time"}
           \/ generation.spells = "padded name" \/ generation.bytes > MaxGenerationBytes
        THEN Invalid
        ELSE [topic |-> values["topic"], partition |-> values["partition"].of,
              offset |-> values["offset"].of, attempt |-> values["attempt"].of,
              notBefore |-> [instant |-> values["notBefore"].of, zone |-> "utc"],
              generation |-> generation]

\* parseControl by the topic of the record.
ParseControl(topic, headers) ==
    LET control == DecodeControlHeaders(headers)
    IN  CASE topic = "source" -> IF \E i \in DOMAIN headers : ToLower(headers[i][1]) \in ReservedHeaders
                                 THEN Invalid ELSE "source position"
          [] topic = "replay" -> IF control = Invalid THEN Invalid
                                 ELSE IF control.generation.spells # "replay id" THEN Invalid ELSE control
          [] topic = "retry" -> control
          [] OTHER -> Invalid

-----------------------------------------------------------------------------
(* The calls tried, and what each must return.                             *)

TopicDescriptors == [kind : Kinds, name : {<<"a">>, <<"event">>, <<"a", "command", "a">>, <<"a", "v1">>},
                 version : {"v1", "v2"}]
Namespaces == {<<"n">>, <<"n", "a">>, <<"n", "event">>}
Sources == {TopicName(n, d) : n \in Namespaces, d \in TopicDescriptors} \ {Invalid}
ConsumerNames ==
    [source : {<<"n", "event", "a", "v1">>, <<"n", "a", "event", "a", "v1">>},
     id : {<<"c">>, <<"gm">>, <<"c", "gm", "c">>, <<"c", "dlq">>, <<"c", "retry">>, <<"c", "retry", "t0">>},
     suffix : {<<"replay">>, <<"dlq">>, <<"retry", "t0">>, <<"retry", "t1">>}]
\* Texts around each check, and the controls and lists of headers made of them.
Texts == {EmptyText, Text("name", 0, 1), Text("reserved name", 0, 1), Text("padded name", 0, 2),
          Text("replay id", 0, 2), Text("replay id", 0, 3), Text("name", 0, MaxHeaderBytes + 1),
          FormatInt(3), FormatInt(-1), Text("zoned time", 1, 3), Text("utc time", 1, 3)}
Controls == [topic : Texts, partition : {-1, 0, MaxInt32, MaxInt32 + 1}, offset : {-1, 0, MaxDuration},
             attempt : {0, 2 * MaxDuration + 1}, notBefore : [instant : {0, 1}, zone : {"utc", "other"}],
             generation : Texts]

\* The controls that can be told from their headers.
Faithful(control) ==
    /\ IsTopicName(control.topic) /\ control.topic.bytes <= MaxHeaderBytes
    /\ control.partition \in 0 .. MaxInt32 /\ control.offset >= 0
    /\ control.generation.spells # "padded name" /\ control.generation.bytes <= MaxGenerationBytes

Written ==
    LET controls == [topic : Texts, partition : {0, 3}, offset : {1, 3}, attempt : {2, 3},
                     notBefore : [instant : {0, 1}, zone : {"utc"}], generation : Texts]
    IN  {[control |-> c, headers |-> ToSet(ControlHeaders(c))] : c \in {d \in controls : Faithful(d)}}

HeaderLists ==
    LET good == ControlHeaders([topic |-> Text("name", 0, 1), partition |-> 0, offset |-> 1, attempt |-> 2,
                                notBefore |-> [instant |-> 0, zone |-> "utc"], generation |-> EmptyText])
        more == {<<k, v>> : k \in {"attempt", "Attempt", "notBefore", "generation", "other"}, v \in Texts}
        optional == {h \in more : h[1] \in {"notBefore", "generation"}}
    IN  {<<>>, Tail(good)} \union {<<h>> : h \in more} \union {Append(good, h) : h \in more}
        \union {good \o <<h, k>> : h, k \in optional}
        \union {[good EXCEPT ![i] = <<@[1], v>>] : i \in DOMAIN good, v \in Texts}
        \union {[good EXCEPT ![4] = <<"Attempt", v>>] : v \in Texts}
Items == [key : {1, 2, 3}, err : {"nil", "err"}]

Inputs ==
    [ covers    |-> Patterns \X Patterns,
      superset  |-> {{p} : p \in Patterns} \X {{p, q} : p, q \in {r \in Patterns : Len(r) <= 2}},
      topic     |-> (Namespaces \X TopicDescriptors) \X TopicDescriptors,
      service   |-> ConsumerNames \X ConsumerNames,
      rebalance |-> Durations \X Durations \X Durations \X Durations,
      delay     |-> {"kafka", "nats"} \X {<<b, m>> \in Durations \X Durations : 0 < b /\ b <= m} \X (1 .. 7),
      tier      |-> {s \in BoundedSeq(1 .. 4, 3) : s # <<>> /\ \A i \in 2 .. Len(s) : s[i - 1] < s[i]} \X (0 .. 5),
      due       |-> (0 .. 3) \X (0 .. 3) \X (1 .. 3),
      normalize |-> [messages : Durations, bytes : Durations, wait : {-1, 0, 1}, nilMiddleware : BOOLEAN] \X Durations,
      result    |-> BoundedSeq({1, 2}, 2) \X BoundedSeq(Items, 3),
      builder   |-> {<<>>, <<1>>, <<1, 2>>} \X BoundedSeq(Items, 3),
      text      |-> BoundedSeq(1 .. 4, 4) \X (1 .. 6),
      terminal  |-> {m \in [complete : BOOLEAN, replayable : BOOLEAN, lossless : BOOLEAN, summary : {1, 2, MaxRecord},
                            data : 0 .. MaxRecord + 1, headers : 0 .. 2, escaped : 0 .. 4, envelope : 0 .. 3] :
                        m.headers <= m.escaped},
      trace     |-> UNION {[names -> {"", "v", "w"}] : names \in SUBSET (TraceNames \union {"x"})},
      control   |-> Controls,
      parse     |-> {"source", "retry", "replay", "foreign"} \X HeaderLists ]

\* The code, applied to its argument.
Result(f, x) ==
    CASE f = "covers" -> SubjectPatternCovers(x[1], x[2])
      [] f = "superset" -> IsSubjectSuperset(x[2], x[1]) /\ \A p \in x[1] : StreamSubjectsCoverFilter(x[2], p)
      [] f = "topic" -> TopicName(x[1][1], x[1][2]) # Invalid
                           /\ SourceTopicMatchesMetadata(TopicName(x[1][1], x[1][2]), x[2])
      [] f = "service" -> ConsumerTopic(x[1].source, x[1].id, x[1].suffix)
                             = ConsumerTopic(x[2].source, x[2].id, x[2].suffix)
      [] f = "rebalance" -> BatchConsumerRebalanceTimeout(x[1], x[2], x[3], x[4])
      [] f = "delay" -> RetryDelay(x[1], x[2][1], x[2][2], x[3])
      [] f = "tier" -> RetryTier(x[1], x[2])
      [] f = "due" -> RetryDue(x[1], x[2], x[3])
      [] f = "normalize" -> Normalize(x[1], x[2])
      [] f = "result" -> ValidateResult(x[1], x[2])
      [] f = "builder" -> BuildResult(x[1], x[2])
      [] f = "text" -> Truncate(x[1], x[2])
      [] f = "terminal" -> PrepareDLQ(x)
      [] f = "trace" -> CloudEventHeaders(x)
      [] f = "control" -> DecodeControlHeaders(ControlHeaders(x))
      [] f = "parse" -> ParseControl(x[1], x[2])

ContractsInit ==
    /\ fn \in DOMAIN Inputs
    /\ arg \in Inputs[fn]
    /\ computed = Uncomputed

Compute ==
    /\ computed = Uncomputed
    /\ computed' = <<Result(fn, arg)>>
    /\ UNCHANGED <<fn, arg>>

ContractsNext == Compute

-----------------------------------------------------------------------------
(* The references.                                                         *)

Unbounded(base, attempt) == base * 2 ^ (attempt - 1)

\* What the result y of f at x must be.
Correct(f, x, y) ==
    CASE f = "covers" -> y <=> Includes(x[1], x[2])
      [] f = "superset" ->
            y => \A s \in Subjects : (\E p \in x[1] : Matches(p, s)) => \E q \in x[2] : Matches(q, s)
      [] f = "topic" -> y <=> x[1][1] # <<"n", "event">> /\ x[1][2] = x[2]
      [] f = "service" -> y <=> x[1] = x[2]
      [] f = "rebalance" ->
            \* Twice an operation timeout above half of MaxDuration wraps, and such a one
            \* is not refused for its length; the result is within bounds all the same.
            LET needed == x[1] + x[2] + x[3] + 2 * x[4] + RebalanceMargin
                refused == (\E i \in 1 .. 4 : x[i] < 0) \/ x[1] + x[2] + x[3] > MaxRebalance
            IN  IF 2 * x[4] > MaxDuration
                THEN /\ refused => y = Invalid
                     /\ y # Invalid => y \in DefaultRebalance .. MaxRebalance
                ELSE y = IF refused \/ needed > MaxRebalance THEN Invalid ELSE Max({needed, DefaultRebalance})
      [] f = "delay" ->
            LET top == Min({Unbounded(x[2][1], x[3]), x[2][2]})
            IN  /\ Max(y) = top /\ \A d \in y : 0 <= d
                /\ x[1] = "kafka" => \A d \in y : d > 0
      [] f = "tier" ->
            /\ y \in DOMAIN x[1]
            /\ x[2] <= Last(x[1]) => x[1][y] >= x[2] /\ \A i \in 1 .. y - 1 : x[1][i] < x[2]
            /\ x[2] > Last(x[1]) => y = Len(x[1])
      [] f = "due" ->
            \* It expires if no instant from now on is both after notBefore and before expiresAt.
            /\ y = "expired" <=> x[2] # 0 /\ x[2] <= Max({x[1], x[3]})
            /\ y = "later" => x[1] > x[3]
            /\ y = "due" => x[1] <= x[3]
      [] f = "normalize" ->
            \* A batch per worker in flight has a size that is a number, and no larger one is
            \* refused than must be.
            LET inFlight(c) == Max({c.messages, c.bytes, DefaultMaxEnvelopeBytes}) * x[2]
                filled == [x[1] EXCEPT !.messages = IF @ = 0 THEN DefaultBatchMaxMessages ELSE @,
                                       !.bytes = IF @ = 0 THEN DefaultBatchMaxBytes ELSE @,
                                       !.wait = IF @ = 0 THEN DefaultBatchMaxWait ELSE @]
            IN  y = IF \/ \E field \in {"messages", "bytes", "wait"} : x[1][field] < 0
                       \/ x[1].nilMiddleware \/ x[2] <= 0 \/ inFlight(filled) > MaxDuration
                    THEN Invalid ELSE filled
      [] f = "result" ->
            y = Invalid <=> ~ \E p \in [DOMAIN x[1] -> DOMAIN x[2]] :
                                 /\ \A i \in DOMAIN x[2] : \E j \in DOMAIN x[1] : p[j] = i
                                 /\ \A j, k \in DOMAIN x[1] : j # k => p[j] # p[k] /\ x[1][j] # x[1][k]
                                 /\ \A j \in DOMAIN x[1] : x[2][p[j]].key = x[1][j]
      [] f = "builder" ->
            \* What is built is always a complete result of the batch.
            y # Invalid => ValidateResult(x[1], y) = [i \in DOMAIN x[1] |-> y[i].err]
      [] f = "text" ->
            /\ IsPrefix(y, x[1]) /\ Width(y) <= x[2]
            /\ y # x[1] => Width(SubSeq(x[1], 1, Len(y) + 1)) > x[2]
      [] f = "terminal" ->
            LET fits(kept) == x.summary + kept <= MaxRecord
                original == x.data + x.escaped
                readable == x.replayable /\ x.lossless
                kept == y \in {"replayable", "replayable with envelope", "quarantine with original"}
            IN  /\ y = "replayable with envelope" => fits(x.envelope + original)
                /\ y = "replayable" => fits(original)
                /\ y = "quarantine with original" => fits(QuarantineBytes + original)
                /\ x.complete /\ readable /\ fits(original) => y \in {"replayable", "replayable with envelope"}
                /\ x.complete /\ x.lossless /\ fits(QuarantineBytes + original) => kept
                /\ ~readable => y \notin {"replayable", "replayable with envelope"}
                /\ y = Invalid <=> ~x.complete \/ (~kept /\ ~fits(QuarantineBytes))
      [] f = "trace" ->
            \* One value comes back, one of those it had, and the other headers as they were.
            \A headers \in y :
                LET traces(hs) == {hs[h] : h \in DOMAIN hs \intersect TraceNames} \ {""}
                IN  /\ Cardinality(DOMAIN headers \intersect TraceNames) <= 1
                    /\ traces(headers) \subseteq traces(x) /\ (traces(headers) = {} => traces(x) = {})
                    /\ DOMAIN headers \ TraceNames = DOMAIN x \ TraceNames
                    /\ \A h \in DOMAIN x \ TraceNames : headers[h] = x[h]
      [] f = "control" ->
            y = IF Faithful(x) THEN [x EXCEPT !.notBefore.zone = "utc"] ELSE Invalid
      [] f = "parse" ->
            \* A retry or replay record is read exactly when its headers, in any order, zone
            \* and case, and empty ones aside, are those that some position is written as.
            LET written == {<<ToLower(h[1]), IF h[2].spells = "zoned time" THEN Text("utc time", h[2].of, 3) ELSE h[2]>> :
                               h \in {g \in ToSet(x[2]) : ToLower(g[1]) \in Required \/ g[2] # EmptyText}}
                once == \A i, j \in DOMAIN x[2] : i # j => ToLower(x[2][i][1]) # ToLower(x[2][j][1])
                known == \A i \in DOMAIN x[2] : ToLower(x[2][i][1]) \in ReservedHeaders
                read == {w.control : w \in {v \in Written : v.headers = written}}
            IN  CASE x[1] = "source" -> y = Invalid <=> \E i \in DOMAIN x[2] : ToLower(x[2][i][1]) \in ReservedHeaders
                  [] x[1] = "foreign" -> y = Invalid
                  [] OTHER ->
                        LET mine == {c \in read : x[1] = "replay" => c.generation.spells = "replay id"}
                        IN  IF once /\ known /\ mine # {} THEN y \in mine ELSE y = Invalid

\* Every pure algorithm returns what its reference says: a subject pattern covers
\* another exactly when it matches all of its subjects (nats/topology.go
\* subjectPatternCovers), no two consumers' service topics collide and a record is
\* accepted under its own descriptor only (kafka/topic.go), a rebalance timeout is
\* the whole of the work a batch may do or is refused (kafka/consumer.go), a retry
\* delay never passes its maximum, a batch result is accepted exactly when it is
\* one error per message (batchruntime.ValidateResult), and a dead letter keeps all
\* that fits and no more (nats/quarantine.go prepareDLQ).
MatchesReference == computed # Uncomputed => Correct(fn, arg, computed[1])

=============================================================================
