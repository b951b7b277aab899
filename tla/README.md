# A TLA+ model of gomessenger

gomessenger is a Go library for typed messages. An application hands a command, query or
event to a `Messenger`. A route carries it: in process, through NATS JetStream or Kafka,
or through a transactional Outbox. A consumer runs the handler, usually inside a
transaction of a SQL Inbox that makes redelivery harmless. A `Runtime` supervises the
long-running services of a host.

This directory models the parts of that system whose correctness depends on the order of
steps, on failures between them or on boundaries of their inputs. TLC checks them on
small instances. TLAPS proves the safety of the Inbox, of its concurrent transactions, of
the NATS consumers, of the Runtime, of the services it runs and of the Kafka transaction
gate for instances of any size.

## The system

| Part | State | Operations | What makes it hard |
|---|---|---|---|
| Inbox stores (`adapters/inbox`) | four tables: identities, counters of the original delivery and of replays, terminal markers | Process, ProcessAttempt, ProcessBatchAttempt, ForgetAttempt, ConfirmTerminalHandoff, PruneTerminalAttempts, Prune | duplicate deliveries, crashes inside a transaction, row lock order, retention racing redelivery |
| Runtime (`runtime.go`) | lifecycle state, drain and done channels, run context, stored verdict | Run, Shutdown, BeginDrain, health checks | any mix of concurrent calls; services that stop, fail, panic or hang |
| NATS consumers (`adapters/nats`) | deliveries in flight, drain state | process, ack, nak, dead-letter, confirm, replay, one message or a batch | lost acknowledgements, redelivery, shutdown between two steps |
| Kafka consumers (`adapters/kafka`) | offsets, transactions, paused retry partitions | poll, process, retry, dead-letter, commit, one record or a batch | rebalances, lost answers, delayed partitions |
| Life cycle of the consumers | state, fatal error, workers and their readiness | Run, BeginDrain, Shutdown, Readiness | a drain or a failure at any point of the start |
| Outbox and routes (`adapters/outbox`, routes) | staged jobs, the shared Kafka producer with its gate | stage, relay, publish, Run, Shutdown | partial batches, lost answers, Shutdown under a transaction |
| Topologies | topics, streams and consumers of the broker | plan, apply, startup check | two declarations, drift, changes that fail half way |
| Local routes (`local.go`) | bounded queue, drain state | deliver, query, run, shutdown | admission racing drain |
| Builder, Messenger, middleware (root) | declarations, messages sent by handlers | declare, Build, Send, Publish, Query, invoke | conflicts in any order, lineage through nested calls, contexts that end |

The consumers call the Inbox; the Inbox runs the handler inside its transaction; the
relay publishes through the routes; the Runtime runs consumers, transports and
asynchronous routes as services.

## Modules

| Module | Models |
|---|---|
| `InboxTables` | the rows of one identity and the pure row operations |
| `InboxLedger` | the Inbox with every call atomic: the SQLite store, whose writers are serialised, and the specification of the PostgreSQL store |
| `Inbox` | the PostgreSQL store: a call is a transaction of several statements that wait for row locks and may roll back between any two |
| `InboxInvocations` | `Inbox` with a history variable that counts handler starts |
| `Runtime` | the supervisor, its services and its callers |
| `JetStream` | what both NATS consumers share: stream, dead-letter stream, replay, Inbox, clock |
| `NatsConsumer`, `NatsBatch` | the NATS consumers of single messages and of batches |
| `NatsGroup` | a NATS consumer of either shape on one stream |
| `KafkaBroker` | the topics, offsets, assignment and Inbox of a consumer group |
| `KafkaConsumer` | the Kafka consumer of single records and of batches with its retry scheduler and transactions |
| `ConsumerLifecycle` | Run, BeginDrain, Shutdown and Readiness of the four durable consumers with their workers |
| `LocalAsync` | the local asynchronous route with the GoBus queue behind it |
| `Publication` | what the routes of both brokers share: calls, answers, what the broker has |
| `KafkaTransport`, `NatsPublish` | the shared Kafka producer; the publishing calls of the NATS route |
| `OutboxRelay` | staging, and the relay jobs over either route |
| `Topology` | ApplyTopology of both adapters and the startup checks of the consumers |
| `Messenger` | the Builder and what a built Messenger does |
| `Invocation` | one invocation of a handler through its middleware |
| `Contracts` | the pure functions of the adapters, each beside a reference |
| `InboxCalls`, `InboxOrder` | the calls that are made of the store; the two orders in which identities are sorted |
| `InboxLedgerProofs`, `InboxAnswerProofs`, `InboxProofs` | proofs about the Inbox: the ledger, what its answers tell the consumers, the transactions |
| `NatsProofs`, `NatsGroupProofs` | proofs about the NATS consumers: the single consumer and what both share, then the batch consumer and the theorems |
| `RuntimeProofs`, `ServicesProofs`, `OutboxRelayProofs` | proofs about the supervisor, about its services, about the gate of the Kafka producer |
| `MC*` | constants of the runs; `MCServices` and `MCOutbound` put parts side by side that share no state and choose one of them |

Names that end in a word such as `Stale`, `Lost` or `Hurries` and are marked "Variant"
are plausible mistakes in the definition that follows them. No specification uses them.
`PROJECT.json` says which property notices each one, and which lines of the source every
other definition models.

### Inbox

An identity is a consumer, a source and a message id. `db[k]` is what the four tables
hold for identity `k`: `ident` is the identity row (`Null` when absent) with its
fingerprint and whether it is completed; `att[s]` and `term[s]` are the counter row and
the terminal marker of slot `s`, a fingerprint with an attempt generation. The empty
generation is the original delivery, the others are replays. `effects[k]` counts the
committed handler effects of the identity since it was last created. In `Inbox`, `tx[w]`
is the transaction of worker `w`, which works on private copies of the rows it has
locked; `owner[k]` holds the lock until commit or rollback. `Inbox` is shown to
implement `InboxLedger` (property `Serializable`): each commit is one atomic ledger call
and every other step is a stutter.

Abstractions: times are an arbitrary set of instants and a cutoff may be any of them;
`completed_at` is not kept, so `Prune` may remove any completed identity; SHA-256
fingerprints do not collide; the handler returns any failure kind.

### Runtime

A caller makes one call. `pc` names the place in `Run`, `Shutdown`, `beginDrain` or a
health check between two lock sections, channel operations or callbacks; each of these is
a step of its own. `once` is the `sync.Once` of the drain: one caller passes, the others
wait until it is done. `phase`, `results` and `stop` are the goroutines of the services
and the results channel. Errors are sets of reasons, so that "the same error" and "an
unexpected stop" can be told apart.

A service may leave `Run` at any time in any way (nil, a cancelled or expired context, a
failure, which stands for a panic and `Goexit` too), may hang in `Run` and in `Shutdown`,
and may panic in `BeginDrain`. `BeginDrain` of a service returns: the code has no defence
against one that does not.

### NATS consumers

`stream` holds the messages as the broker stored them, `acked` those it will not deliver
again, `dlq` the dead-letter records. A worker of `NatsConsumer` has one message and its
place in `processMessage`. A worker of `NatsBatch` collects up to two pulls into a batch,
settles what needs no handler, runs the rest in one Inbox transaction and settles its
deliveries: acknowledgements and returns in parallel, dead letters in turn after them.
The Inbox call is one action of `InboxLedger`, which `JetStream` extends: `db` and
`effects` are the ledger's own, so what is shown holds for both stores. `won` is a history variable: the slots
that committed an effect.

Every call to the broker or the store may take effect and lose its answer, and every
unacknowledged message may be delivered at any time to any worker, also while another one
has it (which is what a missed heartbeat leads to), and to a batch that already has it. The run context may end, the consumer
may be drained, crash and be started again. A replay generation is the digest of a
record: digests do not collide. The broker's deduplication window is arbitrary: a
repeated publication is either recognised or stored again.

### Kafka consumers

There is one partition each of the source, the retry and the replay topic, and a
dead-letter topic. `MaxRetries` bounds the records of the retry topic. `committed` is the
offset of the group. `pos` and `mark` are two positions the client of a partition's owner
keeps: its head, where it reads next, and what it takes to be committed. A worker polls, asks the retry
scheduler what is due (`paused`, `sched` and `owned` are the scheduler's maps), runs the
Inbox call, and opens a transaction that produces the retries and dead letters.

Which offsets go with the transaction is decided by the client, which is not part of this
repository and is modelled from its use (`UncommittedOffsets`, `HeadAfter`, `MarkAfter`).
`GroupTransactSession.End` sends the heads that differ from the marker, and sends the
client back to the marker when it aborts. Polling moves the head alone. `SetOffsets`, which
only the batch consumer calls, moves both.

A rebalance may take a partition away at any point. The broker refuses the commit of a
member that lost its partition. The answer of a commit may be lost. A process may crash
between any two steps. Undecodable records are dead-lettered without the Inbox.

### Life cycle of the consumers

One `Run`, calls of `BeginDrain` and `Shutdown`, `Readiness` at any point, and the workers, for the
four consumers: they differ in how Run opens its sessions, how it waits for its workers
and how a batch worker of Kafka recreates a session after a failure. What a worker does
with a message is in the modules above; here it works and may fail.

### Local asynchronous route

Each caller makes one call of `Run`, `BeginDrain`, `Shutdown`, `Deliver` or `query`; a
step reaches from one lock section, channel operation or library call to the next. `once`
is `drainOnce`, `drainer` the goroutine that `beginDrain` starts, `drainStop` the cancel
function it leaves for `forceDrain`. The GoBus runtime is not part of this repository and
is modelled from its use: it admits while it is running and has room, its `Shutdown`
refuses new work and returns when all accepted work is done or its context ends, and in
the second case it waits for no handler and may drop what is queued. That admission and
the library's `Shutdown` exclude each other is assumed of it.

### Outbox, routes and topology

A host transaction stages jobs, one or a batch. Relay workers claim them, decode the
envelope and publish one or several through a route, and the outbox library marks a
job done, retries it or gives up, by its answer. The Kafka route waits for the gate of
the shared producer, is admitted, begins, produces, commits and releases, while `Run`
and any number of `Shutdown`s go through their states. The NATS route sends a batch in
chunks of `PublishWindow`, each enqueued before its confirmations are awaited in order.
Messages may be expired, not yet due or garbled. `topic` is what the broker has.

A topic or a stream in `Topology` has a part that may not change and a limit that may only
grow; a stream also has its subjects, its age and a note that may change, and a durable
consumer has its contract, its filter and a note. A Kafka family is the source, the retry and the
dead-letter topic; NATS has the stream, its consumer and the dead-letter stream.
`ApplyTopology` looks, plans and carries the plan out change by change; in NATS an update
looks a second time and refuses what has come to conflict. A change may fail or lose its
answer, and somebody else may raise a limit or start a consumer in between. The second
look refuses after earlier changes of the plan were made, while the comment at
`nats/topology.go:109` says "Any conflict aborts before the first mutation."; `NeverShrinks`
says when this can happen: only after somebody else changed the broker. Calls on one Kafka transport exclude each other through its mutex. For
NATS, which has none, one call at a time is modelled: the broker's update takes no
condition, so two processes that apply different declarations at once can undo each other,
and no code here prevents that. For the same reason nobody else changes a resource between
the second look and the update.

### Messenger, invocation and pure functions

`Messenger` declares types, handlers, routes and services in any order, builds, and
sends from outside and from handlers. A route may bring a service of its own, and one ID
may be used for one pointer twice, for two pointers or for a value that cannot be compared.
Local routes refuse a message that is expired or not yet due, and one may expire in the queue. `Invocation` walks one call down a chain of
middleware and up again; each middleware follows one of the `Habits` (pass on, detach
or limit the context, call twice or not at all, hide, replace or recover an error, panic),
and contexts end at any point. `Contracts` computes each function of the adapters that decides
something at a boundary (subject patterns, topic names, retry delays with the width of
their integers, rebalance budgets, batch limits, exact cover of batch results, bounded
texts, control headers, choice of a quarantine) and compares it with a reference that says
what it must return: a set, a relation, a bound over unbounded integers or an inverse.

## Runs

| Run | Question | Bounds |
|---|---|---|
| `inbox_ledger` | are effects committed once, the tables consistent, closed generations final and open ones kept, under every order of calls? | one identity (identities do not interact in the ledger), two fingerprints, two generations, limits 1 and 2 |
| `inbox` | do concurrent transactions implement the ledger, run handlers exclusively and never wait in a circle? | two workers; every call on one identity with two fingerprints and two generations, or batches and pruners over two identities that Go and the database sort differently |
| `inbox_invocations` | does `MaxAttempts` bound handler invocations? Violated, see below | one worker, limit 2, four starts |
| `runtime_run` | one owner, one verdict, no failure lost, nothing stopped before it is drained, honest readiness? | six mixes of three calls; two services, or one with every kind of exit |
| `runtime_live` | do `Run` and `Shutdown` return when services hang? | one service, three calls |
| `nats_delivery` | is an acknowledged message ever lost, a dead letter not final, a confirmation early, a replay a second success? | two workers on single messages, or on batches that both hold one message; one worker on batches of two messages; two contents under one id, two identities, two stored messages, repeated records, one crash, drain or cancellation |
| `nats_settles` | is every message that can be recorded eventually acknowledged? | one worker, single or batch, contents that do not decode, cannot be recorded, are scheduled or expire |
| `kafka_group` | is the message of a single-record consumer in exactly one place and settled in the end, a confirmation never early, a paused partition always scheduled? | two members on single records or batches, or one with a replay, expiring and scheduled contents; up to three failures |
| `kafka_batch_offsets` | does the transaction of a batch commit the offset of its range? Violated, see below | one member, two records, one failure |
| `services` | does a clean stop leave nothing behind, is readiness honest, is a failure reported, does a drain end Run? | the local route with five calls and room for one message; each of the four consumers with two workers, a Shutdown and two recreated sessions |
| `consumer_fatal` | does the NATS batch consumer report a worker that failed for good? Violated, see below | two workers |
| `outbound` | the rest of a host: is what Build accepts served, does lineage hold, is success earned, is the gate owned, is a done job published, does a topology never shrink and an applied one start, do the functions match their references? | four declarations, two messages; chains of two; two relay workers over Kafka with a Shutdown or over NATS, up to four jobs, batches of three in windows of two, one fault; two appliers, every drift, one fault or change by somebody else; every argument of the functions from small sets around their boundaries |

Two workers are enough for the Inbox because a row lock has one holder and one waiter at
a time, and a third transaction meets the same committed rows as the second. Two
generations and two limits give the cases open, exhausted and raised. Two services let
one fail while another is being handled; three calls let an owner, a waiter and a drainer
meet. Two messages are enough for a dead letter and its replay, for two contents under one
id, and for a batch that succeeds in part; two workers let one message be in two places.
Integers in `Contracts` are six bits wide, so that every overflow of the code's 64 bits
has a small counterpart. Symmetry is used only over sets whose members no definition tells
apart (workers, fingerprints, services), and in no run that checks liveness.

Deadlock checking is off where the system comes to rest: a closed runtime, route or
consumer, a stream or a group whose messages are all settled, a published outbox, an
applied topology, a computed function, and the bound on starts of `inbox_invocations`.

### Fairness

- `runtime_live`: goroutines that can go on do so, and the timers that `Run` itself sets
  fire. Services, the host's contexts and the deadline given to `Shutdown` are under no
  fairness.
- `services`: the steps of Run, of a call and of a worker that wait for nothing but the
  consumer itself are weakly fair. Handlers, the host's calls and contexts are not.
- `nats_settles`: the broker delivers an unacknowledged message again and a worker takes
  it in the end (the consumer is created with `MaxDeliver` -1; strong fairness per
  message, since the worker is busy with others in between). Workers go on, a scheduled
  time arrives, and the host starts a new consumer when the old one has returned (weak).
  For each message the store, the handler and the acknowledgement may fail any number of
  times but not for ever (strong): a handler that deferred every delivery for ever would
  never settle, and the code does not promise otherwise, since deferrals are not counted.
  A message whose dead-letter record cannot be prepared stops the consumer each time by
  design, and `Settles` excludes it; the others must settle in spite of it.
- `kafka_group`: a member goes on and time passes (weak). Rebalances, failures and crashes
  are bounded by the setup. `Settles` is about single records, because a batch offset is
  not committed (below).

### The violated runs

`inbox_invocations`: the documentation says that `MaxAttempts` bounds handler invocations.
The counter is written in the transaction that runs the handler, so an invocation that is
cut off before the commit (crash, cancelled context, failed commit) leaves no trace, and
the handler may be started more often than the limit. What holds is that a closed
generation admits no further committed attempt: `ClosedFrozen` of `inbox_ledger`.

`consumer_fatal`: the batch decision record and a test want a NATS batch consumer whose
worker fails for good to return the error from `Run`. The last select of `runBatch` waits
for the error and for the end of all workers, and when both are ready Go picks either:
if the last workers have failed, `Run` may return nil. The other three consumers
do return the error (`FatalIsReturned` of `services`).

`kafka_batch_offsets`: the contract and the batch decision record say that one transaction
publishes the retries and dead letters of a batch and commits the offset of its range, and
that an aborted transaction is replayed. `processKafkaBatch` calls `SetOffsets` for the range
before it opens the transaction. The client then takes the range to be committed, sends no offset
for it, and goes back to the end of the range when the transaction aborts. The run ends in
a state in which the retry of a record is in the retry topic and the group will be given
the record again. The Inbox keeps the effects from being repeated; the retries and dead
letters are. The single-record path sets no offset and has `OnePlace` and `Settles`.

## Proofs

Eight modules hold theorems. They are about the specifications the runs check, for every
value of the constants that the named `ASSUME`s allow; TLC evaluates these in the runs.
Each result has an inductive invariant, a lemma for each group of steps or each conjunct,
and an invariance theorem from which the properties follow.

**`InboxLedgerProofs`**: `TypeOK`, `EffectivelyOnce`, `ChildRowsOwned`, `MarkersAgree` and
`NothingStranded` of the ledger, and the action properties `ClosedFrozen` and
`OpenSurvives`, for any identities, fingerprints, generations, limits and
times. `IInv` is stated per identity (`Kept`): the rows are well formed, and the
consistency of counters, markers and the identity row holds together with the count of
effects. None of these facts is inductive alone: that an effect is committed once needs
that a completed identity is never reopened, and that needs the counters to belong to an
identity with their fingerprint. There is a lemma per row operation, one per call, and
one step per disjunct of `Next`; each lemma about a call also says how the rows evolve
(`Evolves`), which gives the action properties. Assumptions: `TablesAssumption`,
`CallsAssumption`.

**`InboxAnswerProofs`** has no theorem of its own: its lemmas say what the answer of a store
call tells its caller. An outcome "ack" means a completed identity with that fingerprint, a
terminal outcome a closed generation, and a call that completes an identity found the
generation open and leaves it open. The consumers act on nothing else.

**`InboxProofs`**: the PostgreSQL store. `SerializableCorrect` is the refinement of the
ledger: for any number of workers, identities and deliveries each commit is one ledger
call and every other step, a rollback at any statement included, leaves the committed
rows alone. `OnceUnderConcurrency`, `ExclusiveCorrect` and `DeadlockFree` follow. The
invariant `TxInv` adds to `IInv` who holds which lock in which phase (`PhaseInv`), that
identities are inserted and locked in ascending order (`OrderInv`), that the view of a held
identity is the committed row, the row inserted for it or what retention left of it
(`ViewInv`), and that what was decided before a handler still follows from the view
(`HandlerInv`). The last two are what makes a commit a ledger step: a decision taken before
the handler ran is the one the ledger takes at the commit. Freedom from deadlock does not
follow from one order, because batches insert in the order of Go and lock in the order of
the database. A transaction that still inserts holds nothing but rows it inserted itself, and
nobody locks a row before it is committed; so whoever waits in its lock phase waits for one
that is in its lock phase too, a circle lies in one phase, and one phase has one order.
Assumption: `OrderAssumption` (each order is strict, and every set of identities that is not
empty has a first and a last one).

**`NatsProofs`, `NatsGroupProofs`**: `NothingLost`, `DeadIsClosed`, `ConfirmedIsHandedOff` and
`OneWinner` of the group, for any number of workers, messages, identities, generations and
replays, any batch size, and consumers of either shape. `NatsInv` has three parts:

- `SharedInv`: the ledger's `IInv`; the streams are typed; the committed effects and the
  ledger agree (`WonInv`: an identity is completed exactly if one of its generations won,
  and that one is not closed); the handler failures in the dead-letter stream are closed
  in the ledger; and three of the four properties themselves.
- `SingleInv` and `BatchInv`: `Owed` says what is true of a message while a worker is about to
  take a step with it: before an acknowledgement its content won, before the
  acknowledgement of a dead letter its record is stored, before a publication for a handler
  failure its generation is closed. A batch also needs that the deliveries of an identity
  are of one generation, or one Inbox item could not stand for them.

The properties are about the broker and the Inbox and say nothing of workers, so none of
them is inductive: an acknowledgement is right only because of what the worker learned
several steps ago. The argument is rely-guarantee. A step is `Sound` when it undoes nothing
(streams grow, an acknowledgement, an effect and a closed generation stay) and has a
reason for what it adds. Everything in `Owed` survives sound steps (`OwedKept`), so a
worker keeps its part through the steps of the others, crashes and redelivery included,
and each action only has to be shown sound and to set up its worker's next step. The
answers of the Inbox enter through `InboxAnswerProofs`. Assumptions: those of the ledger and
`StreamAssumption`.

**`RuntimeProofs`**: all six safety properties of `runtime_run` (`StopsOnce`, `SameVerdict`,
`CleanReturn`, `DrainedIsExpected`, `PanicCancels`, `ReadyIsCurrent`), for any set of
services, any exits and any mix of any number of calls. The properties speak of calls that
have returned, the invariant of what leads there:

- `DrainInv`: what `sync.Once` and the drain channel tell. Once the drain is "done" every
  service was asked, and nobody passes `beginDrain` before that.
- `LeadInv` and `OwnerInv`: one call leads the runtime, `Run` or the `Shutdown` that
  claimed a runtime that never ran, and only it reaches the steps that stop services and
  close. From this follow `StopsOnce` and, with `VerdictInv`, `SameVerdict`.
- `RanInv`, `FoundInv` and `CleanInv`: one `Run` is accepted. The failure of a
  service is in the results channel, in its hands or in its error, and it goes on without
  the end of a service, or of its Shutdown, only with an error of its own. This is `CleanReturn`.
- `LateInv`: the service whose result `Run` holds has returned for good, so a drain that
  begins between the result and the read of the state cannot make it late.

The proof first sums up each action as a "turn": what it does to the call that takes it
and to what all calls share. The lemma `Steps` says that there are no other steps, and
each part of the invariant is then shown over the turns. Assumption: `RuntimeAssumption`.

**`ServicesProofs`**: `ReadyMeansWorking`, `ShutdownIsFinal` and `FatalIsReturned` of the
durable consumers, for any number of workers and of concurrent Shutdowns, and `SafeToReuse`
of the local route, for any calls, capacity and workers. The first invariant says where
Run and the workers of each consumer can be together, that the state, the flag of Run and
the done channel agree, and where an error is between the worker that fails and the result
of Run. The second says that an accepted delivery is queued, executing or carried out until
the library's Shutdown gave up, and what the result of that Shutdown is known to mean on
its way to the caller. Assumptions: `LifecycleAssumption`, `LocalAssumption`.

**`OutboxRelayProofs`**: `TransactionIsOwned`, for any number of relay workers, Shutdown calls
and messages, over the whole specification of the relay. `Owned` says that exactly the holder of
the gate is between its admission and its release; `Closing` that a Shutdown was called,
or the client closed, only in a state that admits nobody, which is what makes the
check under the transport's lock enough. Assumption: `FleetsAssumption`.

Only model-checked:

- liveness (`runtime_live`, `nats_settles`, `Settles` of `kafka_group` and the drains of
  `services`), which is out of the prover's reach;
- `DoneIsPublished` and the batches of the Kafka consumer, because answers are matched to jobs
  and records to batches by the recursion of `SelectSeq`, about which nothing can be proved
  for every length, and the functions of `Contracts` for the same reason;
- the Kafka group otherwise, the Messenger, the middleware and the topologies.

## Not modelled

`PROJECT.json` lists every part with its status. Left out:

- **Codec, envelope, manifest, the JSON of dead letters and CloudEvents.** Encoding is
  sequential and keeps no state between calls. The models keep what the control decides on:
  whether something decodes, can be recorded, is due or has expired. Correctness
  of the bytes is a matter of the golden tests beside that code.
- **Propagation, logging, observation.** No delivery decision reads them.
- **Validation of options and descriptors**, except where a boundary is computed
  (`Contracts`) or where declarations conflict (`Messenger`).
- **Migrations as a process, and the names of tables.** The final schema gives the row types.
- **Go error chains.** Failures are the kinds the code tells apart.
- **Heartbeats and sizes of batches.** A missed heartbeat is a redelivery, which may happen
  at any time; a batch that is full by bytes is one that closes early.
- **The libraries**: the PostgreSQL and SQLite engines, the NATS and Kafka clients, GoBus
  and the outbox job table are modelled from how the code uses them and marked
  external in `PROJECT.json`.
- **Concurrent NATS topology changes of several processes**, see above.
- **A NATS delivery without metadata** (`nats/consumer.go:608`), which the client library does
  not produce for a JetStream consumer: `processMessage` returns and leaves it to redelivery.
- **A route that answers a batch with a wrong number of receipts** (`outbox/relay_batch.go:83`):
  neither of the two routes does.
- **An abort of a Kafka transaction that fails** in the shared producer: the code joins
  the errors and goes on as after any failed publication.
- **Timeouts above half of the int64 range** in the rebalance budget of the Kafka consumer:
  `2 * operationTimeout` wraps there and the budget check passes. Such a timeout is over 146
  years long.
- **Tools and examples**, which are hosts of the library.
