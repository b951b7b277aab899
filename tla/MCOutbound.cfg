SPECIFICATION OutboundSpec
CONSTANTS
    Descriptors <- Described
    MessageRoutes <- Routed
    Services <- Used
    HandlerIds <- Named
    MaxDeclarations = 4
    MaxSent = 2
    Shapes = {"local", "query", "durable", "batch"}
    MaxChain = 2
    Callers = {c1, c2}
    Stoppers = {s1}
    Msgs = {m1, m2, m3, m4, g}
    Fleets <- Fleeting
    Unready = {m2}
    Expirable = {m1}
    Garbled = {g}
    MaxTransportFaults = 1
    MaxAttempts = 2
    MaxBatch = 3
    PublishWindow = 2
    Nobody = Nobody
    c1 = c1
    c2 = c2
    s1 = s1
    m1 = m1
    m2 = m2
    m3 = m3
    m4 = m4
    g = g
    Appliers = {a1, a2}
    KafkaStates <- KafkaBefore
    NatsStates <- NatsBefore
    KafkaDeclared <- KafkaWanted
    NatsDeclared <- NatsWanted
    StartedConsumers <- Started
    DLQSubject = "d"
    DefaultMaxDLQMessageBytes = 2
    Absent = Absent
    MaxTopologyFaults = 1
    Tokens = {"a", "b"}
    MaxTokens = 3
    MaxDuration = 31
    MaxRebalance = 12
    DefaultRebalance = 3
    RebalanceMargin = 1
    MaxRecord = 5
    Durations <- DurationsTried
    Invalid = Invalid
INVARIANTS
    DeclaredIsServed
    LineageHolds
    SuccessIsEarned
    TransactionIsOwned
    DoneIsPublished
    AppliedStarts
    MatchesReference
PROPERTIES
    NeverShrinks
CHECK_DEADLOCK FALSE
