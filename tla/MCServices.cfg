SPECIFICATION ServicesSpec
CONSTANTS
    Callers = {run, begin, shut, deliver, other}
    run = run
    begin = begin
    shut = shut
    deliver = deliver
    other = other
    Offered <- CallMix
    Capacity = 1
    Workers = 1
    Pool = {w1, w2}
    Closers = {s1}
    Flavors = {"kafka", "kafka_batch", "nats", "nats_batch"}
    MaxRecreations = 2
INVARIANTS
    SafeToReuse
    ReadyMeansWorking
    ShutdownIsFinal
    FatalIsReturned
PROPERTIES
    ForcedRunEnds
    RunEnds
CHECK_DEADLOCK FALSE
