SPECIFICATION LifecycleSpec
CONSTANTS
    Pool = {w1, w2}
    Closers = {s1}
    Flavors = {"nats_batch"}
    MaxRecreations = 0
INVARIANT UndisturbedFatalIsReturned
CHECK_DEADLOCK FALSE
