CONSTANTS
    k1 = k1
    k2 = k2
    Fps = {f1}
    NoGen = "original"
    Gens = {"original"}
    Times = {1, 2}
    Null = Null
    Workers = {w1, w2}
    Keys = {k1, k2}
    GoOrder <- Ascending
    DbOrder <- Descending
    Limits = {2}
    Ops <- OpNames
SPECIFICATION TxSpec
SYMMETRY WorkerSymmetry
INVARIANTS HandlerExclusive NoDeadlock
PROPERTIES Serializable
