SPECIFICATION GroupSpec
CONSTANTS
    k1 = k1
    k2 = k2
    f1 = f1
    f2 = f2
    f3 = f3
    Workers = {w1, w2}
    Keys = {k1, k2}
    Fps = {f1, f2}
    NoGen = 0
    Gens = {0, 1, 2}
    Ops <- OpNames
    Undecodable = {}
    Unrecordable = {}
    Limits = {2}
    Times = {1}
    Null = Null
    MaxMsgs = 2
    MaxCopies = 2
    MaxMessages = 2
    Setups <- DeliverySetups
SYMMETRY WorkerSymmetry
INVARIANTS
    NothingLost
    DeadIsClosed
    ConfirmedIsHandedOff
    OneWinner
CHECK_DEADLOCK FALSE
