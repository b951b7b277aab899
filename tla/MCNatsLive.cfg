SPECIFICATION FairSpec
CONSTANTS
    k1 = k1
    k2 = k2
    f1 = f1
    f2 = f2
    f3 = f3
    Workers = {w1}
    Keys = {k1, k2}
    Fps = {f1, f2, f3}
    NoGen = 0
    Gens = {0, 1}
    Ops <- OpNames
    Undecodable = {f2}
    Unrecordable = {f3}
    Limits = {2}
    Times = {1}
    Null = Null
    MaxMsgs = 2
    MaxCopies = 1
    MaxMessages = 2
    Setups <- SettleSetups
PROPERTIES
    Settles
CHECK_DEADLOCK FALSE
