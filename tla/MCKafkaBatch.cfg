SPECIFICATION Spec
CONSTANTS
    w1 = w1
    k1 = k1
    k2 = k2
    f1 = f1
    f2 = f2
    f3 = f3
    Workers = {w1, w2}
    Keys = {k1, k2}
    Fps = {f1, f2, f3}
    Undecodable = {f3}
    Limits = {2}
    Times = {1}
    Null = Null
    MaxRetries = 2
    MaxMessages = 2
    Setups <- BatchSetups
INVARIANT RangeInOnePlace
CHECK_DEADLOCK FALSE
