CONSTANTS
    Keys = {k1}
    GoOrder <- OneKey
    DbOrder <- OneKey
    Fps = {f1}
    NoGen = "original"
    Gens = {"original"}
    Times = {1, 2}
    Null = Null
    Limits = {2}
    Ops = {"ProcessAttempt"}
    Workers = {w1}
    MaxStarts = 4
SPECIFICATION CountedSpec
INVARIANTS InvocationsBounded
CHECK_DEADLOCK FALSE
