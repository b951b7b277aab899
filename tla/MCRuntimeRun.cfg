SPECIFICATION Spec
CONSTANTS
    c1 = c1
    c2 = c2
    c3 = c3
    s1 = s1
    AllServices = {s1, s2}
    Callers = {c1, c2, c3}
    Offered <- CallMix
SYMMETRY ServiceSymmetry
INVARIANTS
    CleanReturn
    DrainedIsExpected
    PanicCancels
    StopsOnce
    SameVerdict
PROPERTIES
    ReadyIsCurrent
CHECK_DEADLOCK FALSE
