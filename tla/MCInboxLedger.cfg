CONSTANTS
    Keys = {k1}
    Fps = {f1, f2}
    NoGen = "original"
    Gens = {"original", "replay"}
    Times = {1, 2}
    Null = Null
    Limits = {1, 2}
    Ops <- OpNames
SPECIFICATION Spec
INVARIANTS EffectivelyOnce ChildRowsOwned MarkersAgree NothingStranded
PROPERTIES ClosedFrozen OpenSurvives
