CONSTANTS
    c1 = c1
    c2 = c2
    c3 = c3
    t1 = t1
    Calls = {c1, c2, c3}
    NoCall = NoCall
    Targets = {t1}
    NoTarget = NoTarget
    Prompt = FALSE
    Faults = TRUE
SPECIFICATION Spec
INVARIANT SerializedStarts
CHECK_DEADLOCK FALSE
