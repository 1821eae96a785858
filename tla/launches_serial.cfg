CONSTANTS
    c1 = c1
    c2 = c2
    c3 = c3
    t1 = t1
    t2 = t2
    Calls = {c1, c2, c3}
    NoCall = NoCall
    Targets = {t1, t2}
    NoTarget = NoTarget
    Prompt = TRUE
    Faults = TRUE
SPECIFICATION Spec
SYMMETRY CallSymmetry
INVARIANTS
    TypeOK
    LockExclusive
PROPERTIES
    
    ServedInOrder
CHECK_DEADLOCK FALSE
