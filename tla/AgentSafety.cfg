SPECIFICATION Spec
CONSTANTS
    Threads = {t1, t2}
    Insts = {i1, i2}
    NoInst = NoInst
    MaxAttempts = 2
    MaxRetries = 2
    EscalateAfter = 2
SYMMETRY Symmetry
CHECK_DEADLOCK FALSE
INVARIANTS
    OneOwner
