CONSTANTS
    Threads = {t1, t2}
    Cells = {a1, a2}
    NIL = NIL
SPECIFICATION WSpec
INVARIANT AllCancelled
CHECK_DEADLOCK FALSE
