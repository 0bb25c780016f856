SPECIFICATION Spec
CONSTANTS
    p1 = p1
    p2 = p2
    c1 = c1
    c2 = c2
    c3 = c3
    c4 = c4
    None = None
    Procs = {p1, p2}
    Callers = {c1, c2, c3, c4}
    Proc <- MCProc
    Parent <- MCParent
INVARIANT UpdatesKept
PROPERTIES HeldUntilLastRelease LockIsObtained
CHECK_DEADLOCK FALSE
