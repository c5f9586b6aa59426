SPECIFICATION Spec
CONSTANTS
    r1 = r1
    r2 = r2
    Requests <- MCRequests
    Last = 3
    Window = 1
SYMMETRY Interchangeable
INVARIANT NeverHalfWritten
CHECK_DEADLOCK FALSE
