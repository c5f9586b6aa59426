SPECIFICATION FairSpec
CONSTANTS
    r1 = r1
    r2 = r2
    p1 = p1
    p2 = p2
    NoRequest = NoRequest
    NoJob = NoJob
    Requests <- MCRequests
    Procs = {p1, p2}
    Segments = {0, 4}
    Near = 1
    Modes = {"hardware", "cpu", "copy"}
INVARIANTS
    NoOrphan
    FlagsTellTheJob
PROPERTIES
    NoThrash
    ImplementsEncoderSlot
    EverythingEnds
CHECK_DEADLOCK FALSE
