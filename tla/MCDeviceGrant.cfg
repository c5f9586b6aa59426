SPECIFICATION FairSpec
CONSTANTS
    ada = ada
    guest = guest
    sub = sub
    k1 = k1
    None = None
    Rechecker = Rechecker
    Locals = {ada}
    Guests = {guest}
    Subjects = {sub}
    Codes = {k1}
    MaxRequests = 2
    MaxUnverified = 2
    MaxEvents = 3
INVARIANTS
    EveryoneHasAWayIn
    CodeGoesToItsApprover
PROPERTIES
    DirectoryRules
CHECK_DEADLOCK FALSE
