SPECIFICATION FairSpec
CONSTANTS
    Absent = Absent
    NMedia = 2
    NTitles = 2
    Sweeps = {worker}
    PageSize = 1
    MaxChanges = 2
    MaxGrants = 2
    MaxFailures = 2
INVARIANTS
    MissesNothing
    NoPhantoms
PROPERTIES
    TitlesStay
    Settles
CHECK_DEADLOCK FALSE
