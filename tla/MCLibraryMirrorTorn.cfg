SPECIFICATION Spec
CONSTANTS
    Absent = Absent
    NMedia = 0
    NTitles = 2
    Sweeps = {worker}
    PageSize = 4
    MaxChanges = 3
    MaxGrants = 0
    MaxFailures = 0
INVARIANT CheckpointCovers
CHECK_DEADLOCK FALSE
