SPECIFICATION FairSpec
CONSTANTS
    None = None
    Rekeys = {rekey}
    Unlinks = {unlink}
    Syncs = {sync}
    MaxTroubles = 2
INVARIANTS
    OneWorker
    ConnectedIsEarned
    NoOrphans
PROPERTIES
    RequestsReturn
    Recovers
CHECK_DEADLOCK FALSE
