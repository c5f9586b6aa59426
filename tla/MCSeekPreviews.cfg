SPECIFICATION FairSpec
CONSTANTS
    f1 = f1
    f2 = f2
    tv = tv
    None = None
    Files <- MCFiles
    Libraries = {tv}
    LibraryOf <- MCLibraryOf
    MaxVersion = 1
    Sheets = 2
    MaxEvents = 2
INVARIANTS
    SetsAreWhole
    DeletedStaysDeleted
PROPERTIES
    Settles
CHECK_DEADLOCK FALSE
