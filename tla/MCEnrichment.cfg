SPECIFICATION EnrichmentFairSpec
CONSTANTS
    a = a
    b = b
    Namespaces = {a, b}
    Ids = {x}
    Requests = {r1}
    Pass = Pass
    Policies <- MCPolicies
    MaxQueue = 1
    MaxMoves = 3
    None = None
    Off = Off
    Hand = Hand
INVARIANTS
    TellsItsRecord
    PolicyTakes
PROPERTIES
    AskedAgain
CHECK_DEADLOCK FALSE
