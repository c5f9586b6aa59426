CONSTANTS
    s1 = s1
    s2 = s2
    guest = guest
    owner = owner
    phone = phone
    online = online
    NoSession = NoSession
    None = None
    SessionIds <- MCSessionIds
    Users = {guest, owner}
    Devices = {phone}
    Decisions <- MCDecisions
    MaxStreams <- MCMaxStreams
    Cap = 1
    Reservations = {online}
    MaxOpens = 2
    SharerStreams = 1
SPECIFICATION FairSpec
INVARIANTS
    StreamLimitHeld
    EncodersAccounted
    EndAnnouncedOnce
    NoStrays
    StreamsAreLeftAlone
PROPERTIES
    SessionsEnd
    ImplementsTranscodeCap
