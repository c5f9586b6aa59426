SPECIFICATION WorkFairSpec
CONSTANTS
    e1 = e1
    e2 = e2
    s1 = s1
    None = None
    Failed = Failed
    Generator = Generator
    Detector = Detector
    Clients = {Generator, Detector}
    NoClient = None
    Prio <- MCPrio
    Files <- MCFiles
    Episodes <- MCFiles
    EpisodeOf <- MCEpisodeOf
    Seasons = {s1}
    SeasonOf <- MCSeasonOf
    MaxFailures = 2
    MaxVersion = 1
    MaxEvents = 2
    MaxPreviews = 1
INVARIANTS
    HeardAtItsVersion
PROPERTIES
    PreviewsGoFirst
    ImplementsPriorityLane
    HearingEnds
    ShutsDown
CHECK_DEADLOCK FALSE
