SPECIFICATION Spec
CONSTANTS
    Chunk = 7
    Border = 2
    Hop = 2
    HalfTokens = 1
    Centers = 3
    Halo = 2
    Padding = Padding
    Periods = {2, 3}
    Meters = {2, 3}
    Unit = 3
    Tempo <- MCTempo
    Law <- MCLaw
    Unavailable = Unavailable
    HALO = 8
    CAP = 8
    MAX_INTERVALS = 4
    Span = 12
    Advance = 4
    Cycle = 120
    TOLERANCE = 1
    None = None
    Lag = 2
    Absent = Absent
    Places = {1, 2, 3}
    GROUPS <- MCGROUPS
    Underflow = Underflow
    FRAMES = 12
    Grain = 12
    MARGIN = 1
    TickBudget = 9
    TooMany = TooMany
    Lengths <- MCLengths
    Evidences <- MCEvidences
    MaxStates = 1000
    Duration = 28
    Gap = 12
    Steps3 <- MCSteps
    Counts3 <- MCCounts
    Rates <- MCRates
    Scored <- MCScored
    Fine = 12
    RADIUS = 3
    EventLimit = 8
    Even = 1
    MergeWidth = 1
    NearBeat = 42
    NoMark = NoMark
    WINDOW = 6
    TickSites <- MCTickSites
    HeardSites <- MCHeardSites
    Logits <- MCLogits
    Downs <- MCDowns
    Motifs <- MCMotifs
    BeatGaps = {12, 18, 30}
    Windows = 3
    FewestInRun = 3
    Unlabelled = Unlabelled
    FewestEvents = 4
    FewestAdditions = 2
    Quickest = 2
    Slowest = 5
    EventCost = 19
    Motion <- MCMotion
    Switch <- MCSwitch
    NoPath = NoPath
    Octaves <- MCOctaves
    CurveTolerance = 40
    ConstantRatio = 3
    JumpRatio = 12
    BridgeBeats = 2
    JumpDuration = 300
    CandidateSets <- MCCandidateSets
    LabelledBeats = 27
    Sites <- MCSites
    SiteSpan = 13
    SourceBeats <- MCSourceBeats
    Heard <- MCHeard
    Tempi <- MCTempi
INVARIANT DuplicatesAreOmitted
CHECK_DEADLOCK FALSE
