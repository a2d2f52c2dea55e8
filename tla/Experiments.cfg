SPECIFICATION ExperimentsSpec
CONSTANTS
    RegisteredEpochs = 3
    RegisteredBatches = 2
    Recordings = 2
    DevelopmentLosses = {1, 2}
    Mixed = Mixed
    Missing = Missing
    Epochs = 3
    Batches = 2
    Records = 2
    Scores = {1, 2, 3}
    FitEpochs = 3
    FitBatches = 2
    Losses = {1, 2}
    NotYet = NotYet
    Members = 3
    Interval = 2
    MaxRuns = 3
    Clock = 3
    NoEpoch = NoEpoch
    Runs = {r1, r2}
    None = None
INVARIANTS
    BoundariesOnDisk
    WritesAreCovered
    FailureTells
    ReportIsComplete
    LoopOK
    SeparatedOK
    PoolOK
    ReportOfOneRun
    Accounted
    RestsOnWhatItHashed
PROPERTIES
    EvidenceStays
SYMMETRY Symmetric
CHECK_DEADLOCK FALSE
