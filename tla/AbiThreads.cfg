\* Three threads that share an analyzer, free it and make it anew.
SPECIFICATION FairSpec
CONSTANTS
    Threads = {t1, t2, t3}
    None = None
    MaxCalls = 2
INVARIANTS OwnError EngineIsSound
PROPERTY CallsReturn
CHECK_DEADLOCK FALSE
