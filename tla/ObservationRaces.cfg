\* Three runs, two of them with one process id, race for one key.
SPECIFICATION FairSpec
CONSTANTS
    r1 = r1
    r2 = r2
    r3 = r3
    Runs = {r1, r2, r3}
    PidOf <- TwoShareAPid
    Keys = {k1}
    Shapes = {s1, s2}
    Observations = {o1}
    Nothing = Nothing
    MaxFaults = 1
INVARIANTS CacheIsJudged
PROPERTIES CachedOrBlocked
