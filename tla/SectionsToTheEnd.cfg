\* Every envelope and every choice of beats on a coarse grid; the end of the
\* shorter recording clips the last quiet span.
SPECIFICATION SectionsSpec
CONSTANTS
    Durations = {2700}
    BeatTimes = {0, 250, 500, 750, 2250, 2750}
    ActivityHop = 500
    Scores = {1, 2}
    MinimumSilence = 800
    GapFactor = 7
    ShortestGap = 1000
    MergeWindow = 750
    SectionWindow = 500
    FewestToHalve = 6
    FewestOnGrid = 3
    MaxCurveChanges = 1
INVARIANT SectionsReachTheEnd
CHECK_DEADLOCK FALSE
