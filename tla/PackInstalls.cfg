\* Persistent callers over a failing network, with crashes.
SPECIFICATION PersistentSpec
CONSTANTS
    Callers = {c1, c2}
    NumArtifacts = 2
    MaxCrashes = 1
    Faults = {"bytes", "network", "crash"}
PROPERTIES EventuallyInstalled CompleteEntryServes
