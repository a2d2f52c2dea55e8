\* Two callers, every kind of failure, one crash or power failure, and outsiders that
\* create, change and remove the entry.
SPECIFICATION AuditSpec
CONSTANTS
    Callers = {c1, c2}
    NumArtifacts = 1
    MaxCrashes = 1
    Faults = {"bytes", "network", "io", "crash", "power", "mkdir", "place", "write", "remove"}
SYMMETRY CallerSymmetry
INVARIANTS PublishedArtifacts OkWasWitnessed PresentNeverDownloads
PROPERTY ImplementsStore
