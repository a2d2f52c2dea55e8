\* An outsider creates an empty directory between the last check and the rename.
SPECIFICATION Spec
CONSTANTS
    Callers = {c1}
    NumArtifacts = 1
    MaxCrashes = 0
    Faults = {"mkdir"}
PROPERTY NoEntryReplaced
