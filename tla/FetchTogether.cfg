\* Two fetchers in one directory and no failure at all.
SPECIFICATION Spec
CONSTANTS
    Fetchers = {f1, f2}
    DOWNLOAD_ATTEMPTS = 3
    MaxFaults = 0
INVARIANTS OkMeansLocked
