\* Two fetchers in one directory, apart or overlapping, with failures.
SPECIFICATION FairSpec
CONSTANTS
    Fetchers = {f1, f2}
    DOWNLOAD_ATTEMPTS = 2
    MaxFaults = 2
INVARIANTS ApartOkMeansLocked
PROPERTIES LoneFetcherRepairs
