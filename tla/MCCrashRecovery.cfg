SPECIFICATION RecSpec
CONSTANTS
    Hash = {h1, h2}
    None = None
    Config <- Restarts
    MaxSeq = 2
    MaxCrashes = 2
SYMMETRY Hashes
CHECK_DEADLOCK FALSE
INVARIANT BoundBytesIntact
PROPERTY CleanCrashLosesNothing
