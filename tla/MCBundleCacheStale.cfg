SPECIFICATION BundleCacheSpec
CONSTANTS
    Builders = {b1}
    MaxCveRev = 1
    BundleFaults = 0
INVARIANT NoStaleBundle
CHECK_DEADLOCK FALSE
