SPECIFICATION FairCopySpec
CONSTANTS
    Workers = {w1, w2}
    MaxBackups = 1
    MaxSnaps = 3
    MaxFailures = 1
INVARIANT FinalCopied
PROPERTIES SyncComplete CopyReturns Converges
CHECK_DEADLOCK FALSE
