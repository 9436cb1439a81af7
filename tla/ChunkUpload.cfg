SPECIFICATION FairSpec
CONSTANTS
    Stores = {"S3", "ABS", "GCS", "Swift"}
    NoOfChunks = 3
    Workers = {w1, w2}
    MaxAttempts = 1
INVARIANTS SaveIsDurable NeverBlocked
PROPERTY SaveReturns
CHECK_DEADLOCK FALSE
