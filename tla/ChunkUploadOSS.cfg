SPECIFICATION Spec
CONSTANTS
    Stores = {"OSS"}
    NoOfChunks = 2
    Workers = {w1, w2}
    MaxAttempts = 1
INVARIANT SaveIsDurable
CHECK_DEADLOCK FALSE
