SPECIFICATION FairSpec
CONSTANTS
    Jobs = {j1, j2}
    Workers = {w1, w2}
    None = None
    MaxAttempts = 2
    Timeout = 2
    Lease = 3
    Backoff = 1
    Overrun = 3
INVARIANTS AttemptAccounting
PROPERTIES OutcomeOfCurrentAttempt EveryJobEnds
