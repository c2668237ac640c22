SPECIFICATION Spec
SYMMETRY Interchangeable
CONSTANTS
    Jobs = {j1, j2}
    Workers = {w1, w2}
    None = None
    MaxAttempts = 2
    Timeout = 2
    Lease = 4
    Backoff = 1
    Overrun = 1
INVARIANTS TypeOK ExclusiveExecution StatusesAgree
PROPERTIES TerminalIsFinal
