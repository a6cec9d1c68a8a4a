\* Cancellation wherever a task waits, and raw reads.
SPECIFICATION FairSpec
CONSTANTS
    Task = {t1, t2}
    MaxCalls = 1
    Ops = {"read", "write", "raw_read", "connect", "close"}
    Cancels = TRUE
INVARIANTS
    OneRequestAtATime
PROPERTIES
    EveryCallReturns
