SPECIFICATION FairSpec
CONSTANTS
    Task = {t1, t2}
    MaxCalls = 1
    Ops = {"send", "batch", "connect", "close"}
INVARIANTS
    TypeOK
    OneCommandAtATime
    CarriedOutOnce
    FailedIsUnsent
    AcknowledgedFromTheStart
PROPERTIES
    RejectionIsOwn
    ImplementsOnceCalls
    EveryCallReturns
