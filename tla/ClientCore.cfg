\* Two tasks, two calls each: a call can meet whatever the previous call of
\* either task left behind.
SPECIFICATION Spec
CONSTANTS
    Task = {t1, t2}
    MaxCalls = 2
    Ops = {"read", "write", "close"}
    Cancels = FALSE
SYMMETRY Symmetry
INVARIANTS
    TypeOK
    AnswerIsOwn
    QuietWhenFree
    OutcomeIsTrue
PROPERTIES
    RetryOnFreshConnection
    FirstComeFirstServed
    ImplementsSerialCalls
