SPECIFICATION Spec
CONSTANTS
    Task = {t1}
    MaxCalls = 2
    Ops = {"read","raw_read"}
    Cancels = FALSE
INVARIANTS
    AnswerIsOwn
