SPECIFICATION Spec
CONSTANTS
    Instance = {i1}
    OptionalReads <- Optional1
    Supports = {}
    Macros = {"a"}
    RefreshEvery = 1
    Followups = 1
    Commands = TRUE
    LampStates = {FALSE}
    MaxRefusals = 0
    None = None
INVARIANTS
    RemovedIsForgotten
