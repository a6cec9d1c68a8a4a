\* Two coordinator objects: polls and commands of the one before a reload run
\* beside those of the one after it.
SPECIFICATION Spec
CONSTANTS
    Instance = {i1, i2}
    OptionalReads <- Optional1
    Supports = {}
    Macros = {"a"}
    RefreshEvery = 1
    Followups = 1
    Commands = TRUE
    LampStates = {FALSE}
    MaxRefusals = 0
    None = None
SYMMETRY Symmetry
PROPERTIES
    OutageKeepsNobodyWaiting
    LateWriteIsFollowup
    ReopenedLate
