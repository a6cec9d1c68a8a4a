\* Three optional reads, of which the projector answers two; macros are read in
\* every second poll; one refusal of a command that is answered as a rule.
SPECIFICATION FairSpec
CONSTANTS
    Instance = {i1}
    OptionalReads <- Optional3
    Supports = {"errors", "sleep"}
    Macros = {"a", "b"}
    RefreshEvery = 2
    Followups = 0
    Commands = FALSE
    LampStates = {FALSE, TRUE}
    MaxRefusals = 1
    None = None
INVARIANTS
    TypeOK
    OutageTeachesNothing
    NoDeadEntities
    FileIsCurrent
PROPERTIES
    SameEntitiesOffline
    EventuallyMeasured
