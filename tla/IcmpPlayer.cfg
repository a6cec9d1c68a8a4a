SPECIFICATION Spec
CONSTANTS
    MaxQueue = 3
INVARIANTS
    ShownIsLastSent
    ChoiceFits
