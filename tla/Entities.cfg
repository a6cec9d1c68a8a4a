SPECIFICATION FairSpec
CONSTANTS
    Texts = {"A", "B"}
    Buttons = 2
    KeypadsUsed <- Keypads3
    RefreshEvery = 2
    Followups = 1
    MaxChanges = 3
    None = None
PROPERTIES
    WakesWhenShownAsleep
    EventuallyShown
    EventuallyListed
