SPECIFICATION FairSpec
CONSTANTS
    Tasks = {t1, t2}
    MaxSlots = 4
    MaxTokens = 3
    Scenarios <- Overlaps
    None = None
INVARIANTS RetryIsFresh CredentialsSurvive
PROPERTIES CallsReturn
CHECK_DEADLOCK FALSE
