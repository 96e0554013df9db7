SPECIFICATION FairSpec
CONSTANTS
    NULL = NULL
    a1 = a1
    a2 = a2
    d1 = d1
    d2 = d2
    Accounts <- OneAccount
    Drafts <- OneDraft
    Delays <- OneDelay
    MaxAttempts = 2
    DueLimit = 1
    MaxVersions = 1
    MaxMishaps = 2
CHECK_DEADLOCK FALSE
PROPERTIES EveryRowSettles
