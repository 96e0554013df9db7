SPECIFICATION Spec
CONSTANTS
    NULL = NULL
    a1 = a1
    a2 = a2
    d1 = d1
    d2 = d2
    Accounts <- TwoAccounts
    Drafts <- OneDraft
    Delays <- OneDelay
    MaxAttempts = 2
    DueLimit = 2
    MaxVersions = 2
    MaxMishaps = 1
CHECK_DEADLOCK FALSE
VIEW View
INVARIANTS SentMailIsNeverLost DuplicatesNeedLostNews NeverZeroCopies RowsAreSound
PROPERTIES UploadsNeverGoBack KeepsThePromise
