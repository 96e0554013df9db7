SPECIFICATION FairSpec
CONSTANTS
    None = None
    d1 = d1
    d2 = d2
    f1 = f1
    a1 = a1
    Jobs <- OneJob
    Folders <- OneFolder
    AccountOf <- OneAccount
    Uids <- GapUids
    ForeignUids = {1}
    Removable = {a1}
    ChunkSize = 1
    MaxRetries = 2
    MaxMishaps = 0
    MaxCrashes = 1
INVARIANTS
    RemovedLeavesNothing
PROPERTIES
    EveryPullSettles
