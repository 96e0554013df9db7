SPECIFICATION FairSpec
CONSTANTS
    None = None
    d1 = d1
    d2 = d2
    f1 = f1
    a1 = a1
    Jobs <- JobSet
    Folders <- OneFolder
    AccountOf <- OneAccount
    Uids <- PairUids
    ForeignUids = {}
    Removable = {}
    ChunkSize = 1
    MaxRetries = 1
    MaxMishaps = 0
    MaxCrashes = 0
PROPERTIES
    EveryJobEnds
