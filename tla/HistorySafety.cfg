SPECIFICATION Spec
CONSTANTS
    None = None
    d1 = d1
    d2 = d2
    f1 = f1
    a1 = a1
    Jobs <- JobSet
    Folders <- OneFolder
    AccountOf <- OneAccount
    Uids <- GapUids
    ForeignUids = {}
    Removable = {}
    ChunkSize = 1
    MaxRetries = 2
    MaxMishaps = 1
    MaxCrashes = 1
SYMMETRY JobSymmetry
INVARIANTS
    CompletedIsComplete
    IndexIsBack
