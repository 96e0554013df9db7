SPECIFICATION FairSpec
CONSTANTS
    g = g
    h = h
    j = j
    Imap = {g, h}
    Jmap = {j}
    Folders = {1, 2, 3, 4}
    Home <- HomeOf
    Cap = 1
    Channel = 1
    Buffer = 1
    Passes = {1, 2}
    Plans <- Plenty
INVARIANTS WatchedAreCovered
CHECK_DEADLOCK FALSE
PROPERTIES NothingIsMissed
