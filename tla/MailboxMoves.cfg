SPECIFICATION Spec
CONSTANTS
    None = None
    inbox = inbox
    archive = archive
    Folders <- TwoFolders
    Inbox = inbox
    Held = 1
    Flags = {"seen"}
    Limit = 1
    MaxAttempts = 2
    MaxCommands = 2
    MaxRemote = 0
    MaxMishaps = 1
INVARIANT CopiesNeedMishaps
PROPERTY OnlyDeletesLoseMail
