SPECIFICATION Spec
CONSTANTS
    None = None
    inbox = inbox
    archive = archive
    Folders <- OneFolder
    Inbox = inbox
    Held = 1
    Flags = {"seen"}
    Limit = 1
    MaxAttempts = 2
    MaxCommands = 1
    MaxRemote = 3
    MaxMishaps = 0
INVARIANT CursorsAreHonest
PROPERTIES OpsHitTheirMessage
