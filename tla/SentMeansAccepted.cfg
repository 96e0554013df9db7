SPECIFICATION Spec
CONSTANTS
    Unset = Unset
    Values = {0, 1}
    AccountOrder <- AccountOrderDef
    Days <- DaysDef
    FolderOrder <- FolderOrderDef
    Clicks <- ClicksDef
    Programs <- ProgramsDef
    Migrating <- MigratingDef
    Latest = 2
    Size = 2
    Troubles <- TrialsDef
    Users = {"sync", "read"}
    Selectable = {"inbox", "sent"}
    Advertised <- AdvertisedDef
    Weathers <- WeathersDef
    Parcels <- ParcelsDef
    Reserved = {"CON"}
    Unsafe = {"exe", "bin"}
    MostTries = 2
    AtATime = 2
    Clickings <- ClickingsDef
    Held = {5, 6}
    Top = 7
    Old = {5}
    Cap = 3
    Batch = 2
    Mischief <- MischiefDef
    Batches <- BatchesDef
    Limit = 2
    Seasons <- SeasonsDef
    Messages = {"m"}
    Shelves = {"inbox", "archive"}
    Errands <- ErrandsDef
    Plans <- PlansDef
    Texts <- TextsDef
    Tenants <- TenantsDef
    Roles <- RolesDef
    Items <- ItemsDef
    Given <- GivenDef
    Months <- MonthsDef
    Evenings <- EveningsDef
    Post <- PostDef
    Chunks <- ChunksDef
    Outings <- OutingsDef
    Since = 3
    Most = 2
    People <- PeopleDef
    NameOf <- NameOfDef
    Begins <- BeginsDef
    Short = {"", "a"}
    MostSuggested = 8
    Sessions <- SessionsDef
    Self = "me"
    Openers <- OpenersDef
    Longest = 4
    Letters <- LettersDef
    Fortunes <- FortunesDef
    Wires = {"smtp", "jmap", "other", "bare"}
    MaxAttempts = 3
    Holds = {TRUE, FALSE}
    Parts = {"delivery"}
INVARIANT SentMeansAccepted
CHECK_DEADLOCK FALSE
