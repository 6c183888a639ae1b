\* Sonarr searches by id, by number and by name, and polls the feed.
SPECIFICATION Spec
CONSTANTS
    Clients = {c1}
    Series = {"who05", "who23"}
    ShowOf <- Shows
    Worlds <- WorldsOf
    TVDB <- ListsOf
    Requests <- RequestsOf
    Heights <- HeightsOf
    Ceiling = 720
    MaxPolls = 2
    Failures = {"ibl", "skyhook", "cancel", "lost", "restart"}
    NoKey = NoKey
    GenericKeys = {}
    MatchWindow = 7
    OneOffWindow = 31
    BeforeRun = 365
    AfterRun = 3650
    NoName = NoName
    NoSeries = NoSeries
    Unknown = Unknown
    NotYet = NotYet
INVARIANTS
    AskedIsAnswered
    OneAtANumber
    
    RightEra
PROPERTIES
    DebutsAboveWatermark
CHECK_DEADLOCK FALSE
