\* worker.go: a completed row goes straight to history so that SABnzbd's delete
\* cannot wipe the record.
SPECIFICATION Spec
CONSTANTS
    MaxRetries = 2
    MaxNotYetAvailableRetries = 2
    MaxMetadataFailures = 1
    MaxStalls = 1
    MaxStallCredits = 1
    Suppliers = {}
    Workers = {w1}
    Callers = {c1}
    Keys = {k1}
    MaxIds = 1
    Rank <- Reversed
    Outcomes = {"ffmpeg_error"}
    Requests = {"enqueue", "sabdelete"}
    Faults = {}
    Ceiling = 2
    Floor = 1
    NoRow = NoRow
    Nobody = Nobody
SYMMETRY Symmetry
PROPERTIES
    CompletedStays
CHECK_DEADLOCK FALSE
