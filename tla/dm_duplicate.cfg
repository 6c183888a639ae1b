\* worker.go: a claim prevents duplicate processing.
SPECIFICATION Spec
CONSTANTS
    MaxRetries = 2
    MaxNotYetAvailableRetries = 2
    MaxMetadataFailures = 1
    MaxStalls = 1
    MaxStallCredits = 1
    Suppliers = {}
    Workers = {w1, w2}
    Callers = {c1}
    Keys = {k1}
    MaxIds = 1
    Rank <- Reversed
    Outcomes = {"ffmpeg_error"}
    Requests = {"enqueue"}
    Faults = {}
    Ceiling = 2
    Floor = 1
    NoRow = NoRow
    Nobody = Nobody
SYMMETRY Symmetry
PROPERTIES
    NoDuplicateProcessing
CHECK_DEADLOCK FALSE
