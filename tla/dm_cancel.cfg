\* A row is grabbed, cancelled and deleted, from the queue and from history,
\* against two workers; the wait for the claim may time out, and SIGTERM may
\* arrive.
SPECIFICATION Spec
CONSTANTS
    MaxRetries = 2
    MaxNotYetAvailableRetries = 2
    MaxMetadataFailures = 1
    MaxStalls = 1
    MaxStallCredits = 1
    Suppliers = {}
    Workers = {w1, w2}
    Callers = {c1}
    Keys = {k1}
    MaxIds = 1
    Rank <- Reversed
    Outcomes = {"ffmpeg_error"}
    Requests = {"enqueue", "cancel", "sabdelete", "deletehistory", "clearhistory"}
    Faults = {"shutdown", "timeout"}
    Ceiling = 2
    Floor = 1
    NoRow = NoRow
    Nobody = Nobody
SYMMETRY Symmetry
INVARIANTS
    ClaimExclusive
    NoMarkLeak
    BucketFollowsWorker
    NoOrphans
    TerminalInTransit
    HistoryIsFinal
CHECK_DEADLOCK FALSE
