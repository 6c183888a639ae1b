\* Two grabs that stall and open cooldowns, and cancels of them, under the
\* fairness of the scheduler.
SPECIFICATION FairSpec
CONSTANTS
    MaxRetries = 2
    MaxNotYetAvailableRetries = 2
    MaxMetadataFailures = 1
    MaxStalls = 2
    MaxStallCredits = 1
    Suppliers = {}
    Workers = {w1}
    Callers = {c1}
    Keys = {k1, k2}
    MaxIds = 2
    Rank <- Reversed
    Outcomes = {"stalled"}
    Requests = {"enqueue", "cancel"}
    Faults = {}
    Ceiling = 2
    Floor = 1
    NoRow = NoRow
    Nobody = Nobody
PROPERTIES
    GrabsEnd
    CancelsReturn
CHECK_DEADLOCK FALSE
