\* Two callers grab the same episodes again and again, with a priority, while
\* an operator moves rows and pauses, the worker panics and the process crashes;
\* failures are come-back-later ones or hard ones.
SPECIFICATION Spec
CONSTANTS
    MaxRetries = 2
    MaxNotYetAvailableRetries = 2
    MaxMetadataFailures = 1
    MaxStalls = 1
    MaxStallCredits = 1
    Suppliers = {}
    Workers = {w1}
    Callers = {c1, c2}
    Keys = {k1}
    MaxIds = 3
    Rank <- Reversed
    Outcomes = {"not_yet_available", "ffmpeg_error"}
    Requests = {"enqueue", "priority", "move", "pause"}
    Faults = {"crash", "panic"}
    Ceiling = 2
    Floor = 1
    NoRow = NoRow
    Nobody = Nobody
SYMMETRY Symmetry
INVARIANTS
    OneRowPerKey
    OneBucket
PROPERTIES
    NoGrabLost
    CompletedStays
    AbandonedUntilCancelled
CHECK_DEADLOCK FALSE
