\* The attempts of one row, with smaller budgets than the shipped ones: every
\* counter still reaches its limit, and two CDN failures take the 1080 asked for
\* down to 540.
SPECIFICATION AttemptSpec
CONSTANTS
    MaxRetries = 3
    MaxNotYetAvailableRetries = 4
    MaxMetadataFailures = 2
    MaxStalls = 3
    MaxStallCredits = 1
    Suppliers = {"a", "b"}
    Requested = 1080
    Offers <- OffersOf
    Playlists <- PlaylistsOf
    Base = 1
    MaxTimeout = 3
    Grace = 2
    Duration = 2
INVARIANTS
    EveryFailureCharged
    DedicatedBudgets
    AttemptsBounded
    DegradeIsEarned
    SuppliersAlternate
    NoSilentUpgrade
PROPERTIES
    CountersNeverReset
    CdnFailureLowers
    EventuallySettled
