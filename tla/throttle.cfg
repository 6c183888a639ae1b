\* The shipped defaults with one tick for 60 s: window 120 s, cooldowns from
\* 180 s to 900 s, a step up after 180 s, two downloads make a cluster.
SPECIFICATION FairSpec
CONSTANTS
    Downloads = {d1, d2, d3}
    Threshold = 2
    Window = 2
    BaseCooldown = 3
    MaxCooldown = 15
    CooldownUp = 3
    Floor = 1
    Ceiling = 5
INVARIANTS
    RecoveryAfterCooldown
PROPERTIES
    OneStepPerWindow
    OneHalvingPerCooldown
    ClusterOpensCooldown
    FullRecovery
    ImplementsThrottle
