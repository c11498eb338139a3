CONSTANTS
    None = None
    Keys = {"k1", "k2", "k3"}
    BlankKeys = {}
    Aliases = {"paper", "other"}
    Instruments = {"SPY"}
    Venues = {"ARCX", "XXXX"}
    TicksPerSecond = 2
    SCALE = 2
    RawMax = 1000
    Mid <- MCMid
    HalfSpread = 1
    Profiles <- MCProfiles
    Servers = {s1}
    Intents <- OneServerIntents
    Bundles <- MCBundles
    Times = {1, 3}
    AccountAlias = "paper"
    StartingCash = 20
    MaxStoreFailures = 0
SPECIFICATION Spec
INVARIANTS
    TypeOK
    RepliesMatchRecord
    ReservationReleased
    AccountMatchesLedger
    EstimateCoversFill
    CashNotNegative
    LimitHonoured
    ChainIntact
PROPERTIES
    OnlyPaperMovesAccount
    AtomicRefinement
