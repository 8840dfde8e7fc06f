SPECIFICATION FairSpec
CONSTANTS
    Conns <- MCConns
    Loads <- MCLoads
    Configurations <- MCConfigurations
    RateLimit = 2
    WindowSeconds = 2
    MaxTime = 3
INVARIANTS
    TypeOK
    RateBound
    RefusedWithoutEffect
PROPERTY EveryRequestAnswered
