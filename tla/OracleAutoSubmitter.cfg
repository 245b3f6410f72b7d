SPECIFICATION Spec
CONSTANTS
    d1 = d1
    d2 = d2
    crypto = crypto
    sports = sports
    politics = politics
    binance = binance
    oddsapi = oddsapi
    coinmarketcap = coinmarketcap
    Daemons <- MCDaemons
    Markets <- MCMarkets
    EndsAt <- MCEndsAt
    Adapters <- MCAdapters
    CategoryAdapters <- MCCategoryAdapters
    Honest <- MCHonest
    Truth <- MCTruth
    None = None
    MaxFaults = 2
INVARIANTS ClaimIsExclusive NoWrongOutcome
PROPERTIES ResolutionIsImplemented ExpiredIsSettledOrStuck
