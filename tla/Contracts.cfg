SPECIFICATION ContractSpec
CONSTANTS
    u1 = u1
    u2 = u2
    u3 = u3
    c1 = c1
    c2 = c2
    Users <- MCUsers
    Admins <- MCAdmins
    MarketAddress = market
    RegistryAddress = registry
    None = None
    MaxAmount = 3
    OverflowChecks = TRUE
    MinBalance = 0
    Cooldown = 1
    WelcomePoints = 5
    WelcomeTokens = 1
    Minters <- MCMinters
    BetAmounts <- MCBetAmounts
    XlmBalances <- MCXlmBalances
    LegacyRecords <- MCLegacyRecords
    MaxTime = 1
    Accounts <- MCAccounts
    ContractIds <- MCContractIds
    NoEntry = NoEntry
    MAX_INDEXERS = 2
    MAX_COUNCIL_MEMBERS = 3
    MaxEvents = 2
    MaxPool = 20
    Bps = 5
    Stakes = {1, 6}
    Tolerances = {0, 20, 50}
INVARIANTS SupplyIsBacked MarketSolvent BonusIsEarnedOnce
INVARIANTS RefusedForAReason CouncilInvariant ListMatchesRegistry
PROPERTIES MarketOnlyAdvances LateRegistrationLocksOut RevocationIsComplete
