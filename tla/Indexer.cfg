SPECIFICATION Spec
CONSTANTS
    m = m
    yes = yes
    no = no
    Markets <- MCMarkets
    Outcomes <- MCOutcomes
    LedgerContents <- MCLedgerContents
    START_LEDGER = 1
    Lookback = 1
    PageSize = 2
    None = None
    MaxLedger = 3
    MaxPerLedger = 2
    MaxFaults = 2
INVARIANTS NothingIsSkipped ReplayConverges LatestSubmissionAgrees
PROPERTY LedgersAreIndexed
CHECK_DEADLOCK FALSE
