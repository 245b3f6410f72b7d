SPECIFICATION Spec
CONSTANTS
    m = m
    yes = yes
    no = no
    Markets <- MCMarkets
    Outcomes <- MCOutcomes
    LedgerContents <- MCLedgerContents
    START_LEDGER = 0
    Lookback = 1
    PageSize = 2
    None = None
    MaxLedger = 3
    MaxPerLedger = 2
    MaxFaults = 2
INVARIANT NothingIsSkipped
CHECK_DEADLOCK FALSE
