CONSTANTS
  MaxRows = 4
  MaxKey = 2
  MaxTime = 3
  MsLen = 2
  Limit = 1
  Readers = {r1, r2}
  Bets = {b1}
  TTL = 3
  NegTTL = 1
  MaxDelay = 1
SPECIFICATION ReadSpec
INVARIANT WalkIsComplete
INVARIANT StaleBound
INVARIANT BetPurges
