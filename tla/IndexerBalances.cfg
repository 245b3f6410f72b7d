CONSTANTS
  Logs <- MCLogs
  Handlers <- MCHandlers
  MaxFaults = 2
  Letters = {1, 2}
  Batches = {b1, b2}
  MaxRetries = 2
  MaxLetterFaults = 1
  Requests = {r1, r2}
  Nonces = {n1}
  Bundles = {e1, e2}
  MaxAge = 1
  MaxDrift = 1
  MaxNow = 2
  Callers = {c1, c2}
  MaxProviderRetries = 2
  Capacity = 2
  MaxRetryAfter = 2
  MaxBackoff = 1
  MaxHeight = 4
  MaxForks = 2
  ReorgWindow = 2
  MaxLoopFaults = 1
SPECIFICATION Spec
INVARIANT ClaimsAreCredited
CHECK_DEADLOCK FALSE
