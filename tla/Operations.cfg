CONSTANTS
  Worlds <- MCWorlds
  LagAlert = 1
  LagOutage = 3
  Targets <- MCTargets
  Rounds = {r1, r2}
  Window = 2
  MaxPerWindow = 4
  Webhooks = {"discord", "slack"}
  d1 = d1
  d2 = d2
  member = member
  outsider = outsider
  Disputes <- MCDisputes
  Roster <- MCRoster
  Voters <- MCVoters
  Quorum = 1
  Milestones = 1
  MaxMonitorFaults = 1
  Audits = {a1, a2}
  p1 = p1
  p2 = p2
  q = q
  Deployed <- MCDeployed
  Outside <- MCOutside
  MaxRuns = 3
  MaxFaults = 2
SPECIFICATION OperationsSpec
INVARIANT SentIsOpen
INVARIANT StoredSecretsWork
INVARIANT ServicesKeepWorking
PROPERTY OutageIsShown
PROPERTY DownIsAlerted
PROPERTY InactivityIsPaged
PROPERTY AuditIsRight
PROPERTY OrphansStay
CHECK_DEADLOCK FALSE
