CONSTANTS
  Markets = {"m1", "m2"}
  Polls = {q1, q2}
  MaxVersion = 1
  MaxHttpErrors = 1
  MaxBets = 3
  SEND_RETRIES = 2
  None = None
SPECIFICATION FrontSpec
INVARIANT ShownIsThisMarket
INVARIANT MessagesAreTrue
PROPERTY SettledForGood
PROPERTY PendingIsResolved
PROPERTY ViewCatchesUp
PROPERTY LiveIsLive
CHECK_DEADLOCK FALSE
