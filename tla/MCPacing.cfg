SPECIFICATION FairSpec
CONSTANTS
  Interval = 2
  PollInterval = 1
  Backoff <- MCBackoff
  MaxLevel = 3
  ResetAfter = 3
  RetryAfter <- MCRetryAfter
  ServerDelays <- MCServerDelays
  Window = 4
INVARIANTS
  BackoffRemembered
  SubmittedOnce
PROPERTIES
  QuietWhenAsked
  VetoesHold
  KeepsAsking
  StopEnds
CHECK_DEADLOCK FALSE
