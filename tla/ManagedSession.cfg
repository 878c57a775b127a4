SPECIFICATION FairSpec
CONSTANTS
  Roles = {"Active", "Passive"}
  RetryLimits = {0, 2}
  Token = {t1, t2, t3}
  Stoppers = {s1}
  InitialDelay = 2
  MaxDelay = 7
  Numerator = 3
  Denominator = 2
  NoSession = NoSession
INVARIANTS TypeOK OneLiveSession CallbacksAlternate BackoffBounded
PROPERTIES LostIsReplaced StopEndsWorker
CHECK_DEADLOCK FALSE
