\* Two instances, one job, two faults of any kind.
CONSTANTS
  w1 = w1
  w2 = w2
  j1 = j1
  j2 = j2
  Workers = {w1, w2}
  Jobs = {j1}
  Unknown = {}
  NoJob = NoJob
  MAX_ATTEMPTS = 3
  BACKOFF <- Backoff3
  STALE_RUNNING = 3
  STALE_QUEUED = 1
  DELAYS = {0, 1}
  MAX_RUN = 2
  MAX_COPIES = 2
  MAX_FAULTS = 2
SPECIFICATION FairSpec
INVARIANTS DistinctAttempts DeadOnlyWhenExhausted FaultFreeExclusive
PROPERTIES EventuallySettled
