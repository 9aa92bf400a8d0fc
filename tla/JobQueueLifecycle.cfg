\* One instance, two jobs, one of a kind nobody handles; two faults.
CONSTANTS
  w1 = w1
  w2 = w2
  j1 = j1
  j2 = j2
  Workers = {w1}
  Jobs = {j1, j2}
  Unknown = {j2}
  NoJob = NoJob
  MAX_ATTEMPTS = 2
  BACKOFF <- Backoff2
  STALE_RUNNING = 2
  STALE_QUEUED = 1
  DELAYS = {0, 1}
  MAX_RUN = 1
  MAX_COPIES = 1
  MAX_FAULTS = 2
SPECIFICATION FairSpec
PROPERTIES ImplementsLifecycle
