\* One instance, one request, a carousel of two, one fault anywhere.
CONSTANTS
  w1 = w1
  w2 = w2
  r1 = r1
  r2 = r2
  p1 = p1
  Workers = {w1}
  Requests = {r1}
  NoRequest = NoRequest
  Slides = {1, 2}
  Payments = {}
  START = 2
  PACK = 1
  MAX_ATTEMPTS = 2
  STALE_RUNNING = 2
  STUCK_AFTER = 3
  MAX_RUN = 1
  MAX_FAULTS = 1
  FAULTS_AT <- Steps
SPECIFICATION Spec
INVARIANTS PaidForWhatShipped
