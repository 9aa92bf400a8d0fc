\* Two instances, two requests of one attempt each, a carousel of two; one fault,
\* outside marking and refunding.
CONSTANTS
  w1 = w1
  w2 = w2
  r1 = r1
  r2 = r2
  p1 = p1
  Workers = {w1, w2}
  Requests = {r1, r2}
  NoRequest = NoRequest
  Slides = {1, 2}
  Payments = {p1}
  START = 3
  PACK = 1
  MAX_ATTEMPTS = 1
  STALE_RUNNING = 1
  STUCK_AFTER = 2
  MAX_RUN = 1
  MAX_FAULTS = 1
  FAULTS_AT <- OutsideRefund
SYMMETRY WorkerRequestSymmetry
SPECIFICATION Spec
INVARIANTS RefundsWithinCharge PaidForWhatShipped
PROPERTIES OutcomeStands ImplementsAccount
