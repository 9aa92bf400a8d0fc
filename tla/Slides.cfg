\* Two generated slides, two frames a vendor can make, room for two or three pictures in
\* the budget; a request that is answered stops.
CONSTANTS
  p = p
  q = q
  N = 2
  Made = {1, 2}
  Looks = {p, q}
  PRICE = 3
  LOOK = 1
  BUDGET = 8
  ATTEMPTS = 2
  INSPECT_ATTEMPTS = 1
  PAID_RETRIES = 1
  CONCURRENCY = 1
SPECIFICATION FairSpec
INVARIANTS PicturesWithinCap RowTellsTheCost OnlyPassedFramesShip SentOnceInOrder
PROPERTIES EventuallyAnswered
CHECK_DEADLOCK FALSE
