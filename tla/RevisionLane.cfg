\* One instance, three briefs of two slides, no fault; Instagram is not called.
CONSTANTS
  w1 = w1
  w2 = w2
  s1 = s1
  s2 = s2
  Workers = {w1}
  Slides = {s1, s2}
  Photos = {s1}
  TTL = 2
  MAX_BRIEFS = 3
  MAX_DAY = 2
  MAX_FAULTS = 0
  MAX_CALLS = 0
SPECIFICATION PubSpec
INVARIANT LaneIsThePicture
CHECK_DEADLOCK FALSE
