\* Two instances, two slides of which one may be a photograph, two briefs, pictures that
\* live one day, one fault, two calls of Instagram.
CONSTANTS
  w1 = w1
  w2 = w2
  s1 = s1
  s2 = s2
  Workers = {w1, w2}
  Slides = {s1, s2}
  Photos = {s1}
  TTL = 1
  MAX_BRIEFS = 2
  MAX_DAY = 1
  MAX_FAULTS = 1
  MAX_CALLS = 2
SPECIFICATION PubSpec
SYMMETRY Symmetry
INVARIANTS PostedOnce PicturesKept
PROPERTIES PostsWhatWasTapped OutcomesKept
CHECK_DEADLOCK FALSE
