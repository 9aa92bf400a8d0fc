\* One instance, four days with a festival on the last, two sessions, two messages that
\* may be taken in at once, two faults; the last day ends it.
CONSTANTS
  w1 = w1
  w2 = w2
  h1 = h1
  h2 = h2
  e1 = e1
  Workers = {w1}
  Hooks = {h1, h2}
  Events = {}
  NoEvent = NoEvent
  SNOOZE = 1
  IDEA_TTL = 2
  MAX_DAY = 3
  MAX_SESSIONS = 2
  MAX_MSGS = 2
  MAX_FAULTS = 2
  FESTIVAL = 3
  LEAD = 2
  TEMPLATE = TRUE
SPECIFICATION Spec
SYMMETRY Symmetry
INVARIANTS NudgedOnce IdeasKept QuietAfterNotToday
CHECK_DEADLOCK FALSE
