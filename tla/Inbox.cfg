\* Two instances, one Instagram event, three messages of the owner of which two may be
\* taken in at once, one fault, one day; an inbox whose every draft is settled stops.
CONSTANTS
  w1 = w1
  w2 = w2
  h1 = h1
  h2 = h2
  e1 = e1
  Workers = {w1, w2}
  Hooks = {h1, h2}
  Events = {e1}
  NoEvent = NoEvent
  SNOOZE = 1
  IDEA_TTL = 2
  MAX_DAY = 0
  MAX_SESSIONS = 1
  MAX_MSGS = 3
  MAX_FAULTS = 1
  FESTIVAL = 0
  LEAD = 2
  TEMPLATE = TRUE
SPECIFICATION Spec
SYMMETRY Symmetry
INVARIANTS RepliedOnce DraftShownIsPosted HijackOnlyByOvertaking
CHECK_DEADLOCK FALSE
