\* Each part on its own: two instances, one fault or two of each kind, the smallest inputs
\* in which its cases happen; a part that has done its work stops.
CONSTANTS
  w1 = w1
  w2 = w2
  c1 = c1
  r1 = r1
  p1 = p1
  p2 = p2
  Workers = {w1, w2}
  FIRST <- MonthStarts
  FESTIVALS <- Calendar
  REQUESTS <- Asks
  PLAN_DAYS = 8
  MAX_TURNS = 3
  Callers = {c1}
  Users = {"shop"}
  PARTS = 2
  RESYNC = 2
  TRIES = 2
  MAX_NOW = 5
  MAX_TOKENS = 2
  MAX_FAULTS = 1
  MAX_POSTS = 1
  PROVIDERS <- Vendors
  SUBMIT_ATTEMPTS = 3
  GET_ATTEMPTS = 3
  RETRY_AFTER = 3
  MAX_BLIPS = 4
  Staff = {w1, w2}
  RAW = {r1}
  POOR = {}
  POSTS = {p1, p2}
  STYLE <- Styles
  LOOKS <- Looks
  LAYOUTS <- Layouts
  MAX_RUNS = 2
  MAX_LAPSES = 1
  Instances = {w1, w2}
  MESSAGES <- Sends
  MAX_LOSSES = 1
  Renders = {w1, w2}
  NoRender = NoRender
  LEGIBILITY_ROUNDS = 3
  FULL = 2
  SLACK = 1
  MAX_CRASHES = 2
  MAX_HICCUPS = 1
  Readers = {w1, w2}
  IgPosts = {p1}
  MAX_MEDIA = 1
  WINDOW_DAYS = 3
  YOUNG_DAYS = 1
  YOUNG_EVERY = 1
  SETTLING_DAYS = 2
  SETTLING_EVERY = 2
  OLD_EVERY = 3
  MAX_CLOCK = 3
  Photos = {p1, p2}
  NoPhoto = NoPhoto
  SLIDES = 2
  STARTS <- Starts
  FREE_VARIANTS = 2
  PAID_PICTURES = 1
  STARTED <- StartedLayouts
  MEASURES <- FrameMeasures
  OBJECTIONS <- Objections
SPECIFICATION Spec
SYMMETRY Symmetry
INVARIANTS PlansAsPromised NumbersKept FaultsSurvived ImportsComplete MediaAsPromised SlidesAsPromised ComputedAsPromised
PROPERTIES DroppedOnlyWhenDead LogoAsAsked
CHECK_DEADLOCK FALSE
