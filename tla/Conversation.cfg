\* One instance, two messages of at most two lines before the reply, two faults, a history
\* of three rows; a conversation whose every message is handled or lost stops.
CONSTANTS
  w1 = w1
  m1 = m1
  m2 = m2
  Workers = {w1}
  Msgs = {m1, m2}
  NoMsg = NoMsg
  MAX_ATTEMPTS = 2
  HISTORY_LIMIT = 3
  SAY_BUDGET = 1
  MAX_LINES = 2
  MAX_SESSIONS = 2
  MAX_FAULTS = 2
SPECIFICATION FairSpec
INVARIANTS AnsweredOnce StampedWasAsked AskedUnlessOutrun OneFailureSurvived
PROPERTIES JobsAsPromised EventuallyHandled
CHECK_DEADLOCK FALSE
