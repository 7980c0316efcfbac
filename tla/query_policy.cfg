SPECIFICATION FairQuerySpec
CONSTANTS
  Subscriber = {s, t}
  MaxAttempts = 3
  Retried = {"transient"}
CHECK_DEADLOCK FALSE
INVARIANTS UnmarkedOnce CallsBounded HonestOutcome
PROPERTIES EveryoneHears
