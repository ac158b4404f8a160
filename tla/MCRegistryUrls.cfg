SPECIFICATION Spec
CONSTANTS
  Pools = {"p1"}
  Callers = {c1}
  Interval <- Ticks
  Targets <- Urls
  DefaultInterval = 1
  Private = {}
  Forever = 9
  None = None
INVARIANT LeaseIsWhereAsked
CHECK_DEADLOCK FALSE
