SPECIFICATION FairSpec
CONSTANTS
  Pools = {"p1", "p2", "p3"}
  Callers = {c1, c2}
  Interval <- Ticks
  Targets <- Strings
  DefaultInterval = 1
  Private = {"p2"}
  Forever = 9
  None = None
INVARIANTS SleepsInTime  SharedByAll LeasesStand
PROPERTIES CallsReturn 
CHECK_DEADLOCK FALSE
