SPECIFICATION FairSpec
CONSTANTS
  Threads = {t1, t2, t3}
  Conns = {c1, c2}
  Size = 1
  SizeMax = 3
  IdleLimitMet = FALSE
  None = None
INVARIANTS OneOwner NoSleepBesideIdle
PROPERTY AcquireEnds
