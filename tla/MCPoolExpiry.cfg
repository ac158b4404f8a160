SPECIFICATION Spec
CONSTANTS
  Threads = {t1, t2}
  Conns = {c1, c2, c3}
  Size = 2
  SizeMax = 3
  IdleLimitMet = TRUE
  None = None
SYMMETRY Symmetry
INVARIANTS SlotsAccounted CleanIdle NoForgottenConnection
PROPERTY HeartbeatKeepsCount
\* A pool whose mutex was left locked by an unlocked iteration may stop.
CHECK_DEADLOCK FALSE
