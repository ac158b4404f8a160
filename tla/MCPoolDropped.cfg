SPECIFICATION Spec
CONSTANTS
  Threads = {t1}
  Conns = {c1}
  Size = 1
  SizeMax = 3
  IdleLimitMet = TRUE
  None = None
INVARIANT DroppedSlotIsFree
CHECK_DEADLOCK FALSE
