SPECIFICATION AsyncSpec
CONSTANTS
  Works = {x1, x2, x3}
  Clients = {c1, c2}
  MaxThreads = 2
  Hardware = 1
  None = None
  Ops = {o1, o2}
  Callers = {c1, c2}
  Workers = {w1, w2}
  Owner = c1
  Limits = {2}
  Modes = {"blocked", "detached", "awaited"}
  Outcomes = {"queue", "inline", "refuse"}
  Redrives = FALSE
  Nobody = Nobody
  Nothing = Nothing
  Users = {u1}
  Handles = {h1}
  Writes = {x1, x2}
  MaxTurns = 2
INVARIANTS PoolSound OneOnConnection CommitNotUndone NothingLeftOpen
PROPERTIES PoolServes SessionServes EndsComeBack
CHECK_DEADLOCK FALSE
