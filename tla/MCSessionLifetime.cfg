SPECIFICATION Spec
CONSTANTS
  Ops = {o1, o2}
  Callers = {c1}
  Workers = {w1, w2}
  Owner = c1
  Limits = {2}
  Modes = {"detached"}
  Outcomes = {"queue"}
  Redrives = FALSE
  Nobody = Nobody
  Nothing = Nothing
INVARIANT QueueOutlivesWalk
CHECK_DEADLOCK FALSE
