SPECIFICATION Spec
CONSTANTS
  Ops = {o1, o2, o3}
  Callers = {c1, c2}
  Workers = {w1, w2}
  Owner = c1
  Limits = {3}
  Modes = {"blocked", "awaited"}
  Outcomes = {"queue", "inline", "refuse", "nopool"}
  Redrives = TRUE
  Nobody = Nobody
  Nothing = Nothing
SYMMETRY Symmetry
INVARIANTS OneAtATime NobodyForgotten
PROPERTY FifoSpec
CHECK_DEADLOCK FALSE
