SPECIFICATION Spec
CONSTANTS
  Orms = {o1, o2}
  Works = {w1, w2}
  Sqls = {"beat", "write"}
  HeartbeatSql = "beat"
  Stmts = {st1, st2, st3}
  Capacity = 1
  None = None
SYMMETRY Symmetric
INVARIANT ManualHoldsBack
