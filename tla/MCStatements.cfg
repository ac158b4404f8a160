SPECIFICATION SceneSpec
CONSTANTS
  Orms = {o1, o2}
  Works = {w1, w2}
  Sqls = {"beat", "write"}
  HeartbeatSql = "beat"
  Stmts = {st1, st2, st3}
  Capacity = 1
  None = None
  NoStatement = NoStatement
  Kinds = {"odbc", "psqlodbc", "libpq", "oracle"}
  MaxRows = 3
  MaxText = 2
  MaxChunk = 2
  MaxCalls = 2
  DefaultParamset = 2
  MinStride = 1
  FetchKinds = {"libpq", "oracle", "odbc"}
  MaxResult = 3
  Arrays = {1, 2}
  SlotBytes = 3
  MaxReaders = 2
  LongInBlocks = FALSE
  Narrowing = FALSE
SYMMETRY Symmetric
INVARIANTS NothingUnasked LeasesDoNotMix CommitHolds  CacheKept
  BatchWhole CountIsTrue 
