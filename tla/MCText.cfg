SPECIFICATION SceneSpec
CONSTANTS
  Fields = {"a", "b"}
  MaxWheres = 2
  MaxCalls = 3
  MaxRange = 1
  RawClauses = FALSE
  Chars = {"?", "'", "\"", "-", "/", "*", "$", "E", "q", "\\", "a", "SELECT"}
  MaxPieces = 2
  MaxBody = 2
  Orms = {o1, o2}
  Mappers = {o1}
  Policies = {Unset, "keep"}
  Unset = Unset
  Worlds <- MCWorlds
  Namespaces <- MCNamespaces
  MaxLines = 4
  Lines <- MCLines
  Catalogs <- MCCatalogs
  Requests <- MCRequests
  Statements <- MCScripts
  MaxStatements = 3
  Loaders = {t1, t2, t3}
  Spellings = {"bare", "ORACLE", "oracle"}
  SchemeOf <- MCSchemeOf
  Builtin = {"odbc"}
  Nowhere = Nowhere
  Digits = {0, 1, 2, 5, 7, 8}
  MaxLength = 4
  max_digits = 3
  Bits = 8
  Others <- MCOthers
INVARIANTS BuiltAsChained TextsAsMeant NamesHold  ReadAsDeclared LoaderSound
  
PROPERTIES ResolvesTogether StepsForward
CHECK_DEADLOCK FALSE
