\* A request for a session that is being closed as idle.
SPECIFICATION Spec
CONSTANTS
  a = a
  b = b
  t1 = t1
  t2 = t2
  db1 = db1
  db2 = db2
  tab1 = tab1
  tab2 = tab2
  Databases = {db1, db2}
  NoDb = NoDb
  Tables = {tab1, tab2}
  NoTable = NoTable
  Tailers = {t1}
  Sessions = {a}
  TailerOf <- OneTailer
  Stream <- BurstStream
  SESSION_QUEUE_SIZE_ABORT = 1
  MaxConnectRetries = 1
  targetDatabaseInitConnections = 1
  targetDatabaseDefaultDatabase = NoDb
  forceDefaultDatabase = FALSE
  UrlDb = NoDb
  TablesOf <- TargetTables
  tableDbMap <- TargetMap
  Outcomes = {"ok"}
  IdleExpiry = TRUE
  MapResizes = FALSE
  ConnectionsBreak = FALSE
  MaxPlayers = 2
INVARIANTS NothingLost
