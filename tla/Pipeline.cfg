\* One collection that overflows or is dropped; two sessions on one tailer.
SPECIFICATION PipelineSpec
CONSTANTS
  a = a
  b = b
  t1 = t1
  db1 = db1
  db2 = db2
  db3 = db3
  tab1 = tab1
  tab2 = tab2
  Databases = {db1, db2, db3}
  NoDb = NoDb
  Tables = {tab1, tab2}
  NoTable = NoTable
  Tailers = {t1}
  tailer = t1
  Sessions = {a, b}
  TailerOf <- SessionTailer
  Stream <- Documents
  SESSION_QUEUE_SIZE_ABORT = 9
  MaxConnectRetries = 0
  targetDatabaseInitConnections = 1
  targetDatabaseDefaultDatabase = NoDb
  forceDefaultDatabase = FALSE
  UrlDb = NoDb
  TablesOf <- SharedTables
  tableDbMap <- SharedMap
  Outcomes = {"ok", "slow", "columnnotfound", "duplicate", "deadlock", "locktimeout", "other"}
  IdleExpiry = FALSE
  MapResizes = FALSE
  ConnectionsBreak = TRUE
  MaxPlayers = 2
  CappedSize = 3
  MaxRetries = 0
  MaxDocs = 7
  MaxRestarts = 1
INVARIANTS DatabaseKnown DocumentsAccounted
PROPERTIES GuessFindsTable PipelineRelays
