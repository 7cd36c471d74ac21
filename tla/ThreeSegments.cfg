\* A request in three frames, none lost.
SPECIFICATION Spec
CONSTANTS
  a = a
  b = b
  v6 = v6
  db1 = db1
  db2 = db2
  Databases = {db1, db2}
  NoDb = NoDb
  NoSession = NoSession
  threads = 1
  channelBufferSize = 2
  queueBatchSize = 2
  StatusPeriod = 2
  fastPacketParsing = TRUE
  onlySelect = FALSE
  Sessions <- OneSession
  SrcPort <- OneSrcPort
  PortNo <- OnePortNo
  IPv6 = {}
  HiddenSessions = {}
  HeaderLen <- OneHeader
  Traffic <- ThreeParts
  InitialDb <- OneDb
  MaxDrops = 0
  MaxSnapshots = 0
  Expiry = FALSE
INVARIANT EveryRequestRelayed
