\* Two workers, as many as status loops per period; a frame may be lost,
\* partial requests expire, bulk inserts fail.
SPECIFICATION FairSpec
CONSTANTS
  a = a
  b = b
  v6 = v6
  db1 = db1
  db2 = db2
  Databases = {db1, db2}
  NoDb = NoDb
  NoSession = NoSession
  threads = 2
  channelBufferSize = 1
  queueBatchSize = 2
  StatusPeriod = 2
  fastPacketParsing = TRUE
  onlySelect = TRUE
  Sessions <- OddSession
  SrcPort <- OddSrcPort
  PortNo <- OddPortNo
  IPv6 = {}
  HiddenSessions = {}
  HeaderLen <- OddHeader
  Traffic <- LossyTraffic
  InitialDb <- OddDb
  MaxDrops = 1
  MaxSnapshots = 1
  Expiry = TRUE
INVARIANTS QueueOrder Accounting
PROPERTIES CollectorRelays PartialsGoAway BatchesFlushed SendersUnblocked
