\* Two workers, three connections (one IPv6), channels of one packet.
SPECIFICATION Spec
CONSTANTS
  a = a
  b = b
  v6 = v6
  db1 = db1
  db2 = db2
  Databases = {db1, db2}
  NoDb = NoDb
  NoSession = NoSession
  threads = 2
  channelBufferSize = 1
  queueBatchSize = 2
  StatusPeriod = 2
  fastPacketParsing = FALSE
  onlySelect = FALSE
  Sessions <- AllSessions
  SrcPort <- Ports
  PortNo <- Routes
  IPv6 = {v6}
  HiddenSessions = {v6}
  HeaderLen <- Headers
  Traffic <- CaptureTraffic
  InitialDb <- CaptureDbs
  MaxDrops = 0
  MaxSnapshots = 1
  Expiry = FALSE
INVARIANTS TypeOK BatchInBounds ShardOwnership OnlyWholeRequests EveryRequestRelayed
