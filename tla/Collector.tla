----------------------------- MODULE Collector -----------------------------
(***************************************************************************)
(* MRTECollector (MRTECollector/MRTECollector.go): one capture loop (main) *)
(* routes frames by source port to `threads` worker goroutines             *)
(* (sendUserPacket), each of which reassembles MySQL requests, batches     *)
(* them and bulk-inserts them into its own MongoDB collection, while the   *)
(* status goroutine (printProcessStatus) sweeps expired partial requests   *)
(* out of the workers' maps and feeds every connection's default database  *)
(* into the workers' channels.                                             *)
(*                                                                         *)
(* A frame is named by its session s and its position n in Traffic[s], the *)
(* frames of the session in the order they pass the interface (a TCP       *)
(* retransmission is a frame like any other).                              *)
(***************************************************************************)
EXTENDS MysqlProtocol, Sequences

CONSTANTS
    threads,             \* -threads: workers, channels, maps, collections
    channelBufferSize,   \* capacity of a worker's channel (1000)
    queueBatchSize,      \* slots of a worker's batch (30)
    StatusPeriod,        \* status loops between two snapshots (20)
    fastPacketParsing,   \* -fastparsing
    onlySelect,          \* -onlyselect
    Sessions,            \* the "ip:port" keys of the client connections
    SrcPort,             \* the client's port, as the process list shows it
    PortNo,              \* what GetPortNo reads in the session's frames
    IPv6,                \* sessions over IPv6: PortNo is not SrcPort there
    HiddenSessions,      \* sessions the process list query does not return
    HeaderLen,           \* length of the frame's headers, per session
    Traffic,             \* the frames of each session, in order
    InitialDb,           \* each connection's default database at startup
    MaxDrops,            \* bound: frames the capture library loses
    MaxSnapshots,        \* bound: successful process list queries
    Expiry,              \* whether packetExpireTimeoutSeconds ever elapses
    NoSession            \* not a session

Workers == 0 .. threads - 1
Frames(s) == 1 .. Len(Traffic[s])

ASSUME ThreadsAssumption == threads \in Nat \ {0}
ASSUME SizesAssumption == /\ channelBufferSize \in Nat \ {0}
                          /\ queueBatchSize \in Nat \ {0}
                          /\ StatusPeriod \in Nat \ {0}
ASSUME FlagsAssumption == /\ fastPacketParsing \in BOOLEAN
                          /\ onlySelect \in BOOLEAN
                          /\ Expiry \in BOOLEAN
ASSUME SessionsAssumption == /\ PortNo \in [Sessions -> Nat]
                             /\ SrcPort \in [Sessions -> Nat]
                             /\ \A s \in Sessions \ IPv6 : PortNo[s] = SrcPort[s]
                             /\ IPv6 \subseteq HiddenSessions
                             /\ HeaderLen \in [Sessions -> Nat]
                             /\ NoSession \notin Sessions
ASSUME TrafficAssumption == /\ \A s \in Sessions : Traffic[s] \in Seq(Segment)
                            /\ InitialDb \in [Sessions -> Databases \union {NoDb}]
                            /\ NoDb \notin Databases
ASSUME BoundsAssumption == MaxDrops \in Nat /\ MaxSnapshots \in Nat

VARIABLES
    proc,          \* "running", or how the process ended
    sent,          \* sent[s]: frames of s that have passed the interface
    sourceDb,      \* the source server's default database of each session
    drops,         \* frames lost before main saw them
    pending,       \* the packet main is blocked on in assembleUserPacket
    mysqlPacketChannels, mysqlRequestMaps,
    pc,            \* pc[w]: "select", or at the flush check with forceFlush
                   \* unset ("received") or set ("ticked")
    batches,       \* batches[w][1..batched]
    assembledPackets, expiredPackets, validPackets, mqErrorCounters,
    mongo,         \* mongo[w]: the documents of collection w, in order
    status,        \* where the status goroutine is
    loopCounter,
    sweepKeys,     \* keys flushExpiredRequest still has to visit
    sweepKey,      \* the key it found expired and is about to delete
    connections,   \* the rest of sendConnectionDefaultDatabase's list
    snapshots,     \* successful process list queries so far
    relayed,       \* history: every document put in a batch
    infos          \* history: infos[w], artificial documents put in a batch

captureVars == <<sent, sourceDb, drops, pending>>
counters    == <<assembledPackets, expiredPackets, validPackets,
                 mqErrorCounters, infos>>
workerVars  == <<pc, batches, counters, mongo, relayed>>
statusVars  == <<status, loopCounter, sweepKeys, sweepKey, connections,
                 snapshots>>
vars == <<proc, captureVars, mysqlPacketChannels, mysqlRequestMaps,
          workerVars, statusVars>>

-----------------------------------------------------------------------------
(* Packets in the channels: a captured frame, or an artificial request     *)
(* that says which database session s uses (n = 0).                        *)
Packet == [IsParsed: BOOLEAN, s: Sessions, n: Nat,
           db: Databases \union {NoDb}]
NoPacket == [IsParsed |-> FALSE, s |-> NoSession, n |-> 0, db |-> NoDb]
RawPacket(s, n) == [IsParsed |-> FALSE, s |-> s, n |-> n, db |-> NoDb]
ParsedPacket(s, db) == [IsParsed |-> TRUE, s |-> s, n |-> 0, db |-> db]

(* A stored partial request: the frame it holds, and whether its age is    *)
(* beyond packetExpireTimeoutSeconds.                                      *)
Entry == [n: Nat, old: BOOLEAN]
NoEntry == [n |-> 0, old |-> FALSE]

(* A document of the queue: session, command, the frames its statement was *)
(* built from, the database it selects.                                    *)
Document == [s: Sessions, c: Commands, frames: Seq(Nat),
             db: Databases \union {NoDb}]

(* The worker index, as assembleUserPacket computes it from a frame and    *)
(* sendConnectionDefaultDatabase from the process list.  An operator whose *)
(* name ends in Bug is a mutant: it shows that a property can fail.        *)
WorkerOf(s) == PortNo[s] % threads
ConnectionWorkerBug(s) == (SrcPort[s] + 1) % threads
ConnectionWorker(s) == SrcPort[s] % threads

(* A send on the channel of w blocks while its buffer is full.             *)
Room(w) == Len(mysqlPacketChannels[w]) < channelBufferSize

(* The shard that the status goroutine sweeps in this loop.                *)
SweptShard == loopCounter % threads
Sweeping(w) == status = "sweep" /\ SweptShard = w

-----------------------------------------------------------------------------
Init ==
    /\ proc = "running"
    /\ sent = [s \in Sessions |-> 0]
    /\ sourceDb = InitialDb
    /\ drops = 0
    /\ pending = NoPacket
    /\ mysqlPacketChannels = [w \in Workers |-> <<>>]
    /\ mysqlRequestMaps = [w \in Workers |-> [s \in Sessions |-> NoEntry]]
    /\ pc = [w \in Workers |-> "select"]
    /\ batches = [w \in Workers |-> <<>>]
    /\ assembledPackets = [w \in Workers |-> 0]
    /\ expiredPackets = [w \in Workers |-> 0]
    /\ validPackets = [w \in Workers |-> 0]
    /\ mqErrorCounters = [w \in Workers |-> 0]
    /\ infos = [w \in Workers |-> 0]
    /\ mongo = [w \in Workers |-> <<>>]
    /\ status = "top"
    /\ loopCounter = 0
    /\ sweepKeys = {}
    /\ sweepKey = NoSession
    /\ connections = [s \in Sessions |-> NoDb]
    /\ snapshots = 0
    /\ relayed = {}

-----------------------------------------------------------------------------
(* The capture loop.                                                       *)

(* fast parsing drops frames of at most 0x42 bytes unread.                 *)
FilteredOut(s, n) ==
    fastPacketParsing /\ HeaderLen[s] + Traffic[s][n].len <= 66

Transmit(s) ==
    /\ sent[s] < Len(Traffic[s])
    /\ sent' = [sent EXCEPT ![s] = @ + 1]
    /\ sourceDb' = [sourceDb EXCEPT ![s] =
                       DatabaseAfter(Traffic[s][sent[s] + 1], @)]

(* One round of main's loop: the next frame, filtered or handed over.      *)
CaptureNext(s) ==
    /\ proc = "running"
    /\ pending = NoPacket
    /\ Transmit(s)
    /\ pending' = IF FilteredOut(s, sent[s] + 1)
                  THEN NoPacket ELSE RawPacket(s, sent[s] + 1)
    /\ UNCHANGED <<proc, drops, mysqlPacketChannels, mysqlRequestMaps,
                   workerVars, statusVars>>

(* The channel send of assembleUserPacket.                                 *)
AssembleUserPacket ==
    /\ proc = "running"
    /\ pending # NoPacket
    /\ LET w == WorkerOf(pending.s) IN
       /\ Room(w)
       /\ mysqlPacketChannels' =
             [mysqlPacketChannels EXCEPT ![w] = Append(@, pending)]
    /\ pending' = NoPacket
    /\ UNCHANGED <<proc, sent, sourceDb, drops, mysqlRequestMaps,
                   workerVars, statusVars>>

(* External: the kernel or libpcap loses a frame (PacketDropped).          *)
PacketDropped(s) ==
    /\ proc = "running"
    /\ drops < MaxDrops
    /\ Transmit(s)
    /\ drops' = drops + 1
    /\ UNCHANGED <<proc, pending, mysqlPacketChannels, mysqlRequestMaps,
                   workerVars, statusVars>>

(* NextEx fails: main returns and the process ends with it.                *)
CaptureEnds ==
    /\ proc = "running"
    /\ pending = NoPacket
    /\ proc' = "done"
    /\ UNCHANGED <<captureVars, mysqlPacketChannels, mysqlRequestMaps,
                   workerVars, statusVars>>

-----------------------------------------------------------------------------
(* sendUserPacket(w): one case of its select per action.                   *)

FrameOf(s, n) == Traffic[s][n]

(* The packet at the head of w's channel is taken; the flush check is next.*)
Receive(w) ==
    /\ proc = "running"
    /\ pc[w] = "select"
    /\ mysqlPacketChannels[w] # <<>>
    /\ mysqlPacketChannels' = [mysqlPacketChannels EXCEPT ![w] = Tail(@)]
    /\ pc' = [pc EXCEPT ![w] = "received"]
    /\ UNCHANGED <<captureVars, mongo, statusVars>>

Received(w) == Head(mysqlPacketChannels[w])

(* The fast parser knows IPv4 only.                                        *)
Readable(s) == ~(fastPacketParsing /\ s \in IPv6)

(* Parsing fails or there is no data.                                      *)
Ignored(p) == ~Readable(p.s) \/ FrameOf(p.s, p.n).blank

Enqueue(w, doc) ==
    /\ batches' = [batches EXCEPT ![w] = Append(@, doc)]
    /\ relayed' = relayed \union {doc}

ReceiveParsed(w) ==
    /\ Receive(w)
    /\ Received(w).IsParsed
    /\ Enqueue(w, [s |-> Received(w).s, c |-> COM_INIT_DB, frames |-> <<>>,
                   db |-> Received(w).db])
    /\ infos' = [infos EXCEPT ![w] = @ + 1]
    /\ UNCHANGED <<proc, mysqlRequestMaps, assembledPackets, expiredPackets,
                   validPackets, mqErrorCounters>>

ReceiveIgnored(w) ==
    /\ Receive(w)
    /\ ~Received(w).IsParsed
    /\ Ignored(Received(w))
    /\ UNCHANGED <<proc, mysqlRequestMaps, batches, counters, relayed>>

(* Uint32(mp.Data) of one to three bytes panics: the process dies.         *)
ReceiveShort(w) ==
    /\ Receive(w)
    /\ ~Received(w).IsParsed
    /\ ~Ignored(Received(w))
    /\ FrameOf(Received(w).s, Received(w).n).len < 4
    /\ proc' = "panic"
    /\ UNCHANGED <<mysqlRequestMaps, batches, counters, relayed>>

(* The frame reaches the reassembly code.                                  *)
ReceiveData(w) ==
    /\ Receive(w)
    /\ ~Received(w).IsParsed
    /\ ~Ignored(Received(w))
    /\ FrameOf(Received(w).s, Received(w).n).len >= 4

(* The tests of lines 180 and 189 that discard a stored partial request:   *)
(* the age of the entry, and the length of the stored data against the     *)
(* size announced by the frame just received.  Each counts once.           *)
TooOldBug(e) == e # NoEntry /\ ~e.old
TooOld(e) == e # NoEntry /\ e.old
SizeMatchesBug(s, e, n) ==
    e # NoEntry /\ FrameOf(s, e.n).len <= FrameOf(s, n).size
SizeMatches(s, e, n) == e # NoEntry /\ FrameOf(s, e.n).len = FrameOf(s, n).size
Discards(s, e, n) == (IF TooOld(e) THEN 1 ELSE 0)
                     + (IF SizeMatches(s, e, n) THEN 1 ELSE 0)

(* ParsePacket on complete data: an accepted request is counted and put in *)
(* the batch, any other is dropped.                                        *)
Relay(w, s, frames, len) ==
    LET first == FrameOf(s, Head(frames))
        c == ParsePacket(first, len, onlySelect)
    IN  IF c # ParseError
        THEN /\ validPackets' = [validPackets EXCEPT ![w] = @ + 1]
             /\ Enqueue(w, [s |-> s, c |-> c, frames |-> frames,
                            db |-> first.db])
        ELSE UNCHANGED <<validPackets, batches, relayed>>

(* delete(mysqlRequestMap, sessionKey), once the request is complete.      *)
ForgetBug(w, s) == UNCHANGED mysqlRequestMaps
Forget(w, s) ==
    mysqlRequestMaps' = [mysqlRequestMaps EXCEPT ![w][s] = NoEntry]

(* Lines 196-222: a live partial request is there.  When the two together  *)
(* are still incomplete, p, a copy of the map's value, is all that grows.  *)
ReceiveAndAssemble(w) ==
    LET p == Received(w)
        e == mysqlRequestMaps[w][p.s]
        first == FrameOf(p.s, e.n)
        len == first.len + FrameOf(p.s, p.n).len
    IN  /\ ReceiveData(w)
        /\ e # NoEntry /\ Discards(p.s, e, p.n) = 0
        /\ IF len >= first.size
           THEN /\ Relay(w, p.s, <<e.n, p.n>>, len)
                /\ Forget(w, p.s)
                /\ UNCHANGED assembledPackets
           ELSE /\ assembledPackets' = [assembledPackets EXCEPT ![w] = @ + 1]
                /\ UNCHANGED <<mysqlRequestMaps, validPackets, batches,
                               relayed>>
        /\ UNCHANGED <<proc, expiredPackets, mqErrorCounters, infos>>

(* Lines 223-249: no partial request, or the stored one was just discarded.*)
ReceiveAlone(w) ==
    LET p == Received(w)
        e == mysqlRequestMaps[w][p.s]
        f == FrameOf(p.s, p.n)
        discarded == Discards(p.s, e, p.n)
    IN  /\ ReceiveData(w)
        /\ e = NoEntry \/ discarded > 0
        /\ expiredPackets' = [expiredPackets EXCEPT ![w] = @ + discarded]
        /\ IF f.len >= f.size
           THEN /\ Relay(w, p.s, <<p.n>>, f.len)
                /\ Forget(w, p.s)
                /\ UNCHANGED assembledPackets
           ELSE /\ assembledPackets' = [assembledPackets EXCEPT ![w] = @ + 1]
                /\ mysqlRequestMaps' = [mysqlRequestMaps EXCEPT ![w][p.s] =
                                           [n |-> p.n, old |-> FALSE]]
                /\ UNCHANGED <<validPackets, batches, relayed>>
        /\ UNCHANGED <<proc, mqErrorCounters, infos>>

(* The runtime notices that w and the sweep use one map: fatal error.      *)
MapRace(w) ==
    /\ ReceiveData(w)
    /\ Sweeping(w)
    /\ proc' = "race"
    /\ UNCHANGED <<mysqlRequestMaps, batches, counters, relayed>>

(* The 5 ms ticker's case.  With an empty batch forceFlush is set and      *)
(* reset again with no other effect: a stuttering step.                    *)
Tick(w) ==
    /\ proc = "running"
    /\ pc[w] = "select"
    /\ batches[w] # <<>>
    /\ pc' = [pc EXCEPT ![w] = "ticked"]
    /\ UNCHANGED <<proc, captureVars, mysqlPacketChannels, mysqlRequestMaps,
                   batches, counters, mongo, relayed, statusVars>>

FlushDueBug(w) ==
    pc[w] = "ticked" \/ (pc[w] = "received" /\ Len(batches[w]) > queueBatchSize)
NoTickerBug(w) == pc[w] = "received" /\ Len(batches[w]) >= queueBatchSize
FlushDue(w) ==
    pc[w] = "ticked" \/ (pc[w] = "received" /\ Len(batches[w]) >= queueBatchSize)

(* Neither a full batch nor a tick: back to the select.                    *)
KeepBatch(w) ==
    /\ proc = "running"
    /\ pc[w] # "select"
    /\ ~FlushDue(w)
    /\ pc' = [pc EXCEPT ![w] = "select"]
    /\ UNCHANGED <<proc, captureVars, mysqlPacketChannels, mysqlRequestMaps,
                   batches, counters, mongo, relayed, statusVars>>

(* A failed bulk insert counts as many errors as the batch has requests.   *)
CountErrorsBug(w) == UNCHANGED mqErrorCounters
CountErrors(w) ==
    mqErrorCounters' = [mqErrorCounters EXCEPT ![w] = @ + Len(batches[w])]

(* InsertBulkPackets: an ordered bulk insert; when it fails, k documents   *)
(* were stored, the function reports 0 and nothing is tried again.         *)
Flush(w) ==
    /\ proc = "running"
    /\ FlushDue(w)
    /\ \/ /\ mongo' = [mongo EXCEPT ![w] = @ \o batches[w]]
          /\ UNCHANGED mqErrorCounters
       \/ /\ \E k \in 0 .. Len(batches[w]) :
                mongo' = [mongo EXCEPT ![w] = @ \o SubSeq(batches[w], 1, k)]
          /\ CountErrors(w)
    /\ batches' = [batches EXCEPT ![w] = <<>>]
    /\ pc' = [pc EXCEPT ![w] = "select"]
    /\ UNCHANGED <<proc, captureVars, mysqlPacketChannels, mysqlRequestMaps,
                   assembledPackets, expiredPackets, validPackets, relayed,
                   infos, statusVars>>

(* packetExpireTimeoutSeconds pass for a stored partial request.           *)
EntryAges(w, s) ==
    /\ proc = "running"
    /\ Expiry
    /\ mysqlRequestMaps[w][s] # NoEntry
    /\ ~mysqlRequestMaps[w][s].old
    /\ mysqlRequestMaps' = [mysqlRequestMaps EXCEPT ![w][s] =
                               [n |-> mysqlRequestMaps[w][s].n, old |-> TRUE]]
    /\ UNCHANGED <<proc, captureVars, mysqlPacketChannels, workerVars,
                   statusVars>>

-----------------------------------------------------------------------------
(* printProcessStatus.                                                     *)

(* The counter starts again at 0 every StatusPeriod loops.                 *)
LoopResetBug == loopCounter
LoopReset == IF loopCounter % StatusPeriod = 0 THEN 0 ELSE loopCounter

StatusTop ==
    /\ proc = "running"
    /\ status = "top"
    /\ loopCounter' = LoopReset
    /\ sweepKeys' = {s \in Sessions :
                        mysqlRequestMaps[loopCounter' % threads][s] # NoEntry}
    /\ status' = "sweep"
    /\ UNCHANGED <<proc, captureVars, mysqlPacketChannels, mysqlRequestMaps,
                   workerVars, sweepKey, connections, snapshots>>

(* flushExpiredRequest: `range` yields a key and its value ...             *)
SweepLook(s) ==
    /\ proc = "running"
    /\ status = "sweep"
    /\ sweepKey = NoSession
    /\ s \in sweepKeys
    /\ sweepKeys' = sweepKeys \ {s}
    /\ sweepKey' = IF TooOld(mysqlRequestMaps[SweptShard][s])
                   THEN s ELSE NoSession
    /\ UNCHANGED <<proc, captureVars, mysqlPacketChannels, mysqlRequestMaps,
                   workerVars, status, loopCounter, connections, snapshots>>

(* ... and what the map holds by then under an expired key is deleted.     *)
SweepDelete ==
    /\ proc = "running"
    /\ sweepKey # NoSession
    /\ mysqlRequestMaps' =
          [mysqlRequestMaps EXCEPT ![SweptShard][sweepKey] = NoEntry]
    /\ sweepKey' = NoSession
    /\ UNCHANGED <<proc, captureVars, mysqlPacketChannels, workerVars,
                   status, loopCounter, sweepKeys, connections, snapshots>>

SweepDone == proc = "running" /\ status = "sweep"
             /\ sweepKeys = {} /\ sweepKey = NoSession

(* GetSessionDefaultDatabase: visible sessions that have a database.       *)
DefaultDatabases ==
    [s \in Sessions |-> IF s \in HiddenSessions THEN NoDb ELSE sourceDb[s]]

(* checkMemoryUsage passes.  Every StatusPeriod-th loop then queries the   *)
(* process list; a failing query yields no connection.                     *)
AfterSweep ==
    /\ SweepDone
    /\ IF loopCounter % StatusPeriod = 0
       THEN /\ status' = "send"
            /\ UNCHANGED loopCounter
            /\ \/ /\ snapshots < MaxSnapshots
                  /\ connections' = DefaultDatabases
                  /\ snapshots' = snapshots + 1
               \/ UNCHANGED <<connections, snapshots>>
       ELSE /\ status' = "top"
            /\ loopCounter' = loopCounter + 1
            /\ UNCHANGED <<connections, snapshots>>
    /\ UNCHANGED <<proc, captureVars, mysqlPacketChannels, mysqlRequestMaps,
                   workerVars, sweepKeys, sweepKey>>

(* checkMemoryUsage finds more than 512 MB resident: panic.                *)
MemoryPanic ==
    /\ SweepDone
    /\ proc' = "memory"
    /\ UNCHANGED <<captureVars, mysqlPacketChannels, mysqlRequestMaps,
                   workerVars, statusVars>>

(* sendConnectionDefaultDatabase: blocks on a full channel like main does. *)
SendConnectionDefaultDatabase(s) ==
    /\ proc = "running"
    /\ status = "send"
    /\ connections[s] # NoDb
    /\ LET w == ConnectionWorker(s) IN
       /\ Room(w)
       /\ mysqlPacketChannels' = [mysqlPacketChannels EXCEPT ![w] =
                                     Append(@, ParsedPacket(s, connections[s]))]
    /\ connections' = [connections EXCEPT ![s] = NoDb]
    /\ UNCHANGED <<proc, captureVars, mysqlRequestMaps, workerVars, status,
                   loopCounter, sweepKeys, sweepKey, snapshots>>

(* The loop over the list ends; an empty list is at its end at once.       *)
ListDoneBug == \E s \in Sessions : connections[s] # NoDb
ListDone == \A s \in Sessions : connections[s] = NoDb

AllSent ==
    /\ proc = "running"
    /\ status = "send"
    /\ ListDone
    /\ status' = "top"
    /\ loopCounter' = loopCounter + 1
    /\ UNCHANGED <<proc, captureVars, mysqlPacketChannels, mysqlRequestMaps,
                   workerVars, sweepKeys, sweepKey, connections, snapshots>>

-----------------------------------------------------------------------------
(* The process has ended.                                                  *)
Ended == proc # "running" /\ UNCHANGED vars

WorkerReceive(w) ==
    \/ ReceiveParsed(w) \/ ReceiveIgnored(w) \/ ReceiveShort(w)
    \/ ReceiveAndAssemble(w) \/ ReceiveAlone(w) \/ MapRace(w)

WorkerNext(w) ==
    WorkerReceive(w) \/ Tick(w) \/ KeepBatch(w) \/ Flush(w)

StatusNext ==
    \/ StatusTop \/ SweepDelete \/ AfterSweep \/ MemoryPanic \/ AllSent
    \/ \E s \in Sessions : SweepLook(s) \/ SendConnectionDefaultDatabase(s)

Next ==
    \/ \E s \in Sessions : CaptureNext(s) \/ PacketDropped(s)
    \/ AssembleUserPacket
    \/ CaptureEnds
    \/ \E w \in Workers : WorkerNext(w)
    \/ \E w \in Workers, s \in Sessions : EntryAges(w, s)
    \/ StatusNext
    \/ Ended

Spec == Init /\ [][Next]_vars

(***************************************************************************)
(* Fairness.  Goroutines are scheduled fairly, so a step that stays        *)
(* enabled is taken.  A worker at its select picks at random among the     *)
(* ready cases, and goroutines blocked on a channel are served in FIFO     *)
(* order, so a receive, a tick or a send that is enabled again and again   *)
(* happens: strong fairness.  Time passes.  Nothing is assumed of the      *)
(* clients, the capture library, the memory check or MongoDB's success.    *)
(* A worker to which no session is routed only ticks (ShardOwnership) and  *)
(* needs no fairness.                                                      *)
(***************************************************************************)
BusyWorkers == {WorkerOf(s) : s \in Sessions}

Fairness ==
    /\ SF_vars(AssembleUserPacket)
    /\ \A w \in BusyWorkers : /\ SF_vars(WorkerReceive(w))
                              /\ SF_vars(Tick(w))
                              /\ WF_vars(KeepBatch(w) \/ Flush(w))
    /\ \A s \in Sessions : WF_vars(EntryAges(WorkerOf(s), s))
    /\ WF_vars(StatusTop \/ SweepDelete \/ AllSent
               \/ \E s \in Sessions : SweepLook(s))
    /\ WF_vars(AfterSweep)
    /\ \A s \in Sessions : SF_vars(SendConnectionDefaultDatabase(s))

FairSpec == Spec /\ Fairness

-----------------------------------------------------------------------------
(* Properties.                                                             *)

TypeOK ==
    /\ proc \in {"running", "done", "panic", "race", "memory"}
    /\ sent \in [Sessions -> Nat]
    /\ \A s \in Sessions : sent[s] <= Len(Traffic[s])
    /\ sourceDb \in [Sessions -> Databases \union {NoDb}]
    /\ drops \in 0 .. MaxDrops
    /\ pending \in Packet \union {NoPacket}
    /\ mysqlPacketChannels \in [Workers -> Seq(Packet)]
    /\ mysqlRequestMaps \in [Workers -> [Sessions -> Entry]]
    /\ pc \in [Workers -> {"select", "received", "ticked"}]
    /\ batches \in [Workers -> Seq(Document)]
    /\ assembledPackets \in [Workers -> Nat]
    /\ expiredPackets \in [Workers -> Nat]
    /\ validPackets \in [Workers -> Nat]
    /\ mqErrorCounters \in [Workers -> Nat]
    /\ infos \in [Workers -> Nat]
    /\ mongo \in [Workers -> Seq(Document)]
    /\ status \in {"top", "sweep", "send"}
    /\ loopCounter \in 0 .. StatusPeriod
    /\ sweepKeys \subseteq Sessions
    /\ sweepKey \in Sessions \union {NoSession}
    /\ connections \in [Sessions -> Databases \union {NoDb}]
    /\ snapshots \in 0 .. MaxSnapshots
    /\ relayed \subseteq Document

(* The worker never writes beyond its array of queueBatchSize slots: every *)
(* path that adds a request comes back to the flush check before the next  *)
(* receive, so there is always a free slot at the select; and no channel   *)
(* holds more than its capacity, whichever of its two senders comes first. *)
BatchInBounds ==
    \A w \in Workers :
        /\ Len(batches[w]) <= queueBatchSize
        /\ pc[w] = "select" => Len(batches[w]) < queueBatchSize
        /\ Len(mysqlPacketChannels[w]) <= channelBufferSize

(* Everything of a session, whether captured or taken from the process     *)
(* list, is handled by one worker and stored in one collection: this is    *)
(* what lets the player keep a session's requests in order by tailing each *)
(* collection with one thread.                                             *)
ShardOwnership ==
    \A w \in Workers :
        /\ \A i \in DOMAIN mysqlPacketChannels[w] :
              WorkerOf(mysqlPacketChannels[w][i].s) = w
        /\ \A s \in Sessions :
              mysqlRequestMaps[w][s] # NoEntry => WorkerOf(s) = w
        /\ \A i \in DOMAIN batches[w] : WorkerOf(batches[w][i].s) = w
        /\ \A i \in DOMAIN mongo[w] : WorkerOf(mongo[w][i].s) = w

(* Document d was captured entirely before document e of its session.      *)
Precedes(d, e) ==
    d.s = e.s /\ d.frames # <<>> /\ e.frames # <<>> =>
        d.frames[Len(d.frames)] < e.frames[1]

(* Within a collection (and the batch that goes there next) the captured   *)
(* documents of a session are in capture order and no frame is used twice, *)
(* also when bulk inserts fail half way and partial requests are dropped.  *)
QueueOrder ==
    \A w \in Workers :
        /\ \A i, j \in DOMAIN mongo[w] :
              i < j => Precedes(mongo[w][i], mongo[w][j])
        /\ \A i, j \in DOMAIN batches[w] :
              i < j => Precedes(batches[w][i], batches[w][j])
        /\ \A i \in DOMAIN mongo[w], j \in DOMAIN batches[w] :
              Precedes(mongo[w][i], batches[w][j])

(* The collector is an ordered relay from the wire to the collection of    *)
(* each session: the frames of a session are stored, as parts of requests, *)
(* behind those stored before, in the order they were sent and none twice. *)
FramesUpTo(docs, s) ==
    LET upTo[n \in 0 .. Len(docs)] ==
            IF n = 0 THEN <<>>
            ELSE IF docs[n].s = s THEN upTo[n - 1] \o docs[n].frames
            ELSE upTo[n - 1]
    IN  upTo
StoredFrames(s) ==
    LET docs == mongo[WorkerOf(s)] IN FramesUpTo(docs, s)[Len(docs)]
WireRelay == INSTANCE OrderedRelay WITH
                 Flows <- Sessions, Restartable <- {},
                 in <- sent, out <- [s \in Sessions |-> StoredFrames(s)]
CollectorRelays == WireRelay!Spec

(* A request counted as valid, or an artificial one, is in the collection, *)
(* in the batch or among the MQ errors; and none is there twice.           *)
Accounting ==
    \A w \in Workers :
        /\ Len(mongo[w]) + Len(batches[w]) <= validPackets[w] + infos[w]
        /\ validPackets[w] + infos[w] <=
              Len(mongo[w]) + Len(batches[w]) + mqErrorCounters[w]

(* The frames that make up request r of session s, and the sequence that   *)
(* lists a set of frames in their order.                                   *)
FramesWith(s, r) == {n \in Frames(s) : FrameOf(s, n).req = r}
Lists(fs, S) == /\ {fs[i] : i \in DOMAIN fs} = S
                /\ \A i, j \in DOMAIN fs : i < j => fs[i] < fs[j]

(* Whether the worker of s has taken frame n from its channel.             *)
Carries(p, s, n) == ~p.IsParsed /\ p.s = s /\ p.n = n
Consumed(s, n) ==
    /\ n <= sent[s]
    /\ ~Carries(pending, s, n)
    /\ \A i \in DOMAIN mysqlPacketChannels[WorkerOf(s)] :
          ~Carries(mysqlPacketChannels[WorkerOf(s)][i], s, n)

(* Once the worker has seen all frames of a request that ParsePacket       *)
(* accepts, the request is put in the batch, and exactly as it was sent.   *)
EveryRequestRelayed ==
    \A s \in Sessions : \A n \in Frames(s) :
        LET first == FrameOf(s, n)
            frames == FramesWith(s, first.req)
        IN  /\ proc = "running"
            /\ Readable(s)
            /\ first.part = 1
            /\ \A m \in frames : Consumed(s, m)
            /\ ParsePacket(first, first.size, onlySelect) # ParseError
            => \E d \in relayed : d.s = s /\ Lists(d.frames, frames)

(* Every captured document is one whole request: no frame of another       *)
(* request is glued to it and no part of it is missing.                    *)
OnlyWholeRequests ==
    \A d \in relayed : d.frames # <<>> =>
        Lists(d.frames, FramesWith(d.s, FrameOf(d.s, d.frames[1]).req))

(* A partial request that is never completed does not stay: the expiry     *)
(* check of the next frame of its session or the sweep of its shard takes  *)
(* it out (the sweep visits shard loopCounter % threads, and loopCounter   *)
(* starts again at 0 every StatusPeriod loops).                            *)
PartialsGoAway ==
    \A s \in Sessions : \A n \in Frames(s) :
        mysqlRequestMaps[WorkerOf(s)][s].n = n ~>
            mysqlRequestMaps[WorkerOf(s)][s].n # n \/ proc # "running"

(* A request in a batch is sent to MongoDB even if no other request comes  *)
(* to fill the batch, and also while the channel keeps the worker busy.    *)
BatchesFlushed ==
    \A w \in BusyWorkers : batches[w] # <<>> ~>
                               batches[w] = <<>> \/ proc # "running"

(* Neither the capture loop nor the status goroutine stays blocked on a    *)
(* full channel that both of them feed: frames keep being captured, and    *)
(* every round of the status loop comes to its end.                        *)
SendersUnblocked ==
    /\ pending # NoPacket ~> pending = NoPacket \/ proc # "running"
    /\ status = "send" ~> status = "top" \/ proc # "running"

(* Lines 186-187: a frame that is a complete MySQL packet by itself is     *)
(* relayed as it is, never glued to the partial request stored before.     *)
CompleteFrameNotMerged ==
    \A d \in relayed : Len(d.frames) = 2 =>
        FrameOf(d.s, d.frames[2]).len # FrameOf(d.s, d.frames[2]).size
=============================================================================
