# A TLA+ verification of MRTE2

MRTE2 replays the traffic of a production MySQL server on a test server.
`MRTECollector` (Go) captures the packets that clients send, puts the MySQL
requests together and stores them in capped collections of MongoDB;
`MRTEPlayer` (Java) tails the collections and replays every client session over
a connection of its own. This directory models both programs, checks the models
with TLC and proves the central safety properties with TLAPS.

## 1. Inventory

| Part | State | Operations | Talks to |
|---|---|---|---|
| Capture loop (`MRTECollector.go` main, `custom_packet_parser.go` GetPortNo) | the packet it is blocked on | NextEx, filter, `assembleUserPacket` | workers' channels |
| Workers (`sendUserPacket`, one per `-threads`) | channel, map of partial requests, batch, counters | receive, reassemble, expire, tick, flush | MongoDB; the status goroutine reads and deletes in their maps |
| Status goroutine (`printProcessStatus`) | loopCounter, the connection list | sweep of one shard, memory check, snapshot of default databases | workers' maps (no lock) and channels |
| MySQL protocol (`mysql_protocol.go`) | none | ParsePacket, isSelectStatement | used by workers |
| Packet parsers (`custom_packet_parser.go`, `gopacket_packet_parser.go`) | none | port, payload | used by capture loop and workers |
| MongoDB queue (`mongo_helper.go`) | capped collections with an initial marker | re-create, bulk insert | collector writes, tailers read |
| Tailers (`MongoTailer.java`) | cursor, lastExecuted, retry counter | find, next, retry | `pushEvent2Player` |
| Dispatch (`MRTEPlayer.pushEvent2Player`) | playerMap, prepared connections | look up, create, offer, remove | all tailers and the main thread share the map |
| SQLPlayer threads (`SQLPlayer.java`) | queue, connection, currentDatabase | connect, poll, query, USE, quit, guess a database | target server |
| Idle check (`closeIdleSession`) | iterator, player being closed | remove, drain, offer QUIT | playerMap, queues |
| Login parser (`util/MysqlProtocol.java`) | none | parseInitDatabaseName | MysqlRequest |
| Options, DatabaseMapper, hex helpers | constants | parsing, formatting | start-up |

What is hard here:

* **Concurrency.** The sweep works on maps that the workers use; main and the
  status goroutine share bounded channels; several tailers and the main thread
  share a `HashMap` whose readers take no monitor; a queue is filled by a
  tailer, emptied by its player and drained by the idle check.
* **Failure.** Frames are lost; bulk inserts fail half way; the cursor is lost,
  the collection overflows or is dropped while it is tailed; the target refuses
  or cuts connections.
* **Order.** Everything rests on one fact: the requests of a session are
  replayed in the order of capture. It depends on routing (one session, one
  worker, one collection), on reassembly, on the resume point of a tailer and
  on the one-player-per-session map.
* **Time.** Partial requests expire in two places, batches are flushed by a
  ticker, sessions are closed when idle.

What makes each part correct: workers relay exactly the requests that were sent,
in order, once, and count what they lose; orphans do not stay and batches do not
wait; a tailer neither repeats nor skips what MongoDB still holds; the player
loses nothing it took, keeps order, has one player per session, bounded queues,
and knows the database the target session is in; threads end.

## 2. Modules

| Module | What it models |
|---|---|
| `OrderedRelay` | the abstract promise: what goes in comes out in order, at most once, or not at all |
| `MysqlProtocol` | commands, `ParsePacket`, what a TCP segment is to the collector |
| `Collector` (EXTENDS `MysqlProtocol`) | capture loop, workers and status goroutine together |
| `MongoTailer` | one `CappedCollectionTailer` on one capped collection, with the collector that fills and re-creates it |
| `Player` (EXTENDS `MysqlProtocol`) | dispatch, SQLPlayer threads and idle check together |
| `Pipeline` (EXTENDS `Player`, instantiates `MongoTailer`) | collection, tailer, dispatch and players as one process |
| `SelectFilter` | `isSelectStatement` on texts of tokens with widths |
| `LoginPacket` | a login from the stored hexadecimal string to the database name |
| `PacketParser` | `GetPortNo`, the frame filter and the two parsers on bytes |
| `Parsers` | the three parser modules as functions that are called with any input |
| `MCCollector`, `MCTailer`, `MCPlayer`, `MCPipeline`, `MCParsers` | instances for TLC: sessions, traffic, request streams, target tables, inputs of the parsers |
| `CollectorProofs`, `CollectorReassemblyProofs` | theorems about the collector: types, bounds, routing, accounting, order; reassembly |
| `TailerProofs` | theorems about a tailer |
| `PlayerProofs`, `PlayerDeliveryProofs`, `PlayerDatabaseProofs` | theorems about the player: types, queues, order; relay, loss, one player per session; the default database |
| `PipelineProofs` | theorems about tailer and player together, from those about the parts |
| `ParsersProofs` | theorems about the parsers |

Definitions have the names of the source. An operator whose name ends in `Bug`
is a mutant: putting it in the place of the operator it is named after must
break a property. `PROJECT.json` names the source lines of every definition.

### Collector

* `CaptureNext`/`AssembleUserPacket` split a round of main's loop at its only
  blocking point, the channel send (`pending` is the packet in between).
  `PacketDropped` is libpcap's loss, `CaptureEnds` the end of the capture.
* A worker is at its `select` or, behind one of its cases, at the flush check
  (`pc`). Receiving is one atomic action per path through the handler, because
  the only shared state it touches is its map, which it reads once and writes
  once; an overlap with the sweep that the Go runtime notices is `MapRace`.
  The paths: artificial request, frame without data, frame shorter than a
  header (panic), completion of or addition to a partial request, a frame alone.
* The copy semantics of Go's map are kept: in `ReceiveAndAssemble` the merged
  but incomplete data is *not* written back.
* The sweep is `StatusTop` (keys), then for each key `SweepLook` (decide) and
  `SweepDelete` (delete what is there by now). `MapRace` is the runtime's
  "concurrent map" abort. `AfterSweep` and `SendConnectionDefaultDatabase` are
  the snapshot: read at one moment, sent entry by entry over blocking channels.
* Payloads are lengths, the header fields the code reads, a white-space flag.
  The header of a frame in the middle of a request is what its text reads as.

### MongoTailer

Documents are their position in insertion order. `Insert` evicts, as a capped
collection does; `DropCollection`/`InsertMarker` are the two steps of
`reCreateCappedCollection`. A cursor has a client side batch (`pos`, `fetched`),
may be dead (`alive`), and `GetMore` works only while the document it stands on
exists. `Find`, `FindFails`, `CursorFails`, `CursorEnds` and `NextDocument` are
the ways through the loop of `run()`. The `missed` history records what MongoDB
removed before the client had it. `PlayerRestarts` is a player that is killed
at any point, or has given up, and is started again: it has no memory, and takes
what the collection holds (`MaxLives` bounds how often).

### Player

* A tailer thread walks through `GetPlayer` (the unsynchronised lookup),
  `NewPlayer`/`PutPlayer` (inside the monitor), `StartPlayer`, `CheckQueue`,
  `Offer`, `RemovePlayer`: one action per access to shared state.
* A player connects, polls and replays; `QueryResults` are the target's answers
  and `ExecuteQuery` has the branch of each error class, with the guess of a
  database (`GuessedDb`, the first that is listed for the table and not current).
* `CloseIdleSession` ... `CloseDone` are the idle check under the monitor:
  visiting, draining poll by poll, offering QUIT.
* The data race on `playerMap` is a choice: while another tailer is inside its
  `put`, `Lookup` may miss an entry (constant `MapResizes`).

### OrderedRelay and the specifications that implement it

A flow has a number of items that went in and a sequence of those that came out.
`Enter` takes new items in, `Leave` passes on items that are newer than all
passed on before, `Restart` (of a flow in `Restartable`) forgets what was passed
on. So items may be lost but are never repeated, reordered or made up. Four
specifications implement it, each by a refinement mapping of its own:

| Property | Flow | In | Out |
|---|---|---|---|
| `CollectorRelays` | a session | frames transmitted | frames of its stored documents |
| `TailerRelays` | the tailer, restartable | documents inserted | documents pushed |
| `PlayerRelays` | a SQLPlayer | requests its tailer has taken | requests it has replayed |
| `PipelineRelays` | a SQLPlayer | documents inserted | documents it has replayed |

The collector's flow ends at the collection where the tailer's begins, and the
tailer's at the lookup where the player's begins.

### Pipeline

`MongoTailer` and `Player` run in one process and share the tailer thread:
`Dispatch` takes a document from the cursor and enters `pushEvent2Player`, and
the cursor's other actions wait until that has returned (`Tailing`), while
`CollectionNext` goes on. The idle check, which loses requests (`IdleLoss`), and
the restart of the player are left to the modules of their own.

### The parsers

`SelectFilter` keeps the positions: the six bytes of the header, the two added
to the end of a comment, the cut token that becomes a word. `Scan` is one call
of the function, and the recursion is a function of the depth, which the code
limits. `LoginPacket`
converts bytes to digits and back into Java's signed bytes, and reads them with
the code's positions, exceptions (no database) and length arithmetic.
`PacketParser` lays frames out byte by byte, headers with what varies from frame
to frame in them, and cuts them as the code does; the decoders of gopacket are
translated from the vendored source. In `Parsers` a call is a step, and the
properties compare its answer with what was put into the input.

## 3. Runs

Bounds are named constants of the modules; traffic and streams are finite.

| Run | Instance | Shows |
|---|---|---|
| `Capture` | 2 workers, 3 connections (two share a worker, one is IPv6), channel 1, batch 2, one snapshot; a login, requests of one and two frames, an acknowledgement in between, none lost; 588,121 states | `BatchInBounds`, `ShardOwnership`, `OnlyWholeRequests`, `EveryRequestRelayed`, `TypeOK` |
| `Lossy` | 2 workers, fair; 5 frames, one of which may be lost, whatever it leaves behind; expiry, failing inserts, one snapshot, channel 1; 76,981 states | `QueueOrder`, `Accounting`, `CollectorRelays`, `PartialsGoAway`, `BatchesFlushed`, `SendersUnblocked` |
| `Tailer` | room for 3 documents, 6 inserted, one restart of the collector and one of the player, failures anywhere; 4,566 states | `PushedInOrder`, `NothingSkipped`, `EveryDocumentHandled`, `TailerRelays`, `TypeOK` |
| `Replay` | 2 tailers, 2 sessions, an address used again, a QUIT without player, failing connects, queue limit 1 | `NothingLost`, `OnePlayerPerSession`, `RequestsReplayed` |
| `Idle` | one session that may be idle at any time, queue limit 1, client QUIT, connections cut by the target; 65,773 states | `SessionOrder`, `QueueBounded`, `UnmappedPlayersStop`, `PlayerRelays`, `TypeOK` |
| `Pipeline` | two sessions on one tailer, through login, COM_INIT_DB and queries on tables here and there, every outcome, cut connections; a collection that overflows and is created anew, a cursor that fails; 389,968 states | `DatabaseKnown`, `GuessFindsTable`, `DocumentsAccounted`, `PipelineRelays` |
| `Parsers` | 11,760 statements with up to six comments, 2,976 logins, 2,256 frames with each parser; 21,505 states | `FilterNeverPanics`, `OnlySelectsPass`, `SelectsPass`, `LoginDatabaseFound`, `NothingInvented`, `PayloadDelivered`, `RoutedBySession` |

Why the bounds are enough. A batch of two is the smallest that can be partly
stored; a channel of one is the smallest on which both senders block; two
workers are the smallest number for which routing matters; the five frames of
`Lossy` have, with the loss of one, a request put together, one glued to a stale
first half, a stored frame discarded because of its size, a request that the filter
rejects, and a tail of two bytes; the database of the session, queued with its
requests, fills the batches and the channel; the period of the
status loop is scaled with the number of workers (2 and 2 against 20 and 5).
Six documents overflow a collection of three twice. A queue limit of one makes
the limit and one beyond it reachable. The inputs of the parsers lie on both
sides of every limit in the code: 5 comments, 6 bytes of statement, 127/128 and
250/251 bytes of authentication response, 66 bytes of frame, every traffic
class. `ShortComments` are those that share the six bytes with the next one. What
does not depend on bounds is proved (section 5).

Fairness. Go schedules goroutines fairly, `select` chooses at random among ready
cases and blocked senders are served in FIFO order: strong fairness of receive,
tick and send, weak fairness of steps that stay enabled. The JVM runs every
thread and a monitor that is held for a moment is obtained: strong fairness of a
tailer's and the main thread's next step, weak fairness of a player's. Time
passes (partial requests age). Nothing is assumed about clients, the capture
library, the memory check, MongoDB's success or the target's: liveness
properties allow the process to have ended, which all these failures lead to.

Deadlock is checked in every run. `Ended`, `Aborted`, `PipelineAborted` and `Finished` are the
states in which the process is gone or has nothing left to do.

### Disagreements shown by a run

| Run | What TLC finds |
|---|---|
| `ThreeSegments` | `EveryRequestRelayed` fails: a request in three frames is never put together, because the merged data stays in a copy of the map's value (`MRTECollector.go:197`) |
| `StalePartial` | `CompleteFrameNotMerged` fails: a complete request is glued to a stale partial one, because line 189 compares the *stored* length with the *received* header; the comment above it says the opposite |
| `IdleLoss` | `NothingLost` fails: between the lookup of a player and the offer to it, the idle check drains and stops the player |
| `SplitSession` | `OnePlayerPerSession` fails: a lookup during another tailer's `put` misses the player |
| `SetDropped` | `SetsPass` fails: with `-onlyselect` a SET is dropped, although the comment at `mysql_protocol.go:31` and `howtorun.md:105` say that SET and SHOW are relayed; the code compares with "select", "desc" and "show" only (`mysql_protocol.go:52`) |

`SetsPass` states what the documents say, within the limits in which a SELECT does
pass; `OnlySelectsPass` leaves a SET free to pass, so that it would still hold of
code that followed them.

### Further disagreements

Met while modelling; the models have the behaviour, no run is kept for it.

* With more than 20 workers the shards from 20 on are never swept: the sweep visits `loopCounter % threads` and the counter restarts every 20 loops (`MRTECollector.go:414`). `PartialsGoAway` holds as long as `StatusPeriod` is at least `threads`, and fails otherwise (constants of `Collector`; set them to 21 and 20 in `Lossy.cfg`).
* A frame of white space only is skipped as "control packet" (`MRTECollector.go:168`), so its request is never completed: `Ignored`, with the same effect as the lost tail in `Lossy`.
* A last frame of one to three bytes panics in `Uint32` (line 188): `ReceiveShort`.
* The sweep may delete a fresh entry that replaced the expired one it looked at (line 304), and does not count what it removes although `mrte_output.md:26` says expired packets are counted.
* A snapshot taken before and queued behind a COM_INIT_DB names the older database last (line 277), until the next snapshot.
* The queue of a player holds one request more than `SESSION_QUEUE_SIZE_ABORT` (`SQLPlayer.java:290`; `QueueBounded` states the real bound).
* A query of more than 30 minutes is closed as an idle session (`MRTEPlayer.java:346`), and a session that quits at that moment is counted twice (line 260).
* With `mysql_force_default_db` no USE is ever sent, not even the one for the forced database (`SQLPlayer.java:264`).
* A USE statement sent as a query leaves `currentDatabase` stale and the guess then skips the right database (`SQLPlayer.java:255`); `DatabaseKnown` and `GuessFindsTable` are checked for sessions without one.
* `destroyPreparedConnections` is never called: connections nobody takes stay open.
* `isSelectStatement` takes off the newline of a comment line and one character more (`mysql_protocol.go:75`): a SELECT in the first column of the next line is not recognised (`Indented`). It gives up behind more than four comments, does not know `#` comments, takes a block comment that begins with `--` for a comment line (and then a SELECT that is commented out for the statement), and a comment right behind a verb of up to four letters for one in front of the statement (`Plain`). The byte more that it takes off can turn a comment line into a block comment, or bring a `--` within the header (`Early`). It accepts DESC, which the documents do not name.
* `readLengthCodedBinary2` returns one byte of length too few behind 252, 253 and 254 (`ByteHelper.java:126`), and the one-byte length of older clients is read as a signed byte (`MysqlProtocol.java:116`): a login with an authentication response of 251 bytes or more, or 128 or more in the older form, names the wrong database or none (`LengthUnderstood`).
* The filter of 66 bytes (`MRTECollector.go:573`) drops requests of up to 12 bytes when TCP has no options, and of up to 14 on a raw link: a COM_QUIT is never seen there, although `howtorun.md:99` says that such frames have no payload. The gopacket parser takes every link for Ethernet, so raw links work with neither.
* The custom parser rejects IPv6, and IPv4 packets whose length field is 0, which gopacket accepts (`Supported`).
* Of IPv6 `GetPortNo` reads the traffic class as header length (`custom_packet_parser.go:117`). For the classes 1 and 11 to 15 (upper half of the byte, which has EF at 11) it reads the payload length, the sequence number or another field that changes, and the frames of a session go to different workers (`Scattered`). `Collector` assumes one number per session, which `RoutedBySession` shows for the others.

## 4. Properties

Collector: `BatchInBounds` (no write beyond the batch, no overfull channel),
`ShardOwnership` (a session lives in one worker and collection), `QueueOrder`
(capture order, no frame used twice), `Accounting` (a counted request is stored,
batched or counted as an error, never twice), `OnlyWholeRequests` and
`EveryRequestRelayed` (without loss, exactly what was sent), `PartialsGoAway`,
`BatchesFlushed`, `SendersUnblocked`. Tailer: `PushedInOrder`, `NothingSkipped`,
`EveryDocumentHandled` (the last two across restarts of the player). Player: `SessionOrder`, `NothingLost`,
`OnePlayerPerSession`, `QueueBounded`, `RequestsReplayed`,
`UnmappedPlayersStop`, `DatabaseKnown`, `GuessFindsTable`. Composition:
`DocumentsAccounted` (a document the tailer has passed is with exactly one
player of its session, or there is a reason) and the four refinements. Parsers:
`FilterNeverPanics`, `OnlySelectsPass` (with `-onlyselect` nothing passes but SELECT,
SHOW, DESC and SET, the last because the documentation has it pass), `SelectsPass`
and `SetsPass` (within the same limits, `WithinLimits`, a SELECT, SHOW or DESC
passes, and so should a SET), `LoginDatabaseFound`,
`NothingInvented`, `PayloadDelivered`, `RoutedBySession`.

Each property of a passing run has a mutant in `PROJECT.json`: a wrong shard for process list entries, a
flush check off by one, a forgotten delete, uncounted errors, an expiry test
turned round, a missing ticker, a retry counter that starts over, a resume point
off by one or at the end, a session not unmapped, a poll that does not remove, a
QUIT not offered, `currentDatabase` set without success, a restart at the end of
the collection, white space trimmed on one side only, comments looked for
everywhere, a filter or a depth limit off by one, IP options not skipped, and
others.

## 5. Theorems

All hold for every value of the constants that satisfies the named assumptions
of the modules. Those of the collector: positive sizes, any number of workers,
any traffic, `GetPortNo` equal to the port for IPv4, IPv6 sessions invisible to
the process list query. Those of the player: any number of tailers (none of which
has the name of one of the two other values the monitor can have), a session in the streams of one tailer only
(which is what `ShardsOwnSessions` proves of the collector), a queue limit of at
least one (it is 10000), a catalogue that lists for a table the databases that have
it. Those of the pipeline: one tailer, a collection that holds at least one
document, no idle check.

`CollectorProofs`

* `TypeCorrect` (`TypeOK`). Inductive: `TypeInv` = `TypeOK` with `FrameRefs`
  (packets and entries refer to frames that were transmitted, otherwise
  `Traffic[s][n]` means nothing) and `LoopBound` (behind the top of the loop, where
  the reset is, loopCounter is below the period, so the increment stays within it).
* `BatchesInBounds`. `BatchInBounds` is inductive over `TypeInv`: its middle
  conjunct, a free slot at the select, is what carries the induction.
* `ShardsOwnSessions`. `ShardInv` adds that a pending connection entry belongs
  to a visible session, where `ConnectionWorker` and `WorkerOf` agree.
* `RequestsAccounted`. `Accounting` is inductive over `TypeInv`.
* `QueueInOrder` (`QueueOrder`). `OrderInv` follows a frame through the
  collector: `NextOrder` (what is transmitted next is newer than everything),
  `PendingOrder`, `ChannelOrder` (channels are sorted and newer than the maps,
  batches and collections), `MapOrder` (a stored partial request is newer than
  every document of its session) and `QueueOrder` itself.
* `CollectorImplementsRelay` (`CollectorRelays`): the collector implements
  `OrderedRelay`. `RelayInv` is `OrderInv` with `FramesOrder` (a document's own
  frames are in capture order: by `ChannelOrder` a stored half is older than the
  frame that completes it). A transmitted frame maps to `Enter`, lost or not; a
  bulk insert, whole or in part, to `Leave`; every other step to a stutter. What
  the mapping reads in a collection, the frames of a session document by
  document, is a recursive function. That it exists, that documents put behind
  others leave its values for these as they were (`FramesOfPrefix`), that it grows
  at its end (`FramesGrow`) and lists the frames in order (`FramesInOrder`) are
  inductions over the collection, each made from a set of numbers that has 0 and
  with every number the next (`UpTo`, from the least number that would be missing).

`CollectorReassemblyProofs`

* `OnlyRequestsRelayed` (`OnlyWholeRequests`) and `AllRequestsRelayed`
  (`EveryRequestRelayed`): the documents are exactly the requests that were
  sent. Hypotheses: `NothingMissing` (no frame lost, nothing expires) and
  `CleanTraffic`, which is what the code needs of the frames: a request is in one
  frame, or in two with only control frames in between, and the length of the
  first half is not by accident the size that the second half's text reads as
  (line 189). The runs `ThreeSegments` and `Lossy` show what happens without.
  `ReassemblyInv` has, per session, `Waiting` (what is stored is a first half
  whose second half is still to come, and every such half is stored),
  `TakenInOrder` (the worker takes frames in order, so that a second half is not
  taken before the first) and `Documented`; and of the documents
  `DocumentsWhole`. `StoredThen` is the step that counts: when a frame is taken,
  `OrderInv` says that every earlier one has been, so the stored half, if any, is
  the one in front of it.

`TailerProofs`

* `TailerTypeCorrect`, `RequestsPushedInOrder` (`PushedInOrder`) and
  `OnlyRemovedSkipped` (`NothingSkipped`), from one invariant `TailerInv`:
  `Positions` (lastExecuted, pos, fetched and inserted are ordered as the cursor
  requires), `PushedBefore` (nothing pushed is beyond lastExecuted),
  `GapIsMissed` (between lastExecuted and where an open cursor continues there
  are only missed documents) and `RemovedIsKnown` (documents removed from the
  collection were handled, are in the client's batch, or are missed).
* `TailerImplementsRelay` (`TailerRelays`): the tailer implements
  `OrderedRelay`. The step that counts is `NextDocument`, which maps to `Leave`:
  by `PushedBefore` the document is newer than all pushed (lemma `PushExtends`).
  Everything else maps to `Enter`, `Restart` or a stutter.

`PlayerProofs`

* `PlayerTypeCorrect` (`TypeOK`). `BaseInv` adds who refers to which player:
  `Held` (a tailer holds a player of the session it handles), `Mapped` (so does
  the map), `Locked` (who is inside the monitor), `Visiting` (the idle check goes
  through players in the map, and the one it closes is out of it), `Fresh` (what
  players that do not exist yet look like) and `NotGivenUp` (the failures to
  connect of a process that runs are within the limit).
* `QueuesBounded` (`QueueBounded`). `QueueInv` adds `RoomFound` (a tailer
  between test and offer still finds room, since only it adds to the queue) and
  `RoomForQuit` (when the idle check offers its QUIT, at most one request has come
  into the queue it drained: the session's tailer had looked the player up before).
* `SessionsInOrder` (`SessionOrder`). `OrderInv` orders all a player was given:
  replayed, in hand and queued, each before the next, none beyond what its tailer
  is done with (`GivenIsKnown`); the artificial QUIT is the last (`QuitIsLast`).

`PlayerDeliveryProofs`

* `PlayerImplementsRelay` (`PlayerRelays`): each step is a step of
  `OrderedRelay` or a stutter; a replayed request maps to `Leave`, and `OrderInv`
  says that it is newer than what was replayed before.
* `RequestsNotLost` (`NothingLost`), when no session expires (`IdleLoss` shows the
  loss when one does). `LossInv`: tailers push to players that go on
  (`PushedGoOn`), the map leads to such (`MappedGoOn`, but for one that is about
  to be removed), nothing is queued behind a QUIT (`NothingBehindQuit`), and all
  requests done with are with a player (`AllKept`). It holds with lookups that miss.
* `OnePlayerGoesOn` (`OnePlayerPerSession`), when lookups do not miss
  (`SplitSession` shows the second player when one does). `SoleInv`: a player that
  goes on is in the map, about to be put there, or just taken out to be ended
  (`AllTracked`), and what a tailer holds agrees with the map (`MapAgrees`). It
  holds with expiring sessions.

`PlayerDatabaseProofs`

* `DatabaseStaysKnown` (`DatabaseKnown`) when no client sends a USE statement and
  connections start in the database the player assumes. `DatabaseInv` follows
  both databases from the creation of a player to its end (`Follows`).
* `GuessesFindTables` (`GuessFindsTable`), unless the default database is forced:
  the guess takes the first listed database that is not the current one, and that
  the current one does not have the table is what `DatabaseKnown` gives.

`PipelineProofs` instantiates `TailerProofs` and extends the players' proofs, so
that their lemmas are used as they are.

* `PipelineAccounts` (`DocumentsAccounted`). `PipelineInv` = `OrderInv`,
  `TailerInv`, the bounds of the collection, `AllAccounted` (each document up to
  lastExecuted is a marker, missed, a QUIT, being pushed or with a player) and
  `SoleTaker` (with one player only).
* `PipelineImplementsRelay` (`PipelineRelays`): document in, replayed request
  out; a `Dispatch` enters nothing, since the collection is where items enter.
* `PipelineDatabaseKnown`, `PipelineGuesses`: the database properties behind a
  tailer that skips what MongoDB has removed.

`ParsersProofs` speaks of all inputs that `InputsAssumption` describes: frames
with any length of data and any number of bytes lost, logins with names and
responses of any length, statements with any number of comments. The invariant is
`Computed` (the answer is the one of the function that was called); the work is
in the layout of the inputs.

* `NothingInventedTheorem`, `PayloadDeliveredTheorem`, `RoutedBySessionTheorem`.
  `FrameLayout` gives the place of the headers, the segment (`SegmentBytes`), the
  packet (`PacketBytes`) and the padding in a captured frame; `FastOfIpv4`,
  `Ipv4Segment` and `Ipv6Segment` say that the two parsers cut there, the length
  field being what tells padding from data, and that they stop at the end of what
  was captured; `PortOfIpv4` and `PortOfIpv6` do so for `GetPortNo`.
  `RoutedBySessionTheorem` justifies the assumption of `Collector` that a session
  has one routing number.
* `LoginDatabaseFoundTheorem`. `HexRoundTrip`: the player's bytes are the
  client's as signed bytes. `LoginLayout` has the place of every part; `FlagsRead`,
  `EndOfStringIs` and `AuthSkipped` follow `parseInitDatabaseName` from the flags
  behind the user name to the database. The hypothesis is `LengthUnderstood`: 250
  bytes of response, 127 in the older form. An empty name is included.
* `FilterNeverPanicsTheorem`. The positions of tokens rise (`EndsRise`), what
  `TrimSpace` leaves does not end with white space (`TrimIs`), so two bytes follow
  the place where a comment ends (`PositionsSafe`); what is cut off is a text
  again (`FromType`), for the next call. The sums over tokens are recursive
  functions; that they exist and rise is shown with a least counterexample
  (`LeastNumber`), which needs no operator as a parameter.

* `SelectsPassTheorem`, `OnlySelectsPassTheorem`. A statement is leading comments,
  a verb and a tail; `TextHasShape` says where each begins in the text. What a call
  leaves is described by the comments that are gone (`Gone`): `Removed` if only
  whole comments and white space are, `Split` if the first token behind them has
  lost a byte too, `Odd` if a byte of the last comment is still there. `LineCut` and
  `BlockCut` say where a call cuts, for any such text (`View`). For a statement that
  must pass only `Removed` occurs (`ScanPasses`): a call answers "yes" at the verb
  and otherwise takes off a comment or more, which the depth limit allows four
  times. For another verb all three occur (`ScanRejects`). A mark of the next
  comment is in the header of this one only if at most four bytes are in front of it
  (`NextSeen`); with an end mark and a newline among them they are known token by
  token (`Tight`): each such case
  ends in one of the three. The positions are compared with `BeginsEnds` and
  `PartEnds`, the bound of `Early` (one byte more than the header) being what a lost
  byte costs. As the code stands a SET is rejected like any other verb, which is what
  the lemma `FilterRejects` says; the theorem does not demand it. `Statement` describes what is proved about: a comment has its mark in
  front and only white space behind what ends it, which is how leading comments
  divide, and a verb has two bytes or more.

TLC checked every inductive invariant on instances like those of the runs before it was
proved.

Only model-checked, and why:

* liveness (`PartialsGoAway`, `BatchesFlushed`, `SendersUnblocked`,
  `EveryDocumentHandled`, `RequestsReplayed`, `UnmappedPlayersStop`): TLAPS does
  not do liveness under fairness.

The attempts to prove `OnlySelectsPass` corrected it: the byte taken off behind a
comment line can bring a `--` at the sixth byte of a block comment into the header,
can make a comment line with `/*` in it a block comment, and can be all of a verb of
one byte, so that the token behind it is taken for the verb. `Plain` and `Verb`
exclude these now; the first two are listed in section 3, and the run has a
statement of either kind.

## 6. Not modelled

* Of the parsers: VLAN tags, fragments and IPv6 extension headers, which the
  capture filter "tcp dst port" does not let through; overlapping comment marks
  such as `/*/`; logins encrypted after an SSL request; the decoder that gopacket
  picks by port number, behind TCP, for a source port registered to another
  protocol (`TCP.NextLayerType`, `gopacket/layers/tcp.go:294`): clients' ports are
  ephemeral.
* `DatabaseMapper` (parsed, never consulted), `reconnect`, `checkConnection`,
  `InsertPackets`, `destroyPreparedConnections` (never called), option parsing,
  printing.
* The limit of 10000 entries per round of the idle check.
* Vendored libraries (mgo, gopacket, pcap), MongoDB and MySQL, except for what
  the code sees of them. They are all but about 3,000 of the repository's 91,000
  lines of code; MRTE2's own code is modelled where it has logic, and the rest of
  it (options, output, constants of the pcap headers) has none.
* The growth of `ObjectId`s, on which the resume query of a tailer relies.

## 7. Plan

Done: (1) `Collector`, its runs and proofs; (2) `MongoTailer`, run and proofs;
(3) `Player` and its runs; (4) `OrderedRelay` and its four refinements, all
proved; (5) `Pipeline`; (6) the parsers; (7) proofs of all safety
properties of the player and the pipeline, and of the collector's reassembly; (8)
proofs of the parsers, for every frame, login and statement.

What stays is listed in section 5 (only model-checked) and section 6 (not
modelled).
