------------------------------- MODULE Player -------------------------------
(***************************************************************************)
(* MRTEPlayer (MRTEPlayer/src/mrte/MRTEPlayer.java, SQLPlayer.java,        *)
(* MysqlRequest.java).  Every tailer thread takes the requests of its      *)
(* collection in order and hands each to the SQLPlayer thread of the       *)
(* request's session (pushEvent2Player), which replays them over its own   *)
(* connection to the target server; the main thread closes the players of  *)
(* idle sessions.  playerMap is a HashMap that is written under its        *)
(* monitor but read without it.                                            *)
(*                                                                         *)
(* Request n of session s is Stream[TailerOf[s]][n]; in a queue it is the  *)
(* number n, and 0 is the artificial QUIT of closeIdleSession.  Players    *)
(* are numbered in the order of their creation; 0 is null.                 *)
(***************************************************************************)
EXTENDS MysqlProtocol, Sequences

CONSTANTS
    Tailers, Sessions,
    TailerOf,        \* the tailer of the collection a session is stored in
    Stream,          \* the documents each tailer is going to read
    SESSION_QUEUE_SIZE_ABORT,
    MaxConnectRetries,   \* failed connects that are tolerated (5)
    targetDatabaseInitConnections,
    targetDatabaseDefaultDatabase, forceDefaultDatabase,
    UrlDb,           \* the database named in the JDBC URL, or NoDb
    Tables, NoTable,
    TablesOf,        \* the tables of each database of the target server
    tableDbMap,      \* table name -> its databases, in catalogue order
    Outcomes,        \* what a query that finds its table may come to
    IdleExpiry,      \* whether 30 minutes without a request ever pass
    MapResizes,      \* whether a put reorganises the hash table
    ConnectionsBreak,\* whether the target ever cuts a connection
    MaxPlayers       \* bound: SQLPlayer objects, at least one per request

PlayerIds == 1 .. MaxPlayers
Request == [s: Sessions, c: Commands, db: Databases \union {NoDb},
            tbl: Tables \union {NoTable}]
TargetDbs == DOMAIN TablesOf

ASSUME StreamAssumption ==
    /\ {"free", "main"} \intersect Tailers = {}
    /\ TailerOf \in [Sessions -> Tailers]
    /\ \A t \in Tailers : /\ Stream[t] \in Seq(Request)
                          /\ \A n \in DOMAIN Stream[t] : TailerOf[Stream[t][n].s] = t
ASSUME TargetAssumption ==
    /\ TargetDbs \subseteq Databases
    /\ \A tbl \in Tables :
          /\ tableDbMap[tbl] \in Seq(TargetDbs)
          /\ {tableDbMap[tbl][i] : i \in DOMAIN tableDbMap[tbl]} =
                IF targetDatabaseInitConnections = 0 THEN {}
                ELSE {d \in TargetDbs : tbl \in TablesOf[d]}
ASSUME OptionsAssumption ==
    /\ SESSION_QUEUE_SIZE_ABORT \in Nat \ {0} /\ MaxConnectRetries \in Nat
    /\ targetDatabaseInitConnections \in Nat
    /\ targetDatabaseDefaultDatabase \in Databases \union {NoDb}
    /\ forceDefaultDatabase => targetDatabaseDefaultDatabase # NoDb
    /\ UrlDb \in TargetDbs \union {NoDb}
    /\ Outcomes \subseteq {"ok", "slow", "columnnotfound", "duplicate",
                           "deadlock", "locktimeout", "other"}
    /\ IdleExpiry \in BOOLEAN /\ MapResizes \in BOOLEAN
    /\ ConnectionsBreak \in BOOLEAN /\ MaxPlayers \in Nat

VARIABLES
    proc,                \* "running" or "aborted"
    playerMap, monitor,  \* the monitor's holder: "free", "main" or a tailer
    preparedConnQueue,   \* how many prepared connections are left
    preparedConnDead,    \* the target has cut them in the meantime
    players,             \* how many SQLPlayer objects were created
    tailed,              \* tailed[t]: requests t has taken from its stream
    tpc, player,         \* t's place in pushEvent2Player, its local variable
    owner, requestQueue, ppc, request, failures, targetConnection,
    currentDatabase, idle,
    targetDb,            \* the default database the target server knows
    mpc, unvisited, idleSQLPlayer,   \* closeIdleSession
    counter,             \* the metrics
    executed             \* history: executed[p], requests p has replayed

tailerVars == <<tailed, tpc, player>>
mapVars    == <<playerMap, monitor>>
poolVars   == <<preparedConnQueue, preparedConnDead>>
connVars   == <<targetConnection, currentDatabase, targetDb>>
playerVars == <<ppc, request, failures, connVars, executed>>
mainVars   == <<mpc, unvisited, idleSQLPlayer>>
replayVars == <<mapVars, poolVars, players, tailerVars, owner, requestQueue,
                playerVars, idle, mainVars, counter>>
vars == <<proc, replayVars>>

Counters == {"newSession", "closeSession", "userRequest", "playerError",
             "longQuery", "noInitDatabase", "duplicateKey", "deadlock",
             "lockTimeout"}
Bump(names) == counter' = [c \in Counters |->
                   IF c \in names THEN counter[c] + 1 ELSE counter[c]]

Init ==
    /\ proc = "running"
    /\ playerMap = [s \in Sessions |-> 0]
    /\ monitor = "free"
    /\ preparedConnQueue = targetDatabaseInitConnections
    /\ preparedConnDead = FALSE
    /\ players = 0
    /\ tailed = [t \in Tailers |-> 0]
    /\ tpc = [t \in Tailers |-> "tail"]
    /\ player = [t \in Tailers |-> 0]
    /\ owner = <<>>
    /\ requestQueue = [p \in PlayerIds |-> <<>>]
    /\ ppc = [p \in PlayerIds |-> "new"]
    /\ request = [p \in PlayerIds |-> 0]
    /\ failures = [p \in PlayerIds |-> 0]
    /\ targetConnection = [p \in PlayerIds |-> "null"]
    /\ currentDatabase = [p \in PlayerIds |-> NoDb]
    /\ targetDb = [p \in PlayerIds |-> NoDb]
    /\ idle = [p \in PlayerIds |-> FALSE]
    /\ mpc = "sleep"
    /\ unvisited = {}
    /\ idleSQLPlayer = 0
    /\ counter = [c \in Counters |-> 0]
    /\ executed = [p \in PlayerIds |-> <<>>]

-----------------------------------------------------------------------------
(* pushEvent2Player, in the thread of tailer t.                            *)

(* The MysqlRequest of a document: a login becomes COM_INIT_DB.            *)
CommandOf(d) == IF d.c = COM_LOGIN THEN COM_INIT_DB ELSE d.c
Handled(t) == Stream[t][tailed[t]]

(* playerMap.get, not synchronized.  While another thread reorganises the  *)
(* table the lookup may miss a key that is there.                          *)
Lookup(t, s) ==
    {playerMap[s]}
    \union (IF MapResizes /\ monitor \in Tailers \ {t} THEN {0} ELSE {})

TakeRequest(t, n) ==
    /\ proc = "running"
    /\ tpc[t] = "tail"
    /\ tailed' = [tailed EXCEPT ![t] = n]
    /\ LET r == Stream[t][n]
       IN  \E p \in Lookup(t, r.s) :
              /\ player' = [player EXCEPT ![t] = p]
              /\ tpc' = [tpc EXCEPT ![t] =
                            IF p # 0 THEN "push"
                            ELSE IF CommandOf(r) = COM_QUIT THEN "tail"
                            ELSE "new"]
    /\ UNCHANGED <<proc, mapVars, poolVars, players, owner, requestQueue,
                   playerVars, idle, mainVars, counter>>

GetPlayer(t) == tailed[t] < Len(Stream[t]) /\ TakeRequest(t, tailed[t] + 1)

(* new SQLPlayer(..., preparedConnQueue.poll(), ...), and the monitor.     *)
NewPlayer(t) ==
    /\ proc = "running"
    /\ tpc[t] = "new"
    /\ players < MaxPlayers
    /\ monitor = "free"
    /\ monitor' = t
    /\ players' = players + 1
    /\ owner' = Append(owner, Handled(t).s)
    /\ player' = [player EXCEPT ![t] = players']
    /\ currentDatabase' = [currentDatabase EXCEPT ![players'] =
                              targetDatabaseDefaultDatabase]
    /\ IF preparedConnQueue > 0
       THEN /\ preparedConnQueue' = preparedConnQueue - 1
            /\ targetConnection' = [targetConnection EXCEPT ![players'] =
                                  IF preparedConnDead THEN "dead" ELSE "open"]
            /\ targetDb' = [targetDb EXCEPT ![players'] = UrlDb]
       ELSE UNCHANGED <<preparedConnQueue, targetConnection, targetDb>>
    /\ tpc' = [tpc EXCEPT ![t] = "put"]
    /\ UNCHANGED <<proc, playerMap, preparedConnDead, tailed, requestQueue,
                   ppc, request, failures, executed, idle, mainVars, counter>>

MapPlayerBug(s, p) == UNCHANGED playerMap
MapPlayer(s, p) == playerMap' = [playerMap EXCEPT ![s] = p]

PutPlayer(t) ==
    /\ proc = "running"
    /\ tpc[t] = "put"
    /\ MapPlayer(Handled(t).s, player[t])
    /\ monitor' = "free"
    /\ tpc' = [tpc EXCEPT ![t] = "start"]
    /\ UNCHANGED <<proc, poolVars, players, tailed, player, owner,
                   requestQueue, playerVars, idle, mainVars, counter>>

StartPlayer(t) ==
    /\ proc = "running"
    /\ tpc[t] = "start"
    /\ ppc' = [ppc EXCEPT ![player[t]] = "init"]
    /\ Bump({"newSession"})
    /\ tpc' = [tpc EXCEPT ![t] = "push"]
    /\ UNCHANGED <<proc, mapVars, poolVars, players, tailed, player, owner,
                   requestQueue, request, failures, connVars, executed, idle,
                   mainVars>>

(* pushMysqlRequest: the size is tested first (beyond                      *)
(* SESSION_QUEUE_SIZE_DELAY the thread sleeps), the process ends when it   *)
(* is too large ...                                                        *)
QueueFullBug(p) == Len(requestQueue[p]) > SESSION_QUEUE_SIZE_ABORT + 1
QueueFull(p) == Len(requestQueue[p]) > SESSION_QUEUE_SIZE_ABORT

CheckQueue(t) ==
    /\ proc = "running"
    /\ tpc[t] = "push"
    /\ IF QueueFull(player[t])
       THEN proc' = "aborted" /\ UNCHANGED tpc
       ELSE tpc' = [tpc EXCEPT ![t] = "offer"] /\ UNCHANGED proc
    /\ UNCHANGED <<mapVars, poolVars, players, tailed, player, owner,
                   requestQueue, playerVars, idle, mainVars, counter>>

(* ... and the request is offered.                                         *)
Offer(t) ==
    /\ proc = "running"
    /\ tpc[t] = "offer"
    /\ requestQueue' = [requestQueue EXCEPT ![player[t]] = Append(@, tailed[t])]
    /\ tpc' = [tpc EXCEPT ![t] = IF CommandOf(Handled(t)) = COM_QUIT
                                 THEN "remove" ELSE "tail"]
    /\ UNCHANGED <<proc, mapVars, poolVars, players, tailed, player, owner,
                   playerVars, idle, mainVars, counter>>

(* A COM_QUIT takes the player out of the map.                             *)
UnmapBug(s) == UNCHANGED playerMap
Unmap(s) == playerMap' = [playerMap EXCEPT ![s] = 0]

RemovePlayer(t) ==
    /\ proc = "running"
    /\ tpc[t] = "remove"
    /\ monitor = "free"
    /\ Unmap(Handled(t).s)
    /\ Bump({"closeSession"})
    /\ tpc' = [tpc EXCEPT ![t] = "tail"]
    /\ UNCHANGED <<proc, monitor, poolVars, players, tailed, player, owner,
                   requestQueue, playerVars, idle, mainVars>>

-----------------------------------------------------------------------------
(* SQLPlayer.run, the thread of player p.                                  *)

(* USE db: the target accepts it for a database it has; with               *)
(* forceDefaultDatabase nothing is sent at all.                            *)
UseSucceeds(p, db) ==
    forceDefaultDatabase \/ (db \in TargetDbs /\ targetConnection[p] = "open")
SetDefaultDatabaseBug(p, db) ==
    /\ targetDb' = [targetDb EXCEPT ![p] =
                       IF UseSucceeds(p, db) THEN db ELSE targetDb[p]]
    /\ currentDatabase' = [currentDatabase EXCEPT ![p] = db]
SetDefaultDatabase(p, db) ==
    IF ~forceDefaultDatabase /\ UseSucceeds(p, db)
    THEN /\ targetDb' = [targetDb EXCEPT ![p] = db]
         /\ currentDatabase' = [currentDatabase EXCEPT ![p] = db]
    ELSE UNCHANGED <<targetDb, currentDatabase>>

(* initConnection over a connection that was prepared ...                  *)
InitPrepared(p) ==
    /\ proc = "running"
    /\ ppc[p] = "init"
    /\ targetConnection[p] # "null"
    /\ SetDefaultDatabase(p, currentDatabase[p])
    /\ ppc' = [ppc EXCEPT ![p] = "run"]
    /\ UNCHANGED <<proc, mapVars, poolVars, players, tailerVars, owner,
                   requestQueue, request, failures, targetConnection,
                   executed, idle, mainVars, counter>>

(* ... or that getConnection opens first; the USE follows.                 *)
Connect(p) ==
    /\ proc = "running"
    /\ ppc[p] = "init"
    /\ targetConnection[p] = "null"
    /\ targetConnection' = [targetConnection EXCEPT ![p] = "open"]
    /\ IF ~forceDefaultDatabase /\ currentDatabase[p] \in TargetDbs
       THEN targetDb' = [targetDb EXCEPT ![p] = currentDatabase[p]]
       ELSE targetDb' = [targetDb EXCEPT ![p] = UrlDb]
    /\ ppc' = [ppc EXCEPT ![p] = "run"]
    /\ UNCHANGED <<proc, mapVars, poolVars, players, tailerVars, owner,
                   requestQueue, request, failures, currentDatabase,
                   executed, idle, mainVars, counter>>

NextFailuresBug(n) == IF n >= MaxConnectRetries THEN 0 ELSE n + 1
NextFailures(n) == n + 1
GiveUpBug(n) == n > MaxConnectRetries + 1
GiveUp(n) == n > MaxConnectRetries

ConnectFails(p) ==
    /\ proc = "running"
    /\ ppc[p] = "init"
    /\ targetConnection[p] = "null"
    /\ failures' = [failures EXCEPT ![p] = NextFailures(@)]
    /\ proc' = IF GiveUp(failures'[p]) THEN "aborted" ELSE proc
    /\ UNCHANGED <<mapVars, poolVars, players, tailerVars, owner,
                   requestQueue, ppc, request, connVars, executed, idle,
                   mainVars, counter>>

(* requestQueue.poll(), and lastQueryExecuted is set.                      *)
DequeueBug(p) == UNCHANGED requestQueue
Dequeue(p) == requestQueue' = [requestQueue EXCEPT ![p] = Tail(@)]

Poll(p) ==
    /\ proc = "running"
    /\ ppc[p] = "run"
    /\ requestQueue[p] # <<>>
    /\ request' = [request EXCEPT ![p] = Head(requestQueue[p])]
    /\ Dequeue(p)
    /\ idle' = [idle EXCEPT ![p] = FALSE]
    /\ ppc' = [ppc EXCEPT ![p] = "busy"]
    /\ UNCHANGED <<proc, mapVars, poolVars, players, tailerVars, owner,
                   failures, connVars, executed, mainVars, counter>>

Document(p) == Stream[TailerOf[owner[p]]][request[p]]
CurrentCommand(p) ==
    IF request[p] = 0 THEN COM_QUIT ELSE CommandOf(Document(p))

(* The request is done and the next one is polled.                         *)
Replayed(p) ==
    /\ proc = "running"
    /\ ppc[p] = "busy"
    /\ ppc' = [ppc EXCEPT ![p] = "run"]
    /\ executed' = [executed EXCEPT ![p] = Append(@, request[p])]
    /\ UNCHANGED <<proc, mapVars, poolVars, players, tailerVars, owner,
                   requestQueue, request, failures, targetConnection, idle,
                   mainVars>>

(* What the target server answers to a query.  A broken connection is      *)
(* never replaced (nothing calls reconnect).                               *)
QueryResults(p) ==
    IF targetConnection[p] # "open" THEN {"other"}
    ELSE IF Document(p).tbl = NoTable THEN Outcomes
    ELSE IF targetDb[p] = NoDb THEN {"noinitdb"}
    ELSE IF Document(p).tbl \notin TablesOf[targetDb[p]] THEN {"tablenotfound"}
    ELSE Outcomes

(* The counters of a query's outcome, besides userRequest.                 *)
OutcomeCounters ==
    [ok             |-> {},
     slow           |-> {"longQuery"},
     tablenotfound  |-> {"playerError", "noInitDatabase"},
     columnnotfound |-> {"playerError", "noInitDatabase"},
     noinitdb       |-> {"playerError", "noInitDatabase"},
     duplicate      |-> {"playerError", "duplicateKey"},
     deadlock       |-> {"playerError", "deadlock"},
     locktimeout    |-> {"playerError", "lockTimeout"},
     other          |-> {"playerError"}]

(* handleNotFoundException: the first database that has the table and is   *)
(* not the one the player takes for the current one.                       *)
GuessedDbBug(p) == currentDatabase[p]
GuessedDb(p) ==
    LET dbs == tableDbMap[Document(p).tbl]
        others == {i \in DOMAIN dbs : dbs[i] # currentDatabase[p]}
    IN  IF others = {} THEN NoDb
        ELSE dbs[CHOOSE i \in others : \A j \in others : i <= j]

(* The message of an unknown column names the table only where the         *)
(* statement does.  A statement USE db sent as a query changes the         *)
(* target's session, and currentDatabase does not follow.                  *)
ExecuteQuery(p) ==
    /\ Replayed(p)
    /\ CurrentCommand(p) = COM_QUERY
    /\ \E o \in QueryResults(p) :
          /\ Bump({"userRequest"} \union OutcomeCounters[o])
          /\ CASE o = "tablenotfound" -> SetDefaultDatabase(p, GuessedDb(p))
               [] o = "columnnotfound" ->
                    \/ UNCHANGED <<targetDb, currentDatabase>>
                    \/ /\ Document(p).tbl # NoTable
                       /\ SetDefaultDatabase(p, GuessedDb(p))
               [] o = "noinitdb" -> SetDefaultDatabase(p, currentDatabase[p])
               [] o \in {"ok", "slow"} /\ Document(p).db \in TargetDbs ->
                    /\ targetDb' = [targetDb EXCEPT ![p] = Document(p).db]
                    /\ UNCHANGED currentDatabase
               [] OTHER -> UNCHANGED <<targetDb, currentDatabase>>

ExecuteInitDb(p) ==
    /\ Replayed(p)
    /\ CurrentCommand(p) = COM_INIT_DB
    /\ Document(p).db # NoDb
    /\ SetDefaultDatabase(p, Document(p).db)
    /\ IF forceDefaultDatabase THEN UNCHANGED counter
       ELSE Bump(IF UseSucceeds(p, Document(p).db) THEN {"userRequest"}
                 ELSE {"userRequest", "playerError"})

(* A login without a database, or COM_SET_OPTION: not handled.             *)
ExecuteOther(p) ==
    /\ Replayed(p)
    /\ \/ CurrentCommand(p) = COM_SET_OPTION
       \/ CurrentCommand(p) = COM_INIT_DB /\ Document(p).db = NoDb
    /\ UNCHANGED <<targetDb, currentDatabase, counter>>

ExecuteQuit(p) ==
    /\ proc = "running"
    /\ ppc[p] = "busy"
    /\ CurrentCommand(p) = COM_QUIT
    /\ ppc' = [ppc EXCEPT ![p] = "stopped"]
    /\ targetConnection' = [targetConnection EXCEPT ![p] = "closed"]
    /\ executed' = [executed EXCEPT ![p] = Append(@, request[p])]
    /\ UNCHANGED <<proc, mapVars, poolVars, players, tailerVars, owner,
                   requestQueue, request, failures, currentDatabase, targetDb,
                   idle, mainVars, counter>>

-----------------------------------------------------------------------------
(* The target server and time.                                             *)

ConnectionBreaks(p) ==
    /\ proc = "running"
    /\ ConnectionsBreak
    /\ targetConnection[p] = "open"
    /\ targetConnection' = [targetConnection EXCEPT ![p] = "dead"]
    /\ UNCHANGED <<proc, mapVars, poolVars, players, tailerVars, owner,
                   requestQueue, ppc, request, failures, currentDatabase,
                   targetDb, executed, idle, mainVars, counter>>

(* wait_timeout of the target passes for the prepared connections.         *)
PreparedConnectionsBreak ==
    /\ proc = "running"
    /\ ConnectionsBreak
    /\ preparedConnQueue > 0 /\ ~preparedConnDead
    /\ preparedConnDead' = TRUE
    /\ UNCHANGED <<proc, mapVars, preparedConnQueue, players, tailerVars,
                   owner, requestQueue, playerVars, idle, mainVars, counter>>

(* 30 minutes pass without a poll by p, whatever p is doing.               *)
BecomesIdle(p) ==
    /\ proc = "running"
    /\ IdleExpiry
    /\ p <= players
    /\ ~idle[p] /\ ppc[p] # "stopped"
    /\ idle' = [idle EXCEPT ![p] = TRUE]
    /\ UNCHANGED <<proc, mapVars, poolVars, players, tailerVars, owner,
                   requestQueue, playerVars, mainVars, counter>>

-----------------------------------------------------------------------------
(* closeIdleSession, once a second in the main thread, under the monitor   *)
(* of playerMap.  A round that finds nobody idle changes nothing and is    *)
(* left out; so is the limit of 10000 entries per round.                   *)

CloseIdleSession ==
    /\ proc = "running"
    /\ mpc = "sleep"
    /\ monitor = "free"
    /\ \E s \in Sessions : playerMap[s] # 0 /\ idle[playerMap[s]]
    /\ monitor' = "main"
    /\ unvisited' = {s \in Sessions : playerMap[s] # 0}
    /\ mpc' = "iterate"
    /\ UNCHANGED <<proc, playerMap, poolVars, players, tailerVars, owner,
                   requestQueue, playerVars, idle, idleSQLPlayer, counter>>

VisitEntry(s) ==
    /\ proc = "running"
    /\ mpc = "iterate"
    /\ s \in unvisited
    /\ unvisited' = unvisited \ {s}
    /\ IF idle[playerMap[s]]
       THEN /\ idleSQLPlayer' = playerMap[s]
            /\ Unmap(s)
            /\ mpc' = "drain"
       ELSE UNCHANGED <<playerMap, idleSQLPlayer, mpc>>
    /\ UNCHANGED <<proc, monitor, poolVars, players, tailerVars, owner,
                   requestQueue, playerVars, idle, counter>>

(* pushUrgentMysqlRequest: poll until the queue is seen empty ...          *)
DrainQueue ==
    /\ proc = "running"
    /\ mpc = "drain"
    /\ IF requestQueue[idleSQLPlayer] = <<>>
       THEN mpc' = "quit" /\ UNCHANGED requestQueue
       ELSE Dequeue(idleSQLPlayer) /\ UNCHANGED mpc
    /\ UNCHANGED <<proc, mapVars, poolVars, players, tailerVars, owner,
                   playerVars, idle, unvisited, idleSQLPlayer, counter>>

(* ... then offer the artificial QUIT.                                     *)
OfferQuitBug == UNCHANGED requestQueue
OfferQuit ==
    requestQueue' = [requestQueue EXCEPT ![idleSQLPlayer] = Append(@, 0)]
PushUrgentQuit ==
    /\ proc = "running"
    /\ mpc = "quit"
    /\ OfferQuit
    /\ Bump({"closeSession"})
    /\ mpc' = "iterate"
    /\ UNCHANGED <<proc, mapVars, poolVars, players, tailerVars, owner,
                   playerVars, idle, unvisited, idleSQLPlayer>>

CloseDone ==
    /\ proc = "running"
    /\ mpc = "iterate"
    /\ unvisited = {}
    /\ monitor' = "free"
    /\ mpc' = "sleep"
    /\ UNCHANGED <<proc, playerMap, poolVars, players, tailerVars, owner,
                   requestQueue, playerVars, idle, unvisited, idleSQLPlayer,
                   counter>>

-----------------------------------------------------------------------------
(* Nothing is left to do, or the process has ended.                        *)
Finished ==
    /\ \/ proc = "aborted"
       \/ /\ \A t \in Tailers : tpc[t] = "tail" /\ tailed[t] = Len(Stream[t])
          /\ \A p \in PlayerIds :
                /\ ppc[p] \in {"new", "run", "stopped"}
                /\ ppc[p] # "stopped" => requestQueue[p] = <<>>
    /\ UNCHANGED vars

(* The rest of pushEvent2Player, behind the lookup.                        *)
PushNext(t) ==
    \/ NewPlayer(t) \/ PutPlayer(t) \/ StartPlayer(t)
    \/ CheckQueue(t) \/ Offer(t) \/ RemovePlayer(t)
TailerNext(t) == GetPlayer(t) \/ PushNext(t)

PlayerNext(p) ==
    \/ InitPrepared(p) \/ Connect(p) \/ ConnectFails(p) \/ Poll(p)
    \/ ExecuteQuery(p) \/ ExecuteInitDb(p) \/ ExecuteOther(p) \/ ExecuteQuit(p)

MainNext ==
    \/ CloseIdleSession \/ DrainQueue \/ PushUrgentQuit \/ CloseDone
    \/ \E s \in Sessions : VisitEntry(s)

Next ==
    \/ \E t \in Tailers : TailerNext(t)
    \/ \E p \in PlayerIds : PlayerNext(p) \/ ConnectionBreaks(p) \/ BecomesIdle(p)
    \/ MainNext
    \/ PreparedConnectionsBreak
    \/ Finished

Spec == Init /\ [][Next]_vars

(***************************************************************************)
(* Fairness: the JVM runs every thread, every JDBC call returns or throws, *)
(* and a thread that waits for the monitor, which is held only for a       *)
(* moment, gets it (strong fairness).  Connecting may fail until the       *)
(* process gives up.                                                       *)
(***************************************************************************)
Fairness ==
    /\ \A t \in Tailers : SF_vars(TailerNext(t))
    /\ \A p \in PlayerIds : WF_vars(PlayerNext(p))
    /\ SF_vars(MainNext)

FairSpec == Spec /\ Fairness

-----------------------------------------------------------------------------
(* Properties.                                                             *)

TypeOK ==
    /\ proc \in {"running", "aborted"}
    /\ playerMap \in [Sessions -> PlayerIds \union {0}]
    /\ monitor \in Tailers \union {"free", "main"}
    /\ preparedConnQueue \in Nat /\ preparedConnDead \in BOOLEAN
    /\ players \in PlayerIds \union {0}
    /\ tailed \in [Tailers -> Nat]
    /\ tpc \in [Tailers -> {"tail", "new", "put", "start", "push", "offer",
                            "remove"}]
    /\ player \in [Tailers -> PlayerIds \union {0}]
    /\ owner \in Seq(Sessions) /\ Len(owner) = players
    /\ requestQueue \in [PlayerIds -> Seq(Nat)]
    /\ ppc \in [PlayerIds -> {"new", "init", "run", "busy", "stopped"}]
    /\ request \in [PlayerIds -> Nat]
    /\ failures \in [PlayerIds -> 0 .. MaxConnectRetries + 1]
    /\ targetConnection \in
          [PlayerIds -> {"null", "open", "dead", "closed"}]
    /\ currentDatabase \in [PlayerIds -> Databases \union {NoDb}]
    /\ targetDb \in [PlayerIds -> Databases \union {NoDb}]
    /\ idle \in [PlayerIds -> BOOLEAN]
    /\ mpc \in {"sleep", "iterate", "drain", "quit"}
    /\ unvisited \subseteq Sessions
    /\ idleSQLPlayer \in PlayerIds \union {0}
    /\ counter \in [Counters -> Nat]
    /\ executed \in [PlayerIds -> Seq(Nat)]

(* Everything that was pushed to p and not drained, oldest first.          *)
Taken(p) == executed[p]
            \o (IF ppc[p] = "busy" THEN <<request[p]>> ELSE <<>>)
            \o requestQueue[p]
TakenSet(p) == {Taken(p)[i] : i \in DOMAIN Taken(p)}
IsQuit(p, n) == n = 0 \/ Stream[TailerOf[owner[p]]][n].c = COM_QUIT
Ending(p) == ppc[p] = "stopped" \/ \E n \in TakenSet(p) : IsQuit(p, n)

(* A player replays requests of one session only, in the order in which    *)
(* they were captured, none twice; also when the idle check drains its     *)
(* queue while the tailer goes on pushing.                                 *)
SessionOrder ==
    \A p \in 1 .. players :
        \A i, j \in DOMAIN Taken(p) :
            Taken(p)[i] # 0 /\ Taken(p)[j] # 0 =>
                /\ i < j => Taken(p)[i] < Taken(p)[j]
                /\ Stream[TailerOf[owner[p]]][Taken(p)[i]].s = owner[p]

(* Each SQLPlayer is an ordered relay from the tailer of its session to    *)
(* the target server: it replays requests that were tailed already, in     *)
(* the order of the collection, none twice.  The artificial QUIT of the    *)
(* idle check is the last thing it does, and is no request of the stream.  *)
Replays(p) ==
    LET last == Len(executed[p])
    IN  IF last > 0 /\ executed[p][last] = 0 THEN SubSeq(executed[p], 1, last - 1)
        ELSE executed[p]
Relay == INSTANCE OrderedRelay WITH
             Flows <- PlayerIds, Restartable <- {},
             in <- [p \in PlayerIds |-> IF p > players THEN 0
                                        ELSE tailed[TailerOf[owner[p]]]],
             out <- [p \in PlayerIds |-> Replays(p)]
PlayerRelays == Relay!Spec

(* A request that a tailer has finished with, but for the QUIT of a        *)
(* session without player, is replayed or waits in the queue of a player   *)
(* of its session that will come to it.                                    *)
NothingLost ==
    \A t \in Tailers : \A n \in 1 .. tailed[t] :
        /\ n < tailed[t] \/ tpc[t] = "tail"
        /\ Stream[t][n].c # COM_QUIT
        /\ proc = "running"
        => \E p \in 1 .. players :
              /\ owner[p] = Stream[t][n].s
              /\ n \in TakenSet(p)
              /\ ppc[p] = "stopped" =>
                    \E i \in DOMAIN executed[p] : executed[p][i] = n

(* A session has one player that goes on, also when its address is used    *)
(* by a new connection while the player of the old one is still busy.      *)
OnePlayerPerSession ==
    \A p, q \in 1 .. players :
        p # q /\ owner[p] = owner[q] => Ending(p) \/ Ending(q)

(* The queue of a player at its limit: the test before the offer lets one  *)
(* request more in than the limit says, but the QUIT of the idle check,    *)
(* which is offered without a test, never comes on top of that.            *)
QueueBounded ==
    \A p \in PlayerIds :
        Len(requestQueue[p]) <= SESSION_QUEUE_SIZE_ABORT + 1

(* Every request is replayed in the end unless the process gives up.       *)
RequestsReplayed ==
    \A t \in Tailers : \A n \in DOMAIN Stream[t] :
        Stream[t][n].c # COM_QUIT =>
            <>(\/ proc = "aborted"
               \/ \E p \in 1 .. players :
                     /\ owner[p] = Stream[t][n].s
                     /\ \E i \in DOMAIN executed[p] : executed[p][i] = n)

(* A thread whose player is no longer in the map comes to its end and      *)
(* closes its connection to the target: no thread and no connection leaks. *)
UnmappedPlayersStop ==
    \A p \in PlayerIds :
        (ppc[p] \in {"init", "run", "busy"} /\ playerMap[owner[p]] # p)
            ~> (ppc[p] = "stopped" \/ proc = "aborted")

(* The database a player takes for the current one is the one its session  *)
(* on the target server has, whatever logins, COM_INIT_DBs, guesses and    *)
(* failures it has been through, as long as no client sends a USE          *)
(* statement.                                                              *)
DatabaseKnown ==
    \A p \in PlayerIds :
        ppc[p] \in {"run", "busy"} /\ targetConnection[p] = "open" =>
            currentDatabase[p] = targetDb[p]

(* After a query failed because its table is not in the current database,  *)
(* the session is in a database that has the table, if there is one.       *)
GuessFindsTable ==
    [][\A p \in PlayerIds :
          /\ executed'[p] # executed[p]
          /\ CurrentCommand(p) = COM_QUERY
          /\ QueryResults(p) = {"tablenotfound"}
          /\ tableDbMap[Document(p).tbl] # <<>>
          => Document(p).tbl \in TablesOf[targetDb'[p]]]_vars
=============================================================================
