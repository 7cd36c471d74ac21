------------------------ MODULE PlayerDatabaseProofs ------------------------
(***************************************************************************)
(* Proofs about the default database of a session: the one the SQLPlayer   *)
(* takes for the current one (currentDatabase) is the one the target       *)
(* server has, so that the guess after an unknown table finds it.          *)
(***************************************************************************)
EXTENDS PlayerProofs

(* No client sends a USE statement that the target would accept: it would  *)
(* change the database of the target's session behind the player's back.   *)
NoUseStatement ==
    \A t \in Tailers : \A n \in 1 .. Len(Stream[t]) :
        Stream[t][n].c = COM_QUERY => Stream[t][n].db \notin TargetDbs

(* A player starts in the database its connection starts in: it uses the   *)
(* default database first, or the URL of the connection names that one.    *)
StartsKnown ==
    \/ targetDatabaseDefaultDatabase \in TargetDbs /\ ~forceDefaultDatabase
    \/ UrlDb = targetDatabaseDefaultDatabase

(* Before the connection is set up both are what they were created with;   *)
(* afterwards they agree as long as the connection is there.               *)
Follows(p) ==
    /\ ppc[p] \in {"new", "init"} =>
          /\ currentDatabase[p] = targetDatabaseDefaultDatabase
          /\ targetConnection[p] = "open" => targetDb[p] = UrlDb
    /\ ppc[p] \in {"run", "busy"} /\ targetConnection[p] = "open" =>
          currentDatabase[p] = targetDb[p]

DatabaseInv == /\ OrderInv /\ NoUseStatement /\ StartsKnown
               /\ \A p \in 1 .. players : Follows(p)

LEMMA DatabaseInit == Init /\ NoUseStatement /\ StartsKnown => DatabaseInv
<1>1. Init => players = 0
  BY DEF Init
<1>2. QED  BY <1>1, OrderInit DEF DatabaseInv

(* A step that leaves the databases of p alone.                            *)
LEMMA FollowsStays ==
    ASSUME NEW p \in 1 .. players, Follows(p),
           currentDatabase'[p] = currentDatabase[p], targetDb'[p] = targetDb[p],
           targetConnection'[p] = "open" => targetConnection[p] = "open",
           \/ ppc'[p] \in {ppc[p], "stopped"}
           \/ ppc[p] = "new" /\ ppc'[p] = "init"
           \/ ppc[p] \in {"run", "busy"} /\ ppc'[p] \in {"run", "busy"}
    PROVE  Follows(p)'
BY DEF Follows

LEMMA UntouchedKeepsDatabase ==
    ASSUME DatabaseInv, OrderInv', UNCHANGED <<players, ppc, connVars>>
    PROVE  DatabaseInv'
BY FollowsStays DEF DatabaseInv, connVars

(* A player is made, put into the map, started, given a request, removed.  *)
LEMMA PushKeepsDatabase ==
    ASSUME DatabaseInv, NEW t \in Tailers, PushNext(t)
    PROVE  DatabaseInv'
<1>1. OrderInv' /\ BaseInv /\ DispatchOK /\ ReplayOK
  BY PushNextKeepsOrder, TypeParts DEF DatabaseInv, OrderInv, BaseInv
<1>2. CASE NewPlayer(t)
  <2>1. /\ players \in Nat /\ players' = players + 1 /\ players' \in PlayerIds
        /\ UNCHANGED ppc
    BY <1>1, <1>2, OptionsAssumption DEF NewPlayer, DispatchOK, PlayerIds
  <2>2. PICK n \in PlayerIds : n = players'
    BY <2>1
  <2>3. /\ currentDatabase' = [currentDatabase EXCEPT ![n] = targetDatabaseDefaultDatabase]
        /\ \/ UNCHANGED <<targetConnection, targetDb>>
           \/ \E c \in {"open", "dead"} :
                /\ targetConnection' = [targetConnection EXCEPT ![n] = c]
                /\ targetDb' = [targetDb EXCEPT ![n] = UrlDb]
    BY <1>2, <2>2 DEF NewPlayer
  <2>4. n > players /\ ppc[n] = "new" /\ targetConnection[n] = "null"
    BY <1>1, <2>1, <2>2 DEF BaseInv, Fresh
  <2>5. Follows(n)'
    BY <1>1, <2>1, <2>3, <2>4 DEF Follows, ReplayOK
  <2>6. ASSUME NEW p \in 1 .. players PROVE Follows(p)'
    <3>0. p \in PlayerIds
      BY <1>1, PlayerFacts
    <3>1. p \in PlayerIds /\ p # n
      BY <2>1, <2>4, <3>0 DEF PlayerIds
    <3>2. /\ currentDatabase'[p] = currentDatabase[p] /\ targetDb'[p] = targetDb[p]
          /\ targetConnection'[p] = targetConnection[p]
      BY <1>1, <2>3, <3>1 DEF ReplayOK
    <3>3. QED  BY <2>1, <3>2, FollowsStays DEF DatabaseInv
  <2>7. \A p \in 1 .. players' : p \in 1 .. players \/ p = n
    BY <2>1, <2>2
  <2>8. QED  BY <1>1, <2>5, <2>6, <2>7 DEF DatabaseInv
<1>3. CASE StartPlayer(t)
  <2>1. /\ UNCHANGED <<players, currentDatabase, targetDb, targetConnection>>
        /\ ppc[player[t]] = "new" /\ ppc' = [ppc EXCEPT ![player[t]] = "init"]
    BY <1>1, <1>3 DEF StartPlayer, connVars, BaseInv, Held
  <2>2. ASSUME NEW p \in 1 .. players PROVE Follows(p)'
    <3>1. p \in PlayerIds
      BY <1>1, PlayerFacts
    <3>2. ppc'[p] = ppc[p] \/ (ppc[p] = "new" /\ ppc'[p] = "init")
      BY <1>1, <2>1, <3>1 DEF ReplayOK
    <3>3. QED  BY <2>1, <3>2, FollowsStays DEF DatabaseInv
  <2>3. QED  BY <1>1, <2>1, <2>2 DEF DatabaseInv
<1>4. CASE PutPlayer(t) \/ CheckQueue(t) \/ Offer(t) \/ RemovePlayer(t)
  <2>1. UNCHANGED <<players, ppc, connVars>>
    BY <1>4 DEF PutPlayer, CheckQueue, Offer, RemovePlayer, playerVars
  <2>2. QED  BY <1>1, <2>1, UntouchedKeepsDatabase
<1>5. QED  BY <1>2, <1>3, <1>4 DEF PushNext

(* A step of player p alone.                                               *)
LEMMA OneFollows ==
    ASSUME DatabaseInv, OrderInv', NEW p \in 1 .. players, Follows(p)',
           UNCHANGED players,
           \A q \in PlayerIds \ {p} :
               /\ ppc'[q] = ppc[q] /\ currentDatabase'[q] = currentDatabase[q]
               /\ targetDb'[q] = targetDb[q]
               /\ targetConnection'[q] = targetConnection[q]
    PROVE  DatabaseInv'
<1>1. ASSUME NEW q \in 1 .. players, q # p PROVE Follows(q)'
  <2>1. q \in PlayerIds
    BY PlayerFacts DEF DatabaseInv, OrderInv
  <2>2. QED  BY <1>1, <2>1, FollowsStays DEF DatabaseInv
<1>2. QED  BY <1>1 DEF DatabaseInv

(* SetDefaultDatabase tells the target and notes it, or does neither.      *)
LEMMA SetDefaultDatabaseFollows ==
    ASSUME ReplayOK, NEW p \in PlayerIds, NEW db, SetDefaultDatabase(p, db)
    PROVE  /\ \A q \in PlayerIds \ {p} : /\ currentDatabase'[q] = currentDatabase[q]
                                         /\ targetDb'[q] = targetDb[q]
           /\ \/ UNCHANGED <<targetDb, currentDatabase>>
              \/ targetDb'[p] = db /\ currentDatabase'[p] = db
BY DEF SetDefaultDatabase, ReplayOK

(* The connection is set up.                                               *)
LEMMA InitKeepsDatabase ==
    ASSUME DatabaseInv, NEW p \in PlayerIds,
           InitPrepared(p) \/ Connect(p) \/ ConnectFails(p)
    PROVE  DatabaseInv'
<1>1. OrderInv' /\ BaseInv /\ DispatchOK /\ ReplayOK
  BY PlayerNextKeepsOrder, TypeParts DEF PlayerNext, DatabaseInv, OrderInv, BaseInv
<1>2. p \in 1 .. players /\ ppc[p] = "init"
  BY <1>1 DEF BaseInv, Fresh, DispatchOK, PlayerIds, InitPrepared, Connect, ConnectFails
<1>3. /\ currentDatabase[p] = targetDatabaseDefaultDatabase
      /\ targetConnection[p] = "open" => targetDb[p] = UrlDb
  BY <1>2 DEF DatabaseInv, Follows
<1>4. CASE InitPrepared(p)
  <2>1. /\ SetDefaultDatabase(p, targetDatabaseDefaultDatabase)
        /\ ppc' = [ppc EXCEPT ![p] = "run"] /\ UNCHANGED <<players, targetConnection>>
    BY <1>3, <1>4 DEF InitPrepared
  <2>2. /\ ppc'[p] = "run" /\ \A q \in PlayerIds \ {p} : ppc'[q] = ppc[q]
    BY <1>1, <2>1 DEF ReplayOK
  <2>3. Follows(p)'
    <3>1. SUFFICES ASSUME targetConnection[p] = "open"
                   PROVE  currentDatabase'[p] = targetDb'[p]
      BY <2>1, <2>2 DEF Follows
    <3>2. CASE ~forceDefaultDatabase /\ targetDatabaseDefaultDatabase \in TargetDbs
      BY <1>1, <2>1, <3>1, <3>2 DEF SetDefaultDatabase, UseSucceeds, ReplayOK
    <3>3. CASE ~(~forceDefaultDatabase /\ targetDatabaseDefaultDatabase \in TargetDbs)
      <4>1. UNCHANGED <<targetDb, currentDatabase>>
        BY <2>1, <3>3 DEF SetDefaultDatabase, UseSucceeds
      <4>2. UrlDb = targetDatabaseDefaultDatabase
        BY <3>3 DEF DatabaseInv, StartsKnown
      <4>3. QED  BY <1>3, <3>1, <4>1, <4>2
    <3>4. QED  BY <3>2, <3>3
  <2>4. QED
    BY <1>1, <1>2, <2>1, <2>2, <2>3, SetDefaultDatabaseFollows, OneFollows
<1>5. CASE Connect(p)
  <2>1. /\ targetDb' = [targetDb EXCEPT ![p] =
                           IF ~forceDefaultDatabase /\ currentDatabase[p] \in TargetDbs
                           THEN currentDatabase[p] ELSE UrlDb]
        /\ targetConnection' = [targetConnection EXCEPT ![p] = "open"]
        /\ ppc' = [ppc EXCEPT ![p] = "run"] /\ UNCHANGED <<players, currentDatabase>>
    BY <1>5 DEF Connect
  <2>2. /\ ppc'[p] = "run" /\ currentDatabase'[p] = targetDb'[p]
        /\ \A q \in PlayerIds \ {p} :
              /\ ppc'[q] = ppc[q] /\ targetDb'[q] = targetDb[q]
              /\ targetConnection'[q] = targetConnection[q]
    BY <1>1, <1>3, <2>1 DEF ReplayOK, DatabaseInv, StartsKnown
  <2>3. Follows(p)'
    BY <2>2 DEF Follows
  <2>4. QED  BY <1>1, <1>2, <2>1, <2>2, <2>3, OneFollows
<1>6. CASE ConnectFails(p)
  <2>1. UNCHANGED <<players, ppc, connVars>>
    BY <1>6 DEF ConnectFails
  <2>2. QED  BY <1>1, <2>1, UntouchedKeepsDatabase
<1>7. QED  BY <1>4, <1>5, <1>6

(* A query of player p is no USE statement.                                *)
LEMMA QueryIsNoUse ==
    ASSUME DatabaseInv, NEW p \in 1 .. players, ppc[p] = "busy",
           CurrentCommand(p) = COM_QUERY
    PROVE  /\ request[p] \in 1 .. Len(Stream[TailerOf[owner[p]]])
           /\ Document(p) \in Request /\ Document(p).db \notin TargetDbs
<1>1. BaseInv /\ OrderOf(p)
  BY DEF DatabaseInv, OrderInv
<1>2. request[p] # 0 /\ Document(p).c = COM_QUERY
  BY DEF CurrentCommand, CommandOf, COM_QUERY, COM_QUIT, COM_INIT_DB, COM_LOGIN
<1>3. PICK t \in Tailers : t = TailerOf[owner[p]]
  BY <1>1, PlayerFacts
<1>4. Known(p, request[p])
  BY <1>1 DEF OrderOf, GivenIsKnown
<1>5. request[p] \in 1 .. Done(t) /\ Done(t) \in Nat
  BY <1>1, <1>2, <1>3, <1>4, PlayerFacts DEF Known, Of
<1>6. tailed[t] \in Nat /\ tailed[t] <= Len(Stream[t]) /\ Len(Stream[t]) \in Nat
  <2>1. DispatchOK /\ Positions
    BY <1>1, TypeParts DEF BaseInv
  <2>2. Stream[t] \in Seq(Request)
    BY StreamAssumption
  <2>3. QED  BY <2>1, <2>2 DEF DispatchOK, Positions
<1>7. request[p] \in 1 .. Len(Stream[t])
  BY <1>5, <1>6 DEF Done
<1>8. QED
  BY <1>2, <1>3, <1>7, StreamDocuments DEF DatabaseInv, NoUseStatement, Document

(* A request is replayed.                                                  *)
LEMMA ExecuteKeepsDatabase ==
    ASSUME DatabaseInv, NEW p \in PlayerIds, Execute(p)
    PROVE  DatabaseInv'
<1>1. OrderInv' /\ BaseInv /\ DispatchOK /\ ReplayOK
  BY ExecuteKeepsOrder, TypeParts DEF DatabaseInv, OrderInv, BaseInv
<1>2. p \in 1 .. players /\ ppc[p] = "busy"
  BY <1>1, ExecuteStep DEF BaseInv, Fresh, DispatchOK, PlayerIds
<1>3. /\ UNCHANGED players /\ ppc'[p] \in {"run", "stopped"}
      /\ targetConnection'[p] = "open" => targetConnection[p] = "open"
      /\ \A q \in PlayerIds \ {p} :
            ppc'[q] = ppc[q] /\ targetConnection'[q] = targetConnection[q]
  BY <1>1, ExecuteStep DEF ReplayOK, PlayerFrame
<1>4. \/ \E db : SetDefaultDatabase(p, db)
      \/ UNCHANGED <<targetDb, currentDatabase>>
  <2>1. CASE ExecuteQuery(p)
    <3>1. Document(p).db \notin TargetDbs
      BY <1>2, <2>1, QueryIsNoUse DEF ExecuteQuery
    <3>2. QED  BY <2>1, <3>1, QueryChoices
  <2>2. CASE ExecuteInitDb(p)
    BY <2>2 DEF ExecuteInitDb
  <2>3. CASE ExecuteOther(p) \/ ExecuteQuit(p)
    BY <2>3 DEF ExecuteOther, ExecuteQuit
  <2>4. QED  BY <2>1, <2>2, <2>3 DEF Execute
<1>5. /\ \A q \in PlayerIds \ {p} : /\ currentDatabase'[q] = currentDatabase[q]
                                    /\ targetDb'[q] = targetDb[q]
      /\ \/ UNCHANGED <<targetDb, currentDatabase>>
         \/ targetDb'[p] = currentDatabase'[p]
  BY <1>1, <1>4, SetDefaultDatabaseFollows
<1>6. Follows(p)'
  BY <1>2, <1>3, <1>5 DEF Follows, DatabaseInv
<1>7. QED  BY <1>1, <1>2, <1>3, <1>5, <1>6, OneFollows

LEMMA PlayerNextKeepsDatabase ==
    ASSUME DatabaseInv, NEW p \in PlayerIds, PlayerNext(p)
    PROVE  DatabaseInv'
<1>1. CASE Poll(p)
  <2>1. OrderInv' /\ BaseInv /\ DispatchOK /\ ReplayOK
    BY <1>1, PollKeepsOrder, TypeParts DEF DatabaseInv, OrderInv, BaseInv
  <2>2. /\ UNCHANGED <<players, connVars>> /\ ppc[p] = "run"
        /\ ppc' = [ppc EXCEPT ![p] = "busy"]
    BY <1>1 DEF Poll
  <2>3. ASSUME NEW q \in 1 .. players PROVE Follows(q)'
    <3>1. q \in PlayerIds
      BY <2>1, PlayerFacts
    <3>2. ppc'[q] = ppc[q] \/ (ppc[q] = "run" /\ ppc'[q] = "busy")
      BY <2>1, <2>2, <3>1 DEF ReplayOK
    <3>3. QED  BY <2>2, <3>2, FollowsStays DEF DatabaseInv, connVars
  <2>4. QED  BY <2>1, <2>2, <2>3 DEF DatabaseInv
<1>2. QED
  BY <1>1, InitKeepsDatabase, ExecuteKeepsDatabase DEF PlayerNext, Execute

(* The target cuts a connection.                                           *)
LEMMA BreakKeepsDatabase ==
    ASSUME DatabaseInv, OrderInv', NEW p \in PlayerIds, ConnectionBreaks(p)
    PROVE  DatabaseInv'
<1>1. BaseInv /\ ReplayOK
  BY TypeParts DEF DatabaseInv, OrderInv, BaseInv
<1>2. /\ UNCHANGED <<players, ppc, currentDatabase, targetDb>>
      /\ \A q \in PlayerIds :
            targetConnection'[q] = "open" => targetConnection[q] = "open"
  BY <1>1 DEF ConnectionBreaks, ReplayOK
<1>3. ASSUME NEW q \in 1 .. players PROVE Follows(q)'
  <2>1. q \in PlayerIds
    BY <1>1, PlayerFacts
  <2>2. QED  BY <1>2, <2>1, FollowsStays DEF DatabaseInv
<1>4. QED  BY <1>2, <1>3 DEF DatabaseInv

LEMMA DatabaseNext == DatabaseInv /\ [Next]_vars => DatabaseInv'
<1> SUFFICES ASSUME DatabaseInv, [Next]_vars PROVE DatabaseInv'
  OBVIOUS
<1>1. OrderInv'
  BY OrderNext DEF DatabaseInv
<1>2. CASE UNCHANGED <<players, ppc, connVars>>
  BY <1>1, <1>2, UntouchedKeepsDatabase
<1>3. ASSUME NEW t \in Tailers, GetPlayer(t) PROVE DatabaseInv'
  BY <1>2, <1>3 DEF GetPlayer, TakeRequest, playerVars
<1>4. CASE MainNext
  BY <1>2, <1>4 DEF MainNext, CloseIdleSession, DrainQueue, PushUrgentQuit, CloseDone,
     VisitEntry, playerVars
<1>5. CASE \/ PreparedConnectionsBreak \/ Finished \/ UNCHANGED vars
           \/ \E p \in PlayerIds : BecomesIdle(p)
  BY <1>2, <1>5
  DEF PreparedConnectionsBreak, Finished, BecomesIdle, vars, replayVars, playerVars
<1>6. QED
  BY <1>1, <1>3, <1>4, <1>5, PushKeepsDatabase, PlayerNextKeepsDatabase,
     BreakKeepsDatabase DEF Next, TailerNext

LEMMA FollowsGivesKnown ==
    ASSUME DatabaseInv
    PROVE  DatabaseKnown
<1>1. SUFFICES ASSUME NEW p \in PlayerIds, ppc[p] \in {"run", "busy"},
                      targetConnection[p] = "open"
               PROVE  currentDatabase[p] = targetDb[p]
  BY DEF DatabaseKnown
<1>2. BaseInv /\ DispatchOK
  BY TypeParts DEF DatabaseInv, OrderInv, BaseInv
<1>3. p \in 1 .. players
  BY <1>1, <1>2 DEF BaseInv, Fresh, DispatchOK, PlayerIds
<1>4. QED  BY <1>1, <1>3 DEF DatabaseInv, Follows

(* Through logins, COM_INIT_DBs the target refuses, guesses, queries that  *)
(* fail and connections that are cut, a player knows the default database  *)
(* of its session, if no client sends a USE statement and a connection     *)
(* starts in the database the player thinks it does.                       *)
THEOREM DatabaseStaysKnown ==
    Spec /\ NoUseStatement /\ StartsKnown => []DatabaseKnown
<1>1. QED  BY FollowsGivesKnown, DatabaseInit, DatabaseNext, PTL DEF Spec

-----------------------------------------------------------------------------
(* A query whose only answer is that its table does not exist was sent     *)
(* over an open connection, in a database without the table.               *)
LEMMA TableNotFound ==
    ASSUME NEW p \in PlayerIds, QueryResults(p) = {"tablenotfound"}
    PROVE  /\ targetConnection[p] = "open" /\ Document(p).tbl # NoTable
           /\ targetDb[p] # NoDb /\ Document(p).tbl \notin TablesOf[targetDb[p]]
<1>1. Outcomes # {"tablenotfound"} /\ {"other"} # {"tablenotfound"}
      /\ {"noinitdb"} # {"tablenotfound"}
  <2>1. "tablenotfound" \notin Outcomes
    BY OptionsAssumption
  <2>2. QED  BY <2>1
<1>2. QED  BY <1>1 DEF QueryResults

(* The guess: none of the databases of the table is the current one, so    *)
(* the first of them is taken.                                             *)
LEMMA GuessHasTable ==
    ASSUME NEW p \in PlayerIds, NEW tbl \in Tables, tbl = Document(p).tbl,
           tableDbMap[tbl] # <<>>, tbl \notin TablesOf[currentDatabase[p]]
    PROVE  GuessedDb(p) \in TargetDbs /\ tbl \in TablesOf[GuessedDb(p)]
<1> DEFINE dbs == tableDbMap[tbl]
           others == {i \in DOMAIN dbs : dbs[i] # currentDatabase[p]}
<1>1. /\ dbs \in Seq(TargetDbs) /\ dbs # <<>>
      /\ {dbs[i] : i \in DOMAIN dbs} \subseteq {d \in TargetDbs : tbl \in TablesOf[d]}
  BY TargetAssumption
<1>2. GuessedDb(p) = IF others = {} THEN NoDb
                     ELSE dbs[CHOOSE i \in others : \A j \in others : i <= j]
  BY DEF GuessedDb
<1> HIDE DEF dbs
<1>3. DOMAIN dbs = 1 .. Len(dbs) /\ Len(dbs) \in Nat /\ Len(dbs) > 0
  BY <1>1
<1>4. \A i \in DOMAIN dbs : dbs[i] \in TargetDbs /\ tbl \in TablesOf[dbs[i]]
  BY <1>1
<1>5. others = 1 .. Len(dbs)
  BY <1>3, <1>4
<1> HIDE DEF others
<1>6. 1 \in others /\ \A j \in others : 1 <= j
  BY <1>3, <1>5
<1>7. (CHOOSE i \in others : \A j \in others : i <= j) \in others
  BY <1>6
<1>8. QED  BY <1>2, <1>3, <1>4, <1>5, <1>6, <1>7

(* The statement of GuessFindsTable for one step.                          *)
LEMMA GuessStep ==
    ASSUME DatabaseInv, ~forceDefaultDatabase, NEW p \in PlayerIds, ExecuteQuery(p),
           QueryResults(p) = {"tablenotfound"}, tableDbMap[Document(p).tbl] # <<>>
    PROVE  Document(p).tbl \in TablesOf[targetDb'[p]]
<1>1. BaseInv /\ DispatchOK /\ ReplayOK
  BY TypeParts DEF DatabaseInv, OrderInv, BaseInv
<1>2. p \in 1 .. players /\ ppc[p] = "busy" /\ CurrentCommand(p) = COM_QUERY
  BY <1>1 DEF BaseInv, Fresh, DispatchOK, PlayerIds, ExecuteQuery, Replayed
<1>3. /\ targetConnection[p] = "open" /\ Document(p).tbl # NoTable
      /\ Document(p).tbl \notin TablesOf[targetDb[p]]
  BY TableNotFound
<1>4. currentDatabase[p] = targetDb[p]
  BY <1>2, <1>3 DEF DatabaseInv, Follows
<1>5. Document(p).tbl \in Tables
  BY <1>2, <1>3, QueryIsNoUse DEF Request
<1>6. GuessedDb(p) \in TargetDbs /\ Document(p).tbl \in TablesOf[GuessedDb(p)]
  BY <1>3, <1>4, <1>5, GuessHasTable
<1>7. SetDefaultDatabase(p, GuessedDb(p))
  BY DEF ExecuteQuery
<1>8. targetDb'[p] = GuessedDb(p)
  BY <1>1, <1>3, <1>6, <1>7 DEF SetDefaultDatabase, UseSucceeds, ReplayOK
<1>9. QED  BY <1>6, <1>8

(* A step replays a request of p only if it is a step of p's thread.       *)
LEMMA OnlyExecuteReplays ==
    ASSUME BaseInv, [Next]_vars, NEW p \in PlayerIds, executed'[p] # executed[p],
           CurrentCommand(p) = COM_QUERY
    PROVE  ExecuteQuery(p)
<1>1. ReplayOK
  BY TypeParts DEF BaseInv
<1>2. ASSUME UNCHANGED executed PROVE FALSE
  BY <1>2
<1>3. ASSUME NEW q \in PlayerIds, PlayerNext(q) PROVE ExecuteQuery(p)
  <2>1. Execute(q)
    BY <1>2, <1>3 DEF PlayerNext, Execute, InitPrepared, Connect, ConnectFails, Poll
  <2>2. q = p
    BY <1>1, <2>1, ExecuteStep DEF ReplayOK
  <2>3. QED
    BY <2>1, <2>2 DEF Execute, ExecuteInitDb, ExecuteOther, ExecuteQuit, COM_QUERY,
       COM_INIT_DB, COM_SET_OPTION, COM_QUIT
<1>4. ASSUME NEW t \in Tailers, TailerNext(t) PROVE FALSE
  BY <1>2, <1>4 DEF TailerNext, GetPlayer, TakeRequest, PushNext, NewPlayer, PutPlayer,
     StartPlayer, CheckQueue, Offer, RemovePlayer, playerVars
<1>5. CASE MainNext
  BY <1>2, <1>5 DEF MainNext, CloseIdleSession, DrainQueue, PushUrgentQuit, CloseDone,
     VisitEntry, playerVars
<1>6. CASE \/ PreparedConnectionsBreak \/ Finished \/ UNCHANGED vars
           \/ \E q \in PlayerIds : BecomesIdle(q) \/ ConnectionBreaks(q)
  BY <1>2, <1>6
  DEF PreparedConnectionsBreak, Finished, BecomesIdle, ConnectionBreaks, vars,
      replayVars, playerVars
<1>7. QED  BY <1>3, <1>4, <1>5, <1>6 DEF Next

(* After a query that failed for want of its table, the session is in a    *)
(* database that has the table whenever the catalogue knows one: the guess *)
(* never picks the database it is leaving, nor one without the table.      *)
THEOREM GuessesFindTables ==
    Spec /\ NoUseStatement /\ StartsKnown /\ ~forceDefaultDatabase => GuessFindsTable
<1> DEFINE Found ==
      \A p \in PlayerIds :
          /\ executed'[p] # executed[p]
          /\ CurrentCommand(p) = COM_QUERY
          /\ QueryResults(p) = {"tablenotfound"}
          /\ tableDbMap[Document(p).tbl] # <<>>
          => Document(p).tbl \in TablesOf[targetDb'[p]]
           NoForce == ~forceDefaultDatabase
<1>1. DatabaseInv /\ NoForce /\ [Next]_vars => [Found]_vars
  <2>1. SUFFICES ASSUME DatabaseInv, NoForce, [Next]_vars PROVE Found
    OBVIOUS
  <2>2. BaseInv
    BY <2>1 DEF DatabaseInv, OrderInv
  <2>3. QED  BY <2>1, <2>2, OnlyExecuteReplays, GuessStep
<1>2. NoForce => NoForce'
  OBVIOUS
<1>3. QED
  BY <1>1, <1>2, DatabaseInit, DatabaseNext, PTL DEF Spec, GuessFindsTable
=============================================================================
