---------------------------- MODULE PlayerProofs ----------------------------
(***************************************************************************)
(* Proofs about pushEvent2Player, the SQLPlayer threads and the idle check *)
(* for any number of tailers, sessions, players and requests.              *)
(***************************************************************************)
EXTENDS Player, TLAPS

(* A tailer that has looked a player up and not finished with it.          *)
Holding == {"put", "start", "push", "offer", "remove"}
(* A tailer that has taken a request and not pushed it yet.                *)
Pushing == {"new", "put", "start", "push", "offer"}

(* A tailer in pushEvent2Player handles a document of its stream.          *)
Positions ==
    \A t \in Tailers : /\ tailed[t] <= Len(Stream[t])
                       /\ tpc[t] # "tail" => tailed[t] >= 1

(* The player a tailer holds is one of the session it handles, and has     *)
(* not been started before it is.                                          *)
Held ==
    \A t \in Tailers :
        /\ tpc[t] \in Holding => /\ player[t] \in 1 .. players
                                 /\ owner[player[t]] = Handled(t).s
        /\ tpc[t] \in {"put", "start"} => ppc[player[t]] = "new"

(* The map leads a session to a player of its own.                         *)
Mapped ==
    \A s \in Sessions :
        playerMap[s] # 0 => /\ playerMap[s] \in 1 .. players
                            /\ owner[playerMap[s]] = s

(* playerMap is written by the holder of its monitor.                      *)
Locked ==
    /\ mpc # "sleep" => monitor = "main"
    /\ \A t \in Tailers : tpc[t] = "put" => monitor = t

(* The idle check goes through players that are in the map; the one it is  *)
(* closing is not.                                                         *)
Visiting ==
    /\ mpc # "sleep" => \A s \in unvisited : playerMap[s] # 0
    /\ mpc \in {"drain", "quit"} =>
           /\ idleSQLPlayer \in 1 .. players
           /\ playerMap[owner[idleSQLPlayer]] = 0

(* Players that do not exist yet.                                          *)
Fresh ==
    \A p \in PlayerIds :
        p > players => /\ ppc[p] = "new" /\ targetConnection[p] = "null"
                       /\ requestQueue[p] = <<>> /\ executed[p] = <<>>

(* A process that has failed to connect too often does not run.            *)
NotGivenUp ==
    proc = "running" => \A p \in PlayerIds : failures[p] <= MaxConnectRetries

BaseInv ==
    /\ TypeOK /\ Positions /\ Held /\ Mapped /\ Locked /\ Visiting
    /\ Fresh /\ NotGivenUp

(* TypeOK in parts: the Boolean variables, what the tailers and the idle   *)
(* check use, and what belongs to the players.                             *)
FlagsOK == preparedConnDead \in BOOLEAN /\ idle \in [PlayerIds -> BOOLEAN]
DispatchOK ==
    /\ proc \in {"running", "aborted"}
    /\ playerMap \in [Sessions -> PlayerIds \union {0}]
    /\ monitor \in Tailers \union {"free", "main"}
    /\ preparedConnQueue \in Nat
    /\ players \in PlayerIds \union {0}
    /\ tailed \in [Tailers -> Nat]
    /\ tpc \in [Tailers -> {"tail", "new", "put", "start", "push", "offer",
                            "remove"}]
    /\ player \in [Tailers -> PlayerIds \union {0}]
    /\ owner \in Seq(Sessions) /\ Len(owner) = players
    /\ mpc \in {"sleep", "iterate", "drain", "quit"}
    /\ unvisited \subseteq Sessions
    /\ idleSQLPlayer \in PlayerIds \union {0}
ReplayOK ==
    /\ requestQueue \in [PlayerIds -> Seq(Nat)]
    /\ ppc \in [PlayerIds -> {"new", "init", "run", "busy", "stopped"}]
    /\ request \in [PlayerIds -> Nat]
    /\ failures \in [PlayerIds -> 0 .. MaxConnectRetries + 1]
    /\ targetConnection \in
          [PlayerIds -> {"null", "open", "dead", "closed"}]
    /\ currentDatabase \in [PlayerIds -> Databases \union {NoDb}]
    /\ targetDb \in [PlayerIds -> Databases \union {NoDb}]
    /\ executed \in [PlayerIds -> Seq(Nat)]
CounterOK == counter \in [Counters -> Nat]

(* The parts make up TypeOK.                                               *)
LEMMA TypeParts ==
    /\ TypeOK <=> FlagsOK /\ DispatchOK /\ ReplayOK /\ CounterOK
    /\ TypeOK' <=> FlagsOK' /\ DispatchOK' /\ ReplayOK' /\ CounterOK'
BY Zenon DEF TypeOK, FlagsOK, DispatchOK, ReplayOK, CounterOK

(* A document of a stream belongs to a session of that stream's tailer.    *)
LEMMA StreamDocuments ==
    ASSUME NEW t \in Tailers, NEW n \in 1 .. Len(Stream[t])
    PROVE  /\ Stream[t][n] \in Request
           /\ Stream[t][n].s \in Sessions /\ Stream[t][n].c \in Commands
           /\ TailerOf[Stream[t][n].s] = t
<1>1. /\ Stream[t] \in Seq(Request)
      /\ \A k \in DOMAIN Stream[t] : TailerOf[Stream[t][k].s] = t
  BY StreamAssumption
<1>2. n \in DOMAIN Stream[t] /\ Stream[t][n] \in Request
  BY <1>1
<1>3. QED  BY <1>1, <1>2 DEF Request

(* The invariant holds initially.                                          *)
LEMMA BaseInit == Init => BaseInv
<1> SUFFICES ASSUME Init PROVE BaseInv
  OBVIOUS
<1> USE StreamAssumption, OptionsAssumption DEF Init
<1>1. FlagsOK
  BY Zenon DEF FlagsOK
<1>2. DispatchOK
  BY DEF DispatchOK
<1>3. ReplayOK
  BY DEF ReplayOK, PlayerIds
<1>4. CounterOK
  BY DEF CounterOK
<1>5. Positions /\ Held /\ Mapped /\ Locked /\ Visiting
  BY DEF Positions, Held, Mapped, Locked, Visiting, Holding
<1>6. Fresh /\ NotGivenUp
  BY DEF Fresh, NotGivenUp
<1>7. QED
  BY <1>1, <1>2, <1>3, <1>4, <1>5, <1>6, TypeParts DEF BaseInv

(* A tailer takes a request further down its stream and looks its session  *)
(* up.                                                                     *)
LEMMA TakeRequestKeeps ==
    ASSUME BaseInv, NEW t \in Tailers, NEW n \in 1 .. Len(Stream[t]),
           n > tailed[t], TakeRequest(t, n)
    PROVE  BaseInv'
<1> USE StreamAssumption, OptionsAssumption DEF BaseInv
<1> DEFINE r == Stream[t][n]
<1>1. r \in Request /\ r.s \in Sessions
  BY StreamDocuments
<1>2. PICK p \in Lookup(t, r.s) :
          /\ player' = [player EXCEPT ![t] = p]
          /\ tpc' = [tpc EXCEPT ![t] =
                        IF p # 0 THEN "push"
                        ELSE IF CommandOf(r) = COM_QUIT THEN "tail"
                        ELSE "new"]
  BY DEF TakeRequest
<1>3. p = 0 \/ (p = playerMap[r.s] /\ p \in 1 .. players /\ owner[p] = r.s)
  BY <1>1 DEF Lookup, Mapped
<1>4. FlagsOK'
  BY Zenon, TypeParts DEF FlagsOK, TakeRequest, poolVars
<1>5. DispatchOK'
  <2>1. DispatchOK /\ p \in PlayerIds \union {0}
    BY <1>1, <1>3, TypeParts DEF DispatchOK
  <2>2. /\ player' \in [Tailers -> PlayerIds \union {0}]
        /\ tpc' \in [Tailers -> {"tail", "new", "put", "start", "push", "offer",
                                 "remove"}]
    BY <1>2, <2>1 DEF DispatchOK
  <2>3. tailed' \in [Tailers -> Nat]
    BY <2>1 DEF DispatchOK, TakeRequest
  <2>4. QED
    BY <2>1, <2>2, <2>3 DEF DispatchOK, TakeRequest, mapVars, poolVars, mainVars
<1>6. ReplayOK'
  BY TypeParts DEF ReplayOK, TakeRequest, playerVars, connVars
<1>7. CounterOK'
  BY TypeParts DEF CounterOK, TakeRequest
<1>8. Positions'
  BY <1>2, TypeParts DEF DispatchOK, Positions, TakeRequest
<1>9. Held'
  BY <1>2, <1>3, TypeParts DEF DispatchOK, Held, Holding, Handled, TakeRequest, playerVars
<1>10. Mapped' /\ Locked' /\ Visiting'
  BY <1>2, TypeParts DEF DispatchOK, Mapped, Locked, Visiting, TakeRequest, mapVars, mainVars
<1>11. Fresh' /\ NotGivenUp'
  BY DEF Fresh, NotGivenUp, TakeRequest, playerVars, connVars
<1>12. QED
  BY <1>4, <1>5, <1>6, <1>7, <1>8, <1>9, <1>10, <1>11, TypeParts

(* The document a tailer in pushEvent2Player handles.                      *)
LEMMA HandledDocument ==
    ASSUME DispatchOK, Positions, NEW t \in Tailers, tpc[t] # "tail"
    PROVE  /\ tailed[t] \in 1 .. Len(Stream[t])
           /\ Handled(t).s \in Sessions /\ TailerOf[Handled(t).s] = t
<1>1. Len(Stream[t]) \in Nat
  BY StreamAssumption
<1>2. tailed[t] \in 1 .. Len(Stream[t])
  BY <1>1 DEF DispatchOK, Positions
<1>3. QED  BY <1>2, StreamDocuments DEF Handled

(* A player is created under the monitor.                                  *)
LEMMA NewPlayerKeeps ==
    ASSUME BaseInv, NEW t \in Tailers, NewPlayer(t)
    PROVE  BaseInv'
<1> USE DEF BaseInv
<1>0. DispatchOK /\ ReplayOK
  BY TypeParts
<1>1. Handled(t).s \in Sessions
  BY <1>0, HandledDocument DEF NewPlayer
<1>2. /\ players' = players + 1 /\ players' \in PlayerIds
      /\ players \in Nat
  BY <1>0, OptionsAssumption DEF NewPlayer, DispatchOK, PlayerIds
<1>3. /\ owner' \in Seq(Sessions) /\ Len(owner') = players'
      /\ \A p \in 1 .. players : owner'[p] = owner[p]
      /\ owner'[players'] = Handled(t).s
  BY <1>0, <1>1, <1>2 DEF NewPlayer, DispatchOK
<1>4. FlagsOK'
  BY Zenon, TypeParts DEF FlagsOK, NewPlayer
<1>5. DispatchOK'
  BY <1>0, <1>2, <1>3, StreamAssumption DEF DispatchOK, NewPlayer, mainVars
<1>6. /\ ReplayOK'
      /\ \A p \in PlayerIds \ {players'} : targetConnection'[p] = targetConnection[p]
  <2>1. UrlDb \in Databases \union {NoDb}
    BY OptionsAssumption, TargetAssumption
  <2>2. targetDb' \in [PlayerIds -> Databases \union {NoDb}]
    BY <1>0, <1>2, <2>1 DEF ReplayOK, NewPlayer
  <2>3. /\ targetConnection' \in [PlayerIds -> {"null", "open", "dead", "closed"}]
        /\ \A p \in PlayerIds \ {players'} : targetConnection'[p] = targetConnection[p]
    BY <1>0, <1>2 DEF ReplayOK, NewPlayer
  <2>4. currentDatabase' \in [PlayerIds -> Databases \union {NoDb}]
    BY <1>0, <1>2, OptionsAssumption DEF ReplayOK, NewPlayer
  <2>5. QED  BY <1>0, <2>2, <2>3, <2>4 DEF ReplayOK, NewPlayer
<1>7. CounterOK'
  BY TypeParts DEF CounterOK, NewPlayer
<1>8. Positions'
  BY <1>0 DEF DispatchOK, Positions, NewPlayer
<1>9. Held'
  BY <1>0, <1>2, <1>3 DEF DispatchOK, Held, Holding, Handled, Fresh, NewPlayer, PlayerIds
<1>10. Mapped'
  BY <1>0, <1>2, <1>3 DEF DispatchOK, Mapped, NewPlayer
<1>11. Locked'
  BY <1>0, StreamAssumption DEF DispatchOK, Locked, NewPlayer, mainVars
<1>12. Visiting'
  BY <1>0, StreamAssumption DEF DispatchOK, Locked, Visiting, NewPlayer, mainVars
<1>13. Fresh'
  BY <1>2, <1>6 DEF PlayerIds, Fresh, NewPlayer
<1>14. NotGivenUp'
  BY DEF NotGivenUp, NewPlayer
<1>15. QED
  BY <1>4, <1>5, <1>6, <1>7, <1>8, <1>9, <1>10, <1>11, <1>12, <1>13, <1>14, TypeParts

(* The new player is put into the map.                                     *)
LEMMA PutPlayerKeeps ==
    ASSUME BaseInv, NEW t \in Tailers, PutPlayer(t)
    PROVE  BaseInv'
<1> USE DEF BaseInv
<1>0. DispatchOK /\ ReplayOK
  BY TypeParts
<1>1. Handled(t).s \in Sessions
  BY <1>0, HandledDocument DEF PutPlayer
<1>2. /\ player[t] \in 1 .. players /\ player[t] \in PlayerIds
      /\ owner[player[t]] = Handled(t).s
  BY <1>0 DEF DispatchOK, Held, Holding, PutPlayer, PlayerIds
<1>3. mpc = "sleep" /\ \A u \in Tailers \ {t} : tpc[u] # "put"
  BY StreamAssumption DEF Locked, PutPlayer
<1>4. FlagsOK'
  BY Zenon, TypeParts DEF FlagsOK, PutPlayer, poolVars
<1>5. DispatchOK'
  BY <1>0, <1>1, <1>2 DEF DispatchOK, PutPlayer, MapPlayer, poolVars, mainVars
<1>6. ReplayOK'
  BY <1>0 DEF ReplayOK, PutPlayer, playerVars, connVars
<1>7. CounterOK'
  BY TypeParts DEF CounterOK, PutPlayer
<1>8. Positions' /\ Held'
  BY <1>0 DEF DispatchOK, Positions, Held, Holding, Handled, PutPlayer, playerVars
<1>9. Mapped'
  BY <1>0, <1>1, <1>2 DEF DispatchOK, Mapped, PutPlayer, MapPlayer
<1>10. Locked' /\ Visiting'
  BY <1>0, <1>3 DEF DispatchOK, Locked, Visiting, PutPlayer, mainVars
<1>11. Fresh' /\ NotGivenUp'
  BY DEF Fresh, NotGivenUp, PutPlayer, playerVars, connVars
<1>12. QED
  BY <1>4, <1>5, <1>6, <1>7, <1>8, <1>9, <1>10, <1>11, TypeParts

(* Counting leaves natural numbers.                                        *)
LEMMA BumpKeeps ==
    ASSUME CounterOK, NEW names, Bump(names)
    PROVE  CounterOK'
BY DEF CounterOK, Bump

(* The thread of a new player is started.                                  *)
LEMMA StartPlayerKeeps ==
    ASSUME BaseInv, NEW t \in Tailers, StartPlayer(t)
    PROVE  BaseInv'
<1> USE DEF BaseInv
<1>0. DispatchOK /\ ReplayOK
  BY TypeParts
<1>1. player[t] \in 1 .. players /\ player[t] \in PlayerIds
  BY <1>0 DEF DispatchOK, Held, Holding, StartPlayer, PlayerIds
<1>2. \A u \in Tailers \ {t} : tpc[u] \in {"put", "start"} => player[u] # player[t]
  BY <1>0, HandledDocument DEF Held, Holding, StartPlayer
<1>4. FlagsOK'
  BY Zenon, TypeParts DEF FlagsOK, StartPlayer, poolVars
<1>5. DispatchOK'
  BY <1>0 DEF DispatchOK, StartPlayer, mapVars, poolVars, mainVars
<1>6. ReplayOK'
  BY <1>0, <1>1 DEF ReplayOK, StartPlayer, connVars
<1>7. CounterOK'
  BY TypeParts, BumpKeeps DEF StartPlayer
<1>8. Positions'
  BY <1>0 DEF DispatchOK, Positions, StartPlayer
<1>9. Held'
  BY <1>0, <1>1, <1>2 DEF DispatchOK, ReplayOK, Held, Holding, Handled, StartPlayer, PlayerIds
<1>10. Mapped' /\ Locked' /\ Visiting'
  BY <1>0 DEF DispatchOK, Mapped, Locked, Visiting, StartPlayer, mapVars, mainVars
<1>11. Fresh' /\ NotGivenUp'
  BY <1>0, <1>1 DEF DispatchOK, ReplayOK, Fresh, NotGivenUp, StartPlayer, connVars, PlayerIds
<1>12. QED
  BY <1>4, <1>5, <1>6, <1>7, <1>8, <1>9, <1>10, <1>11, TypeParts

(* The size of the queue is tested.                                        *)
LEMMA CheckQueueKeeps ==
    ASSUME BaseInv, NEW t \in Tailers, CheckQueue(t)
    PROVE  BaseInv'
<1> USE DEF BaseInv
<1>0. DispatchOK /\ ReplayOK
  BY TypeParts
<1>1. tpc' = tpc \/ tpc' = [tpc EXCEPT ![t] = "offer"]
  BY DEF CheckQueue
<1>4. FlagsOK'
  BY Zenon, TypeParts DEF FlagsOK, CheckQueue, poolVars
<1>5. DispatchOK'
  BY <1>0 DEF DispatchOK, CheckQueue, mapVars, poolVars, mainVars
<1>6. ReplayOK'
  BY <1>0 DEF ReplayOK, CheckQueue, playerVars, connVars
<1>7. CounterOK'
  BY TypeParts DEF CounterOK, CheckQueue
<1>8. Positions' /\ Held'
  BY <1>0, <1>1 DEF DispatchOK, Positions, Held, Holding, Handled, CheckQueue, playerVars
<1>9. Mapped' /\ Locked' /\ Visiting'
  BY <1>0, <1>1 DEF DispatchOK, Mapped, Locked, Visiting, CheckQueue, mapVars, mainVars
<1>10. Fresh' /\ NotGivenUp'
  BY DEF Fresh, NotGivenUp, CheckQueue, playerVars, connVars
<1>11. QED
  BY <1>4, <1>5, <1>6, <1>7, <1>8, <1>9, <1>10, TypeParts

(* A request is offered.                                                   *)
LEMMA OfferKeeps ==
    ASSUME BaseInv, NEW t \in Tailers, Offer(t)
    PROVE  BaseInv'
<1> USE DEF BaseInv
<1>0. DispatchOK /\ ReplayOK
  BY TypeParts
<1>1. player[t] \in 1 .. players /\ player[t] \in PlayerIds
  BY <1>0 DEF DispatchOK, Held, Holding, Offer, PlayerIds
<1>2. \/ tpc' = [tpc EXCEPT ![t] = "remove"]
      \/ tpc' = [tpc EXCEPT ![t] = "tail"]
  BY DEF Offer
<1>4. FlagsOK'
  BY Zenon, TypeParts DEF FlagsOK, Offer, poolVars
<1>5. DispatchOK'
  BY <1>0, <1>2 DEF DispatchOK, Offer, mapVars, poolVars, mainVars
<1>6. ReplayOK'
  <2>1. Append(requestQueue[player[t]], tailed[t]) \in Seq(Nat)
    BY <1>0, <1>1 DEF DispatchOK, ReplayOK
  <2>2. requestQueue' \in [PlayerIds -> Seq(Nat)]
    BY <1>0, <1>1, <2>1 DEF ReplayOK, Offer
  <2>3. QED  BY <1>0, <2>2 DEF ReplayOK, Offer, playerVars, connVars
<1>7. CounterOK'
  BY TypeParts DEF CounterOK, Offer
<1>8. Positions' /\ Held'
  BY <1>0, <1>2 DEF DispatchOK, Positions, Held, Holding, Handled, Offer, playerVars
<1>9. Mapped' /\ Locked' /\ Visiting'
  BY <1>0, <1>2 DEF DispatchOK, Mapped, Locked, Visiting, Offer, mapVars, mainVars
<1>10. Fresh' /\ NotGivenUp'
  BY <1>0, <1>1 DEF DispatchOK, ReplayOK, Fresh, NotGivenUp, Offer, playerVars, connVars, PlayerIds
<1>11. QED
  BY <1>4, <1>5, <1>6, <1>7, <1>8, <1>9, <1>10, TypeParts

(* A QUIT takes its session out of the map.                                *)
LEMMA RemovePlayerKeeps ==
    ASSUME BaseInv, NEW t \in Tailers, RemovePlayer(t)
    PROVE  BaseInv'
<1> USE DEF BaseInv
<1>0. DispatchOK /\ ReplayOK
  BY TypeParts
<1>1. Handled(t).s \in Sessions
  BY <1>0, HandledDocument DEF RemovePlayer
<1>4. FlagsOK'
  BY Zenon, TypeParts DEF FlagsOK, RemovePlayer, poolVars
<1>5. DispatchOK'
  BY <1>0, <1>1 DEF DispatchOK, RemovePlayer, Unmap, poolVars, mainVars
<1>6. ReplayOK'
  BY <1>0 DEF ReplayOK, RemovePlayer, playerVars, connVars
<1>7. CounterOK'
  BY TypeParts, BumpKeeps DEF RemovePlayer
<1>8. Positions' /\ Held'
  BY <1>0 DEF DispatchOK, Positions, Held, Holding, Handled, RemovePlayer, playerVars
<1>9. Mapped' /\ Locked' /\ Visiting'
  BY <1>0, <1>1 DEF DispatchOK, Mapped, Locked, Visiting, RemovePlayer, Unmap, mainVars
<1>10. Fresh' /\ NotGivenUp'
  BY DEF Fresh, NotGivenUp, RemovePlayer, playerVars, connVars
<1>11. QED
  BY <1>4, <1>5, <1>6, <1>7, <1>8, <1>9, <1>10, TypeParts

(* USE db changes the databases of a player to one the target has, or not  *)
(* at all.                                                                 *)
DatabasesOK == /\ currentDatabase \in [PlayerIds -> Databases \union {NoDb}]
               /\ targetDb \in [PlayerIds -> Databases \union {NoDb}]

LEMMA SetDefaultDatabaseKeeps ==
    ASSUME DatabasesOK, NEW p \in PlayerIds, NEW db, SetDefaultDatabase(p, db)
    PROVE  DatabasesOK'
<1>1. CASE UNCHANGED <<targetDb, currentDatabase>>
  BY <1>1 DEF DatabasesOK
<1>2. CASE /\ db \in TargetDbs
           /\ targetDb' = [targetDb EXCEPT ![p] = db]
           /\ currentDatabase' = [currentDatabase EXCEPT ![p] = db]
  BY <1>2, TargetAssumption DEF DatabasesOK
<1>3. QED  BY <1>1, <1>2 DEF SetDefaultDatabase, UseSucceeds

(* A step of player p, of the target server or of time that concerns p     *)
(* only.                                                                   *)
LEMMA PlayerStepKeeps ==
    ASSUME BaseInv, NEW p \in PlayerIds, TypeOK', NotGivenUp',
           UNCHANGED <<mapVars, players, tailerVars, owner, mainVars>>,
           \/ ppc[p] # "new"
           \/ ppc' = ppc /\ targetConnection[p] # "null",
           \A q \in PlayerIds \ {p} :
               /\ ppc'[q] = ppc[q] /\ targetConnection'[q] = targetConnection[q]
               /\ requestQueue'[q] = requestQueue[q] /\ executed'[q] = executed[q]
    PROVE  BaseInv'
<1> USE DEF BaseInv
<1>0. DispatchOK
  BY TypeParts
<1>1. p <= players
  BY <1>0 DEF Fresh, DispatchOK, PlayerIds
<1>2. Positions' /\ Mapped' /\ Locked' /\ Visiting'
  BY DEF Positions, Mapped, Locked, Visiting, mapVars, tailerVars, mainVars
<1>3. Held'
  BY <1>0 DEF DispatchOK, Held, Holding, Handled, tailerVars, PlayerIds
<1>4. Fresh'
  BY <1>0, <1>1 DEF DispatchOK, Fresh, PlayerIds
<1>5. QED  BY <1>2, <1>3, <1>4

(* The frame that the actions of a player have in common.                  *)
PlayerFrame ==
    UNCHANGED <<mapVars, poolVars, players, tailerVars, owner, mainVars>>

LEMMA PlayerTypes ==
    ASSUME TypeOK, PlayerFrame, proc' \in {"running", "aborted"}
    PROVE  /\ DispatchOK'
           /\ UNCHANGED idle => FlagsOK'
           /\ UNCHANGED counter => CounterOK'
<1>1. DispatchOK'
  BY TypeParts DEF DispatchOK, PlayerFrame, mapVars, poolVars, tailerVars, mainVars
<1>2. UNCHANGED idle => FlagsOK'
  BY Zenon, TypeParts DEF FlagsOK, PlayerFrame, poolVars
<1>3. UNCHANGED counter => CounterOK'
  BY TypeParts DEF CounterOK
<1>4. QED  BY <1>1, <1>2, <1>3

(* The connection is set up, or not.                                       *)
LEMMA InitKeeps ==
    ASSUME BaseInv, NEW p \in PlayerIds,
           InitPrepared(p) \/ Connect(p) \/ ConnectFails(p)
    PROVE  BaseInv'
<1> USE DEF BaseInv
<1>0. DispatchOK /\ ReplayOK /\ DatabasesOK
  BY TypeParts DEF ReplayOK, DatabasesOK
<1>1. /\ PlayerFrame /\ UNCHANGED idle /\ UNCHANGED counter
      /\ proc' \in {"running", "aborted"} /\ ppc[p] # "new"
  BY DEF InitPrepared, Connect, ConnectFails, PlayerFrame
<1>2. /\ DatabasesOK'
      /\ targetConnection' \in [PlayerIds -> {"null", "open", "dead", "closed"}]
  <2>1. CASE InitPrepared(p)
    BY <1>0, <2>1, SetDefaultDatabaseKeeps DEF InitPrepared, ReplayOK
  <2>2. CASE Connect(p)
    BY <1>0, <2>2, OptionsAssumption, TargetAssumption DEF Connect, ReplayOK, DatabasesOK
  <2>3. CASE ConnectFails(p)
    BY <1>0, <2>3 DEF ConnectFails, ReplayOK, DatabasesOK, connVars
  <2>4. QED  BY <2>1, <2>2, <2>3
<1>3. failures' \in [PlayerIds -> 0 .. MaxConnectRetries + 1] /\ NotGivenUp'
  <2>1. CASE ConnectFails(p)
    BY <1>0, <2>1, OptionsAssumption DEF ConnectFails, NextFailures, GiveUp, ReplayOK, NotGivenUp
  <2>2. CASE UNCHANGED <<failures, proc>>
    BY <1>0, <2>2 DEF ReplayOK, NotGivenUp
  <2>3. QED  BY <2>1, <2>2 DEF InitPrepared, Connect
<1>4. ReplayOK'
  BY <1>0, <1>2, <1>3 DEF ReplayOK, DatabasesOK, InitPrepared, Connect, ConnectFails, connVars
<1>5. TypeOK'
  BY <1>1, <1>4, PlayerTypes, TypeParts
<1>6. \A q \in PlayerIds \ {p} :
          /\ ppc'[q] = ppc[q] /\ targetConnection'[q] = targetConnection[q]
          /\ requestQueue'[q] = requestQueue[q] /\ executed'[q] = executed[q]
  BY <1>0 DEF ReplayOK, InitPrepared, Connect, ConnectFails, connVars
<1>7. QED
  BY <1>1, <1>3, <1>5, <1>6, PlayerStepKeeps DEF PlayerFrame

(* The next request is polled.                                             *)
LEMMA PollKeeps ==
    ASSUME BaseInv, NEW p \in PlayerIds, Poll(p)
    PROVE  BaseInv'
<1> USE DEF BaseInv
<1>0. DispatchOK /\ ReplayOK
  BY TypeParts
<1>1. PlayerFrame /\ UNCHANGED counter /\ UNCHANGED proc /\ ppc[p] # "new"
  BY DEF Poll, PlayerFrame
<1>2. FlagsOK'
  BY Zenon, TypeParts DEF FlagsOK, Poll, poolVars
<1>3. Head(requestQueue[p]) \in Nat /\ Tail(requestQueue[p]) \in Seq(Nat)
  BY <1>0 DEF ReplayOK, Poll
<1>4. ReplayOK'
  BY <1>0, <1>3 DEF ReplayOK, Poll, Dequeue, connVars
<1>5. TypeOK'
  BY <1>0, <1>1, <1>2, <1>4, PlayerTypes, TypeParts DEF DispatchOK
<1>6. NotGivenUp'
  BY DEF NotGivenUp, Poll
<1>7. \A q \in PlayerIds \ {p} :
          /\ ppc'[q] = ppc[q] /\ targetConnection'[q] = targetConnection[q]
          /\ requestQueue'[q] = requestQueue[q] /\ executed'[q] = executed[q]
  BY <1>0 DEF ReplayOK, Poll, Dequeue, connVars
<1>8. QED
  BY <1>1, <1>5, <1>6, <1>7, PlayerStepKeeps DEF PlayerFrame

(* A request is replayed, or ends the thread.                              *)
Execute(p) ==
    ExecuteQuery(p) \/ ExecuteInitDb(p) \/ ExecuteOther(p) \/ ExecuteQuit(p)

(* What the requests have in common.                                       *)
LEMMA ExecuteStep ==
    ASSUME NEW p \in PlayerIds, Execute(p)
    PROVE  /\ proc = "running" /\ ppc[p] = "busy" /\ PlayerFrame
           /\ UNCHANGED <<proc, requestQueue, request, failures, idle>>
           /\ executed' = [executed EXCEPT ![p] = Append(@, request[p])]
           /\ \/ ppc' = [ppc EXCEPT ![p] = "run"] /\ CurrentCommand(p) # COM_QUIT
              \/ ppc' = [ppc EXCEPT ![p] = "stopped"] /\ CurrentCommand(p) = COM_QUIT
           /\ \/ UNCHANGED targetConnection
              \/ targetConnection' = [targetConnection EXCEPT ![p] = "closed"]
BY DEF Execute, ExecuteQuery, ExecuteInitDb, ExecuteOther, ExecuteQuit,
       Replayed, PlayerFrame, COM_QUIT, COM_QUERY, COM_INIT_DB, COM_SET_OPTION

(* What a query may come to: the target is told to use a database and the  *)
(* player notes it, nothing changes, or the query was a USE statement.     *)
LEMMA QueryChoices ==
    ASSUME NEW p \in PlayerIds, ExecuteQuery(p)
    PROVE  /\ \E names : Bump(names)
           /\ \/ \E db : SetDefaultDatabase(p, db)
              \/ UNCHANGED <<targetDb, currentDatabase>>
              \/ /\ Document(p).db \in TargetDbs
                 /\ targetDb' = [targetDb EXCEPT ![p] = Document(p).db]
                 /\ UNCHANGED currentDatabase
<1>1. PICK o \in QueryResults(p) :
          /\ Bump({"userRequest"} \union OutcomeCounters[o])
          /\ CASE o = "tablenotfound" -> SetDefaultDatabase(p, GuessedDb(p))
               [] o = "columnnotfound" ->
                    \/ UNCHANGED <<targetDb, currentDatabase>>
                    \/ /\ Document(p).tbl # NoTable
                       /\ SetDefaultDatabase(p, GuessedDb(p))
               [] o = "noinitdb" -> SetDefaultDatabase(p, currentDatabase[p])
               [] o \in {"ok", "slow"} /\ Document(p).db \in TargetDbs ->
                    /\ targetDb' = [targetDb EXCEPT ![p] = Document(p).db]
                    /\ UNCHANGED currentDatabase
               [] OTHER -> UNCHANGED <<targetDb, currentDatabase>>
  BY DEF ExecuteQuery
<1>2. CASE o = "tablenotfound"   BY <1>1, <1>2
<1>3. CASE o = "columnnotfound"  BY <1>1, <1>3
<1>4. CASE o = "noinitdb"        BY <1>1, <1>4
<1>5. CASE o \in {"ok", "slow"} /\ Document(p).db \in TargetDbs
  BY <1>1, <1>5
<1>6. CASE /\ o \notin {"tablenotfound", "columnnotfound", "noinitdb"}
           /\ ~(o \in {"ok", "slow"} /\ Document(p).db \in TargetDbs)
  BY <1>1, <1>6
<1>7. QED  BY <1>2, <1>3, <1>4, <1>5, <1>6

(* Whatever a query comes to, the databases stay databases.                *)
LEMMA QueryKeepsDatabases ==
    ASSUME DatabasesOK, NEW p \in PlayerIds, ExecuteQuery(p)
    PROVE  DatabasesOK' /\ \E names : Bump(names)
<1>1. CASE \E db : SetDefaultDatabase(p, db)
  BY <1>1, SetDefaultDatabaseKeeps, QueryChoices
<1>2. CASE UNCHANGED <<targetDb, currentDatabase>>
  BY <1>2, QueryChoices DEF DatabasesOK
<1>3. CASE /\ Document(p).db \in TargetDbs
           /\ targetDb' = [targetDb EXCEPT ![p] = Document(p).db]
           /\ UNCHANGED currentDatabase
  BY <1>3, QueryChoices, TargetAssumption DEF DatabasesOK
<1>4. QED  BY <1>1, <1>2, <1>3, QueryChoices

LEMMA ExecuteKeeps ==
    ASSUME BaseInv, NEW p \in PlayerIds, Execute(p)
    PROVE  BaseInv'
<1> USE DEF BaseInv
<1>0. DispatchOK /\ ReplayOK /\ CounterOK /\ DatabasesOK
  BY TypeParts DEF ReplayOK, DatabasesOK
<1>1. /\ ppc[p] # "new" /\ PlayerFrame
      /\ UNCHANGED <<proc, requestQueue, request, failures, idle>>
  BY ExecuteStep
<1>2. DatabasesOK' /\ CounterOK'
  <2>1. CASE ExecuteQuery(p)
    BY <1>0, <2>1, QueryKeepsDatabases, BumpKeeps
  <2>2. CASE ExecuteInitDb(p)
    <3>1. DatabasesOK'
      BY <1>0, <2>2, SetDefaultDatabaseKeeps DEF ExecuteInitDb
    <3>2. UNCHANGED counter \/ \E names : Bump(names)
      BY <2>2 DEF ExecuteInitDb
    <3>3. QED  BY <1>0, <3>1, <3>2, BumpKeeps DEF CounterOK
  <2>3. CASE ExecuteOther(p) \/ ExecuteQuit(p)
    BY <1>0, <2>3 DEF ExecuteOther, ExecuteQuit, DatabasesOK, CounterOK
  <2>4. QED  BY <2>1, <2>2, <2>3 DEF Execute
<1>3. executed' \in [PlayerIds -> Seq(Nat)]
  <2>1. Append(executed[p], request[p]) \in Seq(Nat)
    BY <1>0 DEF ReplayOK
  <2>2. QED  BY <1>0, <2>1, ExecuteStep DEF ReplayOK
<1>4. /\ ppc' \in [PlayerIds -> {"new", "init", "run", "busy", "stopped"}]
      /\ targetConnection' \in [PlayerIds -> {"null", "open", "dead", "closed"}]
      /\ \A q \in PlayerIds \ {p} :
            /\ ppc'[q] = ppc[q] /\ targetConnection'[q] = targetConnection[q]
            /\ requestQueue'[q] = requestQueue[q] /\ executed'[q] = executed[q]
  BY <1>0, ExecuteStep DEF ReplayOK
<1>5. ReplayOK'
  BY <1>0, <1>1, <1>2, <1>3, <1>4 DEF ReplayOK, DatabasesOK
<1>6. TypeOK'
  BY <1>0, <1>1, <1>2, <1>5, PlayerTypes, TypeParts DEF DispatchOK
<1>7. NotGivenUp'
  BY <1>1 DEF NotGivenUp
<1>8. QED
  BY <1>1, <1>4, <1>6, <1>7, PlayerStepKeeps DEF PlayerFrame

(* The target cuts connections, time passes.                               *)
LEMMA EnvironmentKeeps ==
    ASSUME BaseInv,
           \/ PreparedConnectionsBreak
           \/ \E p \in PlayerIds : ConnectionBreaks(p) \/ BecomesIdle(p)
    PROVE  BaseInv'
<1> USE DEF BaseInv
<1>0. DispatchOK /\ ReplayOK /\ CounterOK
  BY TypeParts
<1>1. ASSUME NEW p \in PlayerIds, ConnectionBreaks(p)
      PROVE  BaseInv'
  <2>1. /\ PlayerFrame /\ UNCHANGED <<proc, idle, counter, failures, ppc>>
        /\ UNCHANGED counter /\ UNCHANGED idle
    BY <1>1 DEF ConnectionBreaks, PlayerFrame
  <2>2. ReplayOK'
    BY <1>0, <1>1 DEF ReplayOK, ConnectionBreaks
  <2>3. TypeOK'
    BY <1>0, <2>1, <2>2, PlayerTypes, TypeParts DEF DispatchOK
  <2>4. NotGivenUp'
    BY <2>1 DEF NotGivenUp
  <2>5. QED
    BY <1>0, <1>1, <2>1, <2>3, <2>4, PlayerStepKeeps DEF PlayerFrame, ConnectionBreaks, ReplayOK
<1>2. ASSUME NEW p \in PlayerIds, BecomesIdle(p)
      PROVE  BaseInv'
  <2>1. FlagsOK'
    BY Zenon, <1>2, TypeParts DEF FlagsOK, BecomesIdle, poolVars
  <2>2. PlayerFrame /\ UNCHANGED <<proc, counter, requestQueue, playerVars>>
    BY <1>2 DEF BecomesIdle, PlayerFrame
  <2>3. TypeOK'
    BY <1>0, <2>1, <2>2, TypeParts
    DEF DispatchOK, ReplayOK, CounterOK, PlayerFrame, playerVars, connVars,
        mapVars, poolVars, tailerVars, mainVars
  <2>4. QED
    BY <2>2, <2>3
    DEF PlayerFrame, Positions, Held, Handled, Mapped, Locked, Visiting, Fresh,
        NotGivenUp, playerVars, connVars, mapVars, tailerVars, mainVars
<1>3. CASE PreparedConnectionsBreak
  <2>1. FlagsOK'
    BY Zenon, <1>3, TypeParts DEF FlagsOK, PreparedConnectionsBreak
  <2>2. TypeOK'
    BY <1>0, <1>3, <2>1, TypeParts
    DEF PreparedConnectionsBreak, DispatchOK, ReplayOK, CounterOK, playerVars,
        connVars, mapVars, tailerVars, mainVars
  <2>3. QED
    BY <1>3, <2>2
    DEF PreparedConnectionsBreak, Positions, Held, Handled, Mapped, Locked, Visiting, Fresh,
        NotGivenUp, playerVars, connVars, mapVars, tailerVars, mainVars
<1>4. QED  BY <1>1, <1>2, <1>3

(* The idle check: what its steps leave alone.                             *)
MainFrame ==
    UNCHANGED <<proc, poolVars, players, tailerVars, owner, playerVars, idle>>

LEMMA MainTypes ==
    ASSUME BaseInv, MainFrame
    PROVE  /\ FlagsOK' /\ Positions' /\ Held' /\ NotGivenUp'
           /\ requestQueue' \in [PlayerIds -> Seq(Nat)] => ReplayOK'
<1> USE DEF BaseInv, MainFrame
<1>1. FlagsOK'
  BY Zenon, TypeParts DEF FlagsOK, poolVars
<1>2. Positions' /\ Held' /\ NotGivenUp'
  BY DEF Positions, Held, Handled, NotGivenUp, playerVars, tailerVars
<1>3. requestQueue' \in [PlayerIds -> Seq(Nat)] => ReplayOK'
  BY TypeParts DEF ReplayOK, playerVars, connVars
<1>4. QED  BY <1>1, <1>2, <1>3

(* The idle check begins a round, and ends it.                             *)
LEMMA RoundKeeps ==
    ASSUME BaseInv, CloseIdleSession \/ CloseDone
    PROVE  BaseInv'
<1> USE DEF BaseInv
<1>0. DispatchOK /\ ReplayOK /\ CounterOK
  BY TypeParts
<1>1. /\ MainFrame
      /\ UNCHANGED <<playerMap, requestQueue, idleSQLPlayer, counter>>
  BY DEF CloseIdleSession, CloseDone, MainFrame
<1>2. \A t \in Tailers : tpc[t] # "put"
  BY StreamAssumption DEF Locked, CloseIdleSession, CloseDone
<1>3. DispatchOK'
  BY <1>0, <1>1 DEF DispatchOK, CloseIdleSession, CloseDone, MainFrame, poolVars, tailerVars
<1>4. TypeOK'
  BY <1>0, <1>1, <1>3, MainTypes, TypeParts DEF ReplayOK, CounterOK
<1>5. Mapped' /\ Fresh'
  BY <1>1 DEF Mapped, Fresh, MainFrame, playerVars, connVars
<1>6. Locked' /\ Visiting'
  BY <1>1, <1>2 DEF Locked, Visiting, CloseIdleSession, CloseDone, MainFrame, tailerVars
<1>7. QED  BY <1>1, <1>4, <1>5, <1>6, MainTypes

(* An entry of the map is visited; an idle one is removed.                 *)
LEMMA VisitEntryKeeps ==
    ASSUME BaseInv, NEW s \in Sessions, VisitEntry(s)
    PROVE  BaseInv'
<1> USE DEF BaseInv
<1>0. DispatchOK /\ ReplayOK /\ CounterOK
  BY TypeParts
<1>1. MainFrame /\ UNCHANGED <<monitor, requestQueue, counter>>
  BY DEF VisitEntry, MainFrame
<1>2. playerMap[s] \in 1 .. players /\ owner[playerMap[s]] = s
  BY DEF VisitEntry, Visiting, Mapped
<1>3. \/ /\ idleSQLPlayer' = playerMap[s] /\ mpc' = "drain"
         /\ playerMap' = [playerMap EXCEPT ![s] = 0]
      \/ UNCHANGED <<playerMap, idleSQLPlayer, mpc>>
  BY DEF VisitEntry, Unmap
<1>4. unvisited' = unvisited \ {s} /\ mpc = "iterate"
  BY DEF VisitEntry
<1>5. DispatchOK'
  BY <1>0, <1>1, <1>2, <1>3, <1>4 DEF DispatchOK, MainFrame, poolVars, tailerVars, PlayerIds
<1>6. TypeOK'
  BY <1>0, <1>1, <1>5, MainTypes, TypeParts DEF ReplayOK, CounterOK
<1>7. Mapped' /\ Locked' /\ Fresh'
  BY <1>0, <1>1, <1>2, <1>3, <1>4
  DEF DispatchOK, Mapped, Locked, Fresh, MainFrame, playerVars, connVars, tailerVars
<1>8. Visiting'
  BY <1>0, <1>1, <1>2, <1>3, <1>4 DEF DispatchOK, Visiting, MainFrame
<1>9. QED  BY <1>1, <1>6, <1>7, <1>8, MainTypes

(* The queue of an idle player is drained, and a QUIT put into it.         *)
LEMMA CloseStepKeeps ==
    ASSUME BaseInv, DrainQueue \/ PushUrgentQuit
    PROVE  BaseInv'
<1> USE DEF BaseInv
<1>0. DispatchOK /\ ReplayOK /\ CounterOK
  BY TypeParts
<1>1. /\ MainFrame /\ UNCHANGED <<mapVars, unvisited, idleSQLPlayer>>
      /\ mpc \in {"drain", "quit"} /\ mpc' \in {"drain", "quit", "iterate"}
  BY DEF DrainQueue, PushUrgentQuit, MainFrame
<1>2. idleSQLPlayer \in 1 .. players /\ idleSQLPlayer \in PlayerIds
  BY <1>0, <1>1 DEF Visiting, DispatchOK, PlayerIds
<1>3. /\ requestQueue' \in [PlayerIds -> Seq(Nat)]
      /\ \A p \in PlayerIds \ {idleSQLPlayer} : requestQueue'[p] = requestQueue[p]
  <2> DEFINE q == requestQueue[idleSQLPlayer]
  <2>1. q \in Seq(Nat)
    BY <1>0, <1>2 DEF ReplayOK
  <2>2. CASE UNCHANGED requestQueue
    BY <1>0, <2>2 DEF ReplayOK
  <2>3. CASE q # <<>> /\ Dequeue(idleSQLPlayer)
    <3>1. Tail(q) \in Seq(Nat)
      BY <2>1, <2>3
    <3>2. QED  BY <1>0, <1>2, <2>3, <3>1 DEF ReplayOK, Dequeue
  <2>4. CASE OfferQuit
    <3>1. Append(q, 0) \in Seq(Nat)
      BY <2>1
    <3>2. QED  BY <1>0, <1>2, <2>4, <3>1 DEF ReplayOK, OfferQuit
  <2>5. QED  BY <2>2, <2>3, <2>4 DEF DrainQueue, PushUrgentQuit
<1>4. CounterOK'
  BY <1>0, BumpKeeps DEF DrainQueue, PushUrgentQuit, CounterOK
<1>5. DispatchOK'
  BY <1>0, <1>1 DEF DispatchOK, MainFrame, mapVars, poolVars, tailerVars
<1>6. TypeOK'
  BY <1>1, <1>3, <1>4, <1>5, MainTypes, TypeParts
<1>7. Mapped' /\ Locked' /\ Visiting'
  BY <1>1 DEF Mapped, Locked, Visiting, MainFrame, mapVars, tailerVars
<1>8. Fresh'
  BY <1>0, <1>1, <1>2, <1>3 DEF DispatchOK, Fresh, MainFrame, playerVars, connVars, PlayerIds
<1>9. QED  BY <1>1, <1>6, <1>7, <1>8, MainTypes

(* GetPlayer takes the next request of the stream.                         *)
LEMMA GetPlayerTakes ==
    ASSUME TypeOK, NEW t \in Tailers, GetPlayer(t)
    PROVE  \E n \in 1 .. Len(Stream[t]) : n > tailed[t] /\ TakeRequest(t, n)
<1>1. tailed[t] + 1 \in 1 .. Len(Stream[t]) /\ tailed[t] + 1 > tailed[t]
  BY StreamAssumption DEF TypeOK, GetPlayer
<1>2. QED  BY <1>1 DEF GetPlayer

(* Every step keeps the invariant.                                         *)
LEMMA BaseNext == BaseInv /\ [Next]_vars => BaseInv'
<1> SUFFICES ASSUME BaseInv, [Next]_vars PROVE BaseInv'
  OBVIOUS
<1>1. ASSUME NEW t \in Tailers, GetPlayer(t) PROVE BaseInv'
  BY <1>1, GetPlayerTakes, TakeRequestKeeps DEF BaseInv
<1>2. ASSUME NEW t \in Tailers, PushNext(t) PROVE BaseInv'
  BY <1>2, NewPlayerKeeps, PutPlayerKeeps, StartPlayerKeeps, CheckQueueKeeps,
     OfferKeeps, RemovePlayerKeeps DEF PushNext
<1>3. ASSUME NEW p \in PlayerIds, PlayerNext(p) PROVE BaseInv'
  BY <1>3, InitKeeps, PollKeeps, ExecuteKeeps DEF PlayerNext, Execute
<1>4. CASE MainNext
  BY <1>4, RoundKeeps, VisitEntryKeeps, CloseStepKeeps DEF MainNext
<1>5. CASE Finished \/ UNCHANGED vars
  <2>1. UNCHANGED vars
    BY <1>5 DEF Finished
  <2>2. UNCHANGED <<idle, preparedConnDead>> /\ FlagsOK
    BY <2>1, TypeParts DEF BaseInv, vars, replayVars, poolVars
  <2>3. FlagsOK'
    BY Zenon, <2>2 DEF FlagsOK
  <2>4. DispatchOK' /\ ReplayOK' /\ CounterOK'
    BY <2>1, TypeParts
    DEF BaseInv, DispatchOK, ReplayOK, CounterOK, vars, replayVars, mapVars, poolVars,
        tailerVars, playerVars, connVars, mainVars
  <2>5. Positions' /\ Held' /\ Mapped' /\ Locked' /\ Visiting' /\ Fresh' /\ NotGivenUp'
    BY <2>1
    DEF BaseInv, Positions, Held, Handled, Mapped, Locked, Visiting, Fresh, NotGivenUp,
        vars, replayVars, mapVars, tailerVars, playerVars, connVars, mainVars
  <2>6. QED  BY <2>3, <2>4, <2>5, TypeParts DEF BaseInv
<1>6. QED
  BY <1>1, <1>2, <1>3, <1>4, <1>5, EnvironmentKeeps DEF Next, TailerNext

(* The variables keep their types; in particular the failures of a player  *)
(* to connect never pass the limit at which the process gives up.          *)
THEOREM PlayerTypeCorrect == Spec => []TypeOK
<1>1. BaseInv => TypeOK
  BY DEF BaseInv
<1>2. QED  BY <1>1, BaseInit, BaseNext, PTL DEF Spec

-----------------------------------------------------------------------------
(* A tailer that has tested the size of a queue finds room in it: only the *)
(* idle check, which starts from an empty queue, can have come in between; *)
(* and what a tailer adds behind its back is one request.                  *)
RoomFound ==
    \A t \in Tailers :
        tpc[t] = "offer" => Len(requestQueue[player[t]]) <= SESSION_QUEUE_SIZE_ABORT
RoomForQuit ==
    mpc = "quit" =>
        /\ Len(requestQueue[idleSQLPlayer]) <= 1
        /\ \A t \in Tailers :
              tpc[t] \in {"start", "push", "offer"} /\ player[t] = idleSQLPlayer
                  => Len(requestQueue[idleSQLPlayer]) = 0

QueueInv == BaseInv /\ QueueBounded /\ RoomFound /\ RoomForQuit

(* Two tailers never hold the same player.                                 *)
LEMMA SoleHolder ==
    ASSUME BaseInv, NEW t \in Tailers, NEW u \in Tailers,
           tpc[t] \in Holding, tpc[u] \in Holding, player[t] = player[u]
    PROVE  t = u
<1>1. DispatchOK /\ Positions
  BY TypeParts DEF BaseInv
<1>2. TailerOf[Handled(t).s] = t /\ TailerOf[Handled(u).s] = u
  BY <1>1, HandledDocument DEF Holding
<1>3. Handled(t).s = Handled(u).s
  BY DEF BaseInv, Held
<1>4. QED  BY <1>2, <1>3

LEMMA QueueInit == Init => QueueInv
<1> SUFFICES ASSUME Init PROVE QueueInv
  OBVIOUS
<1>1. QueueBounded
  BY OptionsAssumption DEF Init, QueueBounded
<1>2. RoomFound /\ RoomForQuit
  BY DEF Init, RoomFound, RoomForQuit
<1>3. QED  BY <1>1, <1>2, BaseInit DEF QueueInv

(* The steps of a tailer.                                                  *)
LEMMA TakeRequestKeepsQueue ==
    ASSUME QueueInv, NEW t \in Tailers, NEW n \in 1 .. Len(Stream[t]),
           n > tailed[t], TakeRequest(t, n)
    PROVE  QueueInv'
<1> USE DEF QueueInv
<1>0. BaseInv' /\ DispatchOK
  BY TakeRequestKeeps, TypeParts DEF BaseInv
<1>1. UNCHANGED <<requestQueue, mpc, idleSQLPlayer>>
  BY DEF TakeRequest, mainVars
<1>2. Stream[t][n].s \in Sessions
  BY StreamDocuments
<1>3. PICK p \in Lookup(t, Stream[t][n].s) :
          /\ player' = [player EXCEPT ![t] = p]
          /\ tpc' = [tpc EXCEPT ![t] =
                        IF p # 0 THEN "push"
                        ELSE IF CommandOf(Stream[t][n]) = COM_QUIT THEN "tail"
                        ELSE "new"]
  BY DEF TakeRequest
<1>4. tpc'[t] # "offer" /\ (tpc'[t] = "push" => player'[t] = playerMap[Stream[t][n].s] /\ player'[t] # 0)
      /\ tpc'[t] \in {"push", "tail", "new"}
  BY <1>0, <1>3 DEF DispatchOK, Lookup
<1>5. \A u \in Tailers \ {t} : tpc'[u] = tpc[u] /\ player'[u] = player[u]
  BY <1>0, <1>3 DEF DispatchOK
<1>6. QueueBounded' /\ RoomFound'
  BY <1>1, <1>4, <1>5 DEF QueueBounded, RoomFound
<1>7. RoomForQuit'
  <2> SUFFICES ASSUME mpc = "quit"
               PROVE  ~(tpc'[t] = "push" /\ player'[t] = idleSQLPlayer)
    BY <1>1, <1>4, <1>5 DEF RoomForQuit
  <2>1. playerMap[owner[idleSQLPlayer]] = 0
    BY DEF BaseInv, Visiting
  <2>2. playerMap[Stream[t][n].s] # 0 =>
            owner[playerMap[Stream[t][n].s]] = Stream[t][n].s
    BY <1>2 DEF BaseInv, Mapped
  <2>3. QED  BY <1>4, <2>1, <2>2
<1>8. QED  BY <1>0, <1>6, <1>7

LEMMA PushNextKeepsQueue ==
    ASSUME QueueInv, NEW t \in Tailers, PushNext(t)
    PROVE  QueueInv'
<1> USE DEF QueueInv
<1>0. DispatchOK /\ ReplayOK
  BY TypeParts DEF BaseInv
<1>1. BaseInv'
  BY NewPlayerKeeps, PutPlayerKeeps, StartPlayerKeeps, CheckQueueKeeps,
     OfferKeeps, RemovePlayerKeeps DEF PushNext
<1>2. UNCHANGED <<mpc, idleSQLPlayer>>
  BY DEF PushNext, NewPlayer, PutPlayer, StartPlayer, CheckQueue, Offer,
         RemovePlayer, mainVars
<1>3. CASE NewPlayer(t) \/ PutPlayer(t)
  <2>1. mpc # "quit"
    BY <1>3, StreamAssumption DEF BaseInv, Locked, NewPlayer, PutPlayer
  <2>2. QueueBounded' /\ RoomForQuit'
    BY <1>2, <1>3, <2>1 DEF QueueBounded, RoomForQuit, NewPlayer, PutPlayer
  <2>3. RoomFound'
    BY <1>0, <1>3 DEF DispatchOK, RoomFound, NewPlayer, PutPlayer
  <2>4. QED  BY <1>1, <2>2, <2>3
<1>4. CASE StartPlayer(t) \/ RemovePlayer(t)
  BY <1>0, <1>1, <1>2, <1>4 DEF DispatchOK, StartPlayer, RemovePlayer, QueueBounded,
     RoomFound, RoomForQuit
<1>5. CASE CheckQueue(t)
  <2>1. player[t] \in PlayerIds /\ requestQueue[player[t]] \in Seq(Nat)
    BY <1>0, <1>5 DEF BaseInv, Held, Holding, CheckQueue, DispatchOK, ReplayOK, PlayerIds
  <2>2. Len(requestQueue[player[t]]) \in Nat /\ UNCHANGED <<requestQueue, player>>
    BY <1>5, <2>1 DEF CheckQueue
  <2>3. QueueBounded' /\ RoomForQuit'
    BY <1>0, <1>2, <1>5, <2>2 DEF DispatchOK, QueueBounded, RoomForQuit, CheckQueue
  <2>4. RoomFound'
    BY <1>0, <1>5, <2>2, OptionsAssumption DEF DispatchOK, RoomFound, CheckQueue, QueueFull
  <2>5. QED  BY <1>1, <2>3, <2>4
<1>6. CASE Offer(t)
  <2> DEFINE q == requestQueue[player[t]]
  <2>1. player[t] \in PlayerIds /\ q \in Seq(Nat)
    BY <1>0, <1>6 DEF BaseInv, Held, Holding, Offer, DispatchOK, ReplayOK, PlayerIds
  <2>2. Len(Append(q, tailed[t])) = Len(q) + 1 /\ Len(q) \in Nat
    BY <2>1
  <2>3. /\ Len(requestQueue'[player[t]]) = Len(q) + 1
        /\ \A p \in PlayerIds \ {player[t]} : requestQueue'[p] = requestQueue[p]
    BY <1>0, <1>6, <2>1, <2>2 DEF ReplayOK, Offer
  <2>4. /\ tpc'[t] \in {"remove", "tail"} /\ UNCHANGED player
        /\ \A u \in Tailers \ {t} : tpc'[u] = tpc[u]
    BY <1>0, <1>6 DEF DispatchOK, Offer
  <2>5. Len(q) <= SESSION_QUEUE_SIZE_ABORT
    BY <1>6 DEF RoomFound, Offer
  <2>6. QueueBounded'
    BY <2>1, <2>2, <2>3, <2>5, OptionsAssumption DEF QueueBounded
  <2>7. \A u \in Tailers \ {t} : tpc[u] \in Holding => player[u] # player[t]
    BY <1>6, SoleHolder DEF Offer, Holding
  <2>8. \A u \in Tailers : tpc[u] \in Holding => player[u] \in PlayerIds
    BY <1>0 DEF BaseInv, Held, DispatchOK, PlayerIds
  <2>9. RoomFound'
    BY <2>3, <2>4, <2>7, <2>8 DEF RoomFound, Holding
  <2>10. RoomForQuit'
    <3> SUFFICES ASSUME mpc = "quit"
                 PROVE  RoomForQuit'
      BY <1>2 DEF RoomForQuit
    <3>1. idleSQLPlayer \in PlayerIds
      BY <1>0 DEF BaseInv, Visiting, DispatchOK, PlayerIds
    <3>2. CASE idleSQLPlayer = player[t]
      <4>1. Len(q) = 0
        BY <1>6, <3>2 DEF RoomForQuit, Offer
      <4>2. Len(requestQueue'[idleSQLPlayer']) = 1
        BY <1>2, <2>3, <3>2, <4>1
      <4>3. \A u \in Tailers :
                tpc'[u] \in {"start", "push", "offer"} => player'[u] # idleSQLPlayer'
        BY <1>2, <2>4, <2>7, <3>2 DEF Holding
      <4>4. QED  BY <4>2, <4>3 DEF RoomForQuit
    <3>3. CASE idleSQLPlayer # player[t]
      BY <1>2, <2>3, <2>4, <3>1, <3>3 DEF RoomForQuit
    <3>4. QED  BY <3>2, <3>3
  <2>11. QED  BY <1>1, <2>6, <2>9, <2>10
<1>7. QED  BY <1>3, <1>4, <1>5, <1>6 DEF PushNext

(* A player takes from its queue only.                                     *)
LEMMA PlayerNextKeepsQueue ==
    ASSUME QueueInv, NEW p \in PlayerIds, PlayerNext(p)
    PROVE  QueueInv'
<1> USE DEF QueueInv
<1>0. DispatchOK /\ ReplayOK
  BY TypeParts DEF BaseInv
<1>1. BaseInv'
  BY InitKeeps, PollKeeps, ExecuteKeeps DEF PlayerNext, Execute
<1>2. UNCHANGED <<tpc, player, mpc, idleSQLPlayer>>
  BY ExecuteStep
  DEF PlayerNext, Execute, InitPrepared, Connect, ConnectFails, Poll,
      PlayerFrame, tailerVars, mainVars
<1>3. \A q \in PlayerIds : /\ Len(requestQueue[q]) \in Nat /\ Len(requestQueue'[q]) \in Nat
                           /\ Len(requestQueue'[q]) <= Len(requestQueue[q])
  <2>1. CASE UNCHANGED requestQueue
    BY <1>0, <2>1 DEF ReplayOK
  <2>2. CASE Poll(p)
    <3>1. Len(Tail(requestQueue[p])) = Len(requestQueue[p]) - 1
          /\ Len(requestQueue[p]) \in Nat /\ Len(requestQueue[p]) # 0
      BY <1>0, <2>2 DEF ReplayOK, Poll
    <3>2. QED  BY <1>0, <2>2, <3>1 DEF ReplayOK, Poll, Dequeue
  <2>3. QED
    BY <2>1, <2>2, ExecuteStep
    DEF PlayerNext, Execute, InitPrepared, Connect, ConnectFails
<1>4. \A t \in Tailers : tpc[t] \in Holding => player[t] \in PlayerIds
  BY <1>0 DEF BaseInv, Held, DispatchOK, PlayerIds
<1>5. mpc = "quit" => idleSQLPlayer \in PlayerIds
  BY <1>0 DEF BaseInv, Visiting, DispatchOK, PlayerIds
<1>6. QueueBounded'
  BY <1>3, OptionsAssumption DEF QueueBounded
<1>7. RoomFound'
  BY <1>2, <1>3, <1>4, OptionsAssumption DEF RoomFound, Holding
<1>8. RoomForQuit'
  BY <1>2, <1>3, <1>4, <1>5 DEF RoomForQuit, Holding
<1>9. QED  BY <1>1, <1>6, <1>7, <1>8

(* The idle check.                                                         *)
LEMMA MainNextKeepsQueue ==
    ASSUME QueueInv, MainNext
    PROVE  QueueInv'
<1> USE DEF QueueInv
<1>0. DispatchOK /\ ReplayOK
  BY TypeParts DEF BaseInv
<1>1. BaseInv'
  BY RoundKeeps, VisitEntryKeeps, CloseStepKeeps DEF MainNext
<1>2. UNCHANGED <<tpc, player>>
  BY DEF MainNext, CloseIdleSession, CloseDone, VisitEntry, DrainQueue,
         PushUrgentQuit, tailerVars
<1>3. CASE CloseIdleSession \/ CloseDone \/ \E s \in Sessions : VisitEntry(s)
  BY <1>1, <1>2, <1>3
  DEF CloseIdleSession, CloseDone, VisitEntry, QueueBounded, RoomFound, RoomForQuit
<1>4. CASE DrainQueue \/ PushUrgentQuit
  <2> DEFINE q == requestQueue[idleSQLPlayer]
  <2>0. mpc \in {"drain", "quit"}
    BY <1>4 DEF DrainQueue, PushUrgentQuit
  <2>1. idleSQLPlayer \in PlayerIds /\ q \in Seq(Nat)
    <3>1. idleSQLPlayer \in PlayerIds
      BY <1>0, <2>0 DEF BaseInv, Visiting, DispatchOK, PlayerIds
    <3>2. QED  BY <1>0, <3>1 DEF ReplayOK
  <2>2. Len(q) \in Nat /\ UNCHANGED idleSQLPlayer
    BY <1>4, <2>1 DEF DrainQueue, PushUrgentQuit
  <2>3. \A t \in Tailers : tpc[t] \in Holding => player[t] \in PlayerIds
    BY <1>0 DEF BaseInv, Held, DispatchOK, PlayerIds
  <2>4. CASE DrainQueue /\ q = <<>>
    BY <1>1, <1>2, <2>2, <2>4 DEF DrainQueue, QueueBounded, RoomFound, RoomForQuit
  <2>5. CASE DrainQueue /\ q # <<>>
    <3>1. Len(Tail(q)) = Len(q) - 1 /\ Len(q) # 0
      BY <2>1, <2>5
    <3>2. /\ Len(requestQueue'[idleSQLPlayer]) = Len(q) - 1
          /\ \A p \in PlayerIds \ {idleSQLPlayer} : requestQueue'[p] = requestQueue[p]
      BY <1>0, <2>1, <2>5, <3>1 DEF DrainQueue, Dequeue, ReplayOK
    <3>3. mpc' # "quit"
      BY <2>5 DEF DrainQueue
    <3>4. QueueBounded'
      BY <2>1, <2>2, <3>2, OptionsAssumption DEF QueueBounded
    <3>5. RoomFound'
      BY <1>2, <2>2, <2>3, <3>2, OptionsAssumption DEF RoomFound, Holding
    <3>6. QED  BY <1>1, <3>3, <3>4, <3>5 DEF RoomForQuit
  <2>6. CASE PushUrgentQuit
    <3>1. Len(Append(q, 0)) = Len(q) + 1
      BY <2>1
    <3>2. /\ Len(requestQueue'[idleSQLPlayer]) = Len(q) + 1
          /\ \A p \in PlayerIds \ {idleSQLPlayer} : requestQueue'[p] = requestQueue[p]
      BY <1>0, <2>1, <2>6, <3>1 DEF PushUrgentQuit, OfferQuit, ReplayOK
    <3>3. mpc' # "quit" /\ Len(q) <= 1
      BY <2>6 DEF PushUrgentQuit, RoomForQuit
    <3>4. QueueBounded'
      BY <2>1, <2>2, <3>2, <3>3, OptionsAssumption DEF QueueBounded
    <3>5. \A t \in Tailers : tpc[t] = "offer" /\ player[t] = idleSQLPlayer => Len(q) = 0
      BY <2>6 DEF PushUrgentQuit, RoomForQuit
    <3>6. RoomFound'
      BY <1>2, <2>2, <2>3, <3>2, <3>5, OptionsAssumption DEF RoomFound, Holding
    <3>7. QED  BY <1>1, <3>3, <3>4, <3>6 DEF RoomForQuit
  <2>7. QED  BY <1>4, <2>4, <2>5, <2>6
<1>5. QED  BY <1>3, <1>4 DEF MainNext

LEMMA QueueNext == QueueInv /\ [Next]_vars => QueueInv'
<1> SUFFICES ASSUME QueueInv, [Next]_vars PROVE QueueInv'
  OBVIOUS
<1>1. ASSUME NEW t \in Tailers, GetPlayer(t) PROVE QueueInv'
  BY <1>1, GetPlayerTakes, TakeRequestKeepsQueue DEF QueueInv, BaseInv
<1>2. CASE UNCHANGED <<requestQueue, tpc, player, mpc, idleSQLPlayer>>
  <2>1. BaseInv'
    BY BaseNext DEF QueueInv
  <2>2. QED  BY <1>2, <2>1 DEF QueueInv, QueueBounded, RoomFound, RoomForQuit
<1>3. QED
  BY <1>1, <1>2, PushNextKeepsQueue, PlayerNextKeepsQueue, MainNextKeepsQueue
  DEF Next, TailerNext, ConnectionBreaks, BecomesIdle, PreparedConnectionsBreak,
      Finished, vars, replayVars, tailerVars, mainVars

(* A queue never holds more than one request above the limit, although     *)
(* the size is tested before the request is offered, and although the idle *)
(* check offers its QUIT without a test.                                   *)
THEOREM QueuesBounded == Spec => []QueueBounded
<1>1. QueueInv => QueueBounded
  BY DEF QueueInv
<1>2. QED  BY <1>1, QueueInit, QueueNext, PTL DEF Spec

-----------------------------------------------------------------------------
(* How many requests of its stream tailer t is done with.                  *)
Done(t) == IF tpc[t] \in Pushing THEN tailed[t] - 1 ELSE tailed[t]

(* Request n is one of session s, and among the first d of its stream.     *)
Of(s, d, n) == n # 0 => n \in 1 .. d /\ Stream[TailerOf[s]][n].s = s
Known(p, n) == Of(owner[p], Done(TailerOf[owner[p]]), n)
Before(m, n) == m # 0 /\ n # 0 => m < n

(* What a player has been given are requests of its session that its       *)
(* tailer is done with ...                                                 *)
GivenIsKnown(p) ==
    /\ \A i \in 1 .. Len(executed[p]) : Known(p, executed[p][i])
    /\ ppc[p] = "busy" => Known(p, request[p])
    /\ \A i \in 1 .. Len(requestQueue[p]) : Known(p, requestQueue[p][i])
(* ... in the order of the stream: those replayed, the one in hand, those  *)
(* in the queue.                                                           *)
ExecutedInOrder(p) ==
    \A i, j \in 1 .. Len(executed[p]) :
        i < j => Before(executed[p][i], executed[p][j])
QueuedInOrder(p) ==
    \A i, j \in 1 .. Len(requestQueue[p]) :
        i < j => Before(requestQueue[p][i], requestQueue[p][j])
ExecutedFirst(p) ==
    \A i \in 1 .. Len(executed[p]), j \in 1 .. Len(requestQueue[p]) :
        Before(executed[p][i], requestQueue[p][j])
InHandBetween(p) ==
    ppc[p] = "busy" =>
        /\ \A i \in 1 .. Len(executed[p]) : Before(executed[p][i], request[p])
        /\ \A j \in 1 .. Len(requestQueue[p]) : Before(request[p], requestQueue[p][j])
(* The artificial QUIT ends the thread.                                    *)
QuitIsLast(p) ==
    \A i \in 1 .. Len(executed[p]) :
        executed[p][i] = 0 => i = Len(executed[p]) /\ ppc[p] = "stopped"

OrderOf(p) == /\ GivenIsKnown(p) /\ ExecutedInOrder(p) /\ QueuedInOrder(p)
              /\ ExecutedFirst(p) /\ InHandBetween(p) /\ QuitIsLast(p)
OrderInv == BaseInv /\ \A p \in 1 .. players : OrderOf(p)

LEMMA OrderInit == Init => OrderInv
<1> SUFFICES ASSUME Init PROVE OrderInv
  OBVIOUS
<1>1. players = 0
  BY DEF Init
<1>2. QED  BY <1>1, BaseInit DEF OrderInv

LEMMA DoneIsNat ==
    ASSUME BaseInv, NEW t \in Tailers
    PROVE  Done(t) \in Nat
<1>1. tailed[t] \in Nat /\ (tpc[t] # "tail" => tailed[t] >= 1)
  BY DEF BaseInv, TypeOK, Positions
<1>2. QED  BY <1>1 DEF Done, Pushing

(* The types of a player that exists.                                      *)
LEMMA PlayerFacts ==
    ASSUME BaseInv, NEW p \in 1 .. players
    PROVE  /\ p \in PlayerIds /\ players \in Nat
           /\ owner[p] \in Sessions /\ TailerOf[owner[p]] \in Tailers
           /\ executed[p] \in Seq(Nat) /\ requestQueue[p] \in Seq(Nat)
           /\ request[p] \in Nat
           /\ Done(TailerOf[owner[p]]) \in Nat
<1>1. DispatchOK /\ ReplayOK
  BY TypeParts DEF BaseInv
<1>2. p \in PlayerIds /\ players \in Nat
  BY <1>1, OptionsAssumption DEF DispatchOK, PlayerIds
<1>3. owner[p] \in Sessions /\ TailerOf[owner[p]] \in Tailers
  BY <1>1, StreamAssumption DEF DispatchOK
<1>4. Done(TailerOf[owner[p]]) \in Nat
  BY <1>3, DoneIsNat
<1>5. QED  BY <1>1, <1>2, <1>3, <1>4 DEF ReplayOK

(* A tailer never takes back what it is done with.                         *)
DoneGrows == \A t \in Tailers : Done(t)' \in Nat /\ Done(t) <= Done(t)'

LEMMA DoneSame ==
    ASSUME BaseInv, UNCHANGED <<tpc, tailed>>
    PROVE  DoneGrows /\ \A t \in Tailers : Done(t)' = Done(t)
<1>1. \A t \in Tailers : Done(t)' = Done(t)
  BY DEF Done
<1>2. \A t \in Tailers : Done(t) \in Nat
  BY DoneIsNat
<1>3. QED  BY <1>1, <1>2 DEF DoneGrows

LEMMA KnownStays ==
    ASSUME BaseInv, DoneGrows, NEW p \in 1 .. players, owner'[p] = owner[p],
           NEW n \in Nat, Known(p, n)
    PROVE  Of(owner'[p], Done(TailerOf[owner[p]])', n)
<1>1. /\ TailerOf[owner[p]] \in Tailers /\ Done(TailerOf[owner[p]]) \in Nat
  BY PlayerFacts
<1>2. Done(TailerOf[owner[p]])' \in Nat
      /\ Done(TailerOf[owner[p]]) <= Done(TailerOf[owner[p]])'
  BY <1>1 DEF DoneGrows, Done
<1>3. QED  BY <1>1, <1>2 DEF Known, Of

(* A step that gives player p no request and takes none from it.           *)
LEMMA OrderStays ==
    ASSUME BaseInv, DoneGrows, NEW p \in 1 .. players, OrderOf(p),
           owner'[p] = owner[p], requestQueue'[p] = requestQueue[p],
           request'[p] = request[p], executed'[p] = executed[p],
           ppc'[p] = "busy" => ppc[p] = "busy",
           ppc[p] = "stopped" => ppc'[p] = "stopped"
    PROVE  OrderOf(p)'
<1> USE DEF OrderOf
<1>1. /\ executed[p] \in Seq(Nat) /\ requestQueue[p] \in Seq(Nat)
      /\ request[p] \in Nat
  BY PlayerFacts
<1>2. \A n \in Nat : Known(p, n) => Of(owner'[p], Done(TailerOf[owner[p]])', n)
  BY KnownStays
<1>3. GivenIsKnown(p)'
  <2>1. \A i \in 1 .. Len(executed[p]) : Known(p, executed[p][i]) /\ executed[p][i] \in Nat
    BY <1>1 DEF GivenIsKnown
  <2>2. \A i \in 1 .. Len(requestQueue[p]) :
            Known(p, requestQueue[p][i]) /\ requestQueue[p][i] \in Nat
    BY <1>1 DEF GivenIsKnown
  <2>3. ppc'[p] = "busy" => Known(p, request[p])
    BY DEF GivenIsKnown
  <2>4. QED  BY <1>1, <1>2, <2>1, <2>2, <2>3 DEF GivenIsKnown, Known
<1>4. ExecutedInOrder(p)' /\ QueuedInOrder(p)' /\ ExecutedFirst(p)'
  BY DEF ExecutedInOrder, QueuedInOrder, ExecutedFirst, Before
<1>5. InHandBetween(p)' /\ QuitIsLast(p)'
  BY DEF InHandBetween, QuitIsLast, Before
<1>6. QED  BY <1>3, <1>4, <1>5

(* Nobody is given a request, and perhaps there is a player more.          *)
LEMMA OrderFrame ==
    ASSUME OrderInv, BaseInv', DoneGrows,
           UNCHANGED <<requestQueue, request, executed>>,
           players' = players \/ players' = players + 1,
           \A p \in 1 .. players :
               /\ owner'[p] = owner[p]
               /\ ppc'[p] = "busy" => ppc[p] = "busy"
               /\ ppc[p] = "stopped" => ppc'[p] = "stopped",
           \A p \in PlayerIds : p > players => ppc'[p] = ppc[p]
    PROVE  OrderInv'
<1>1. BaseInv /\ DispatchOK /\ DispatchOK' /\ Fresh
  BY TypeParts DEF OrderInv, BaseInv
<1>2. players \in Nat /\ players' \in Nat /\ players' <= MaxPlayers
  BY <1>1, OptionsAssumption DEF DispatchOK, PlayerIds
<1>3. ASSUME NEW p \in 1 .. players' PROVE OrderOf(p)'
  <2>1. CASE p \in 1 .. players
    BY <1>1, <2>1, OrderStays DEF OrderInv
  <2>2. CASE p \notin 1 .. players
    <3>1. p \in PlayerIds /\ p > players
      BY <1>2, <2>2, OptionsAssumption DEF PlayerIds
    <3>2. executed[p] = <<>> /\ requestQueue[p] = <<>> /\ ppc'[p] = "new"
      BY <1>1, <3>1 DEF Fresh
    <3>3. QED
      BY <3>2 DEF OrderOf, GivenIsKnown, ExecutedInOrder, QueuedInOrder, ExecutedFirst,
         InHandBetween, QuitIsLast
  <2>3. QED  BY <2>1, <2>2
<1>4. QED  BY <1>3 DEF OrderInv

(* The step of one player's requests: nothing happens to the others.       *)
LEMMA OrderOne ==
    ASSUME OrderInv, BaseInv', DoneGrows, NEW p \in 1 .. players, OrderOf(p)',
           UNCHANGED <<players, owner>>,
           \A r \in PlayerIds \ {p} :
               /\ requestQueue'[r] = requestQueue[r] /\ request'[r] = request[r]
               /\ executed'[r] = executed[r] /\ ppc'[r] = ppc[r]
    PROVE  OrderInv'
<1>1. ASSUME NEW r \in 1 .. players, r # p PROVE OrderOf(r)'
  <2>1. r \in PlayerIds
    BY PlayerFacts DEF OrderInv
  <2>2. QED  BY <1>1, <2>1, OrderStays DEF OrderInv
<1>2. QED  BY <1>1 DEF OrderInv

(* A request more in the queue of p, behind what p has been given.         *)
LEMMA AppendKeepsOrder ==
    ASSUME OrderInv, BaseInv', DoneGrows, NEW p \in 1 .. players, NEW n \in Nat,
           requestQueue' = [requestQueue EXCEPT ![p] = Append(@, n)],
           UNCHANGED <<request, executed, players, owner, ppc>>,
           Of(owner[p], Done(TailerOf[owner[p]])', n),
           n # 0 => Done(TailerOf[owner[p]]) < n
    PROVE  OrderInv'
<1> DEFINE q == requestQueue[p]
<1>1. /\ p \in PlayerIds /\ requestQueue \in [PlayerIds -> Seq(Nat)]
      /\ executed[p] \in Seq(Nat) /\ q \in Seq(Nat) /\ request[p] \in Nat
      /\ Done(TailerOf[owner[p]]) \in Nat /\ BaseInv /\ OrderOf(p)
  <2>1. BaseInv /\ OrderOf(p) /\ ReplayOK
    BY TypeParts DEF OrderInv, BaseInv
  <2>2. QED  BY <2>1, PlayerFacts DEF ReplayOK
<1>2. /\ \A r \in PlayerIds \ {p} : requestQueue'[r] = requestQueue[r]
      /\ Len(requestQueue'[p]) = Len(q) + 1 /\ Len(q) \in Nat
      /\ \A i \in 1 .. Len(q) : requestQueue'[p][i] = q[i]
      /\ requestQueue'[p][Len(q) + 1] = n
  BY <1>1
<1>3. \A m \in Nat : Known(p, m) => Before(m, n)
  BY <1>1 DEF Known, Of, Before
<1>4. /\ \A i \in 1 .. Len(q) : q[i] \in Nat /\ Known(p, q[i]) /\ Before(q[i], n)
      /\ \A i \in 1 .. Len(executed[p]) :
            executed[p][i] \in Nat /\ Known(p, executed[p][i]) /\ Before(executed[p][i], n)
      /\ ppc[p] = "busy" => Known(p, request[p]) /\ Before(request[p], n)
  <2>1. GivenIsKnown(p)
    BY <1>1 DEF OrderOf
  <2>2. \A i \in 1 .. Len(q) : q[i] \in Nat /\ Known(p, q[i])
    BY <1>1, <2>1 DEF GivenIsKnown
  <2>3. \A i \in 1 .. Len(executed[p]) :
            executed[p][i] \in Nat /\ Known(p, executed[p][i])
    BY <1>1, <2>1 DEF GivenIsKnown
  <2>4. ppc[p] = "busy" => Known(p, request[p])
    BY <2>1 DEF GivenIsKnown
  <2>5. QED  BY <1>1, <1>3, <2>2, <2>3, <2>4
<1>5. \A m \in Nat : Known(p, m) => Of(owner'[p], Done(TailerOf[owner[p]])', m)
  BY <1>1, KnownStays
<1>6. GivenIsKnown(p)'
  <2>1. \A i \in 1 .. Len(requestQueue'[p]) :
            Of(owner'[p], Done(TailerOf[owner[p]])', requestQueue'[p][i])
    BY <1>2, <1>4, <1>5
  <2>2. QED  BY <1>1, <1>4, <1>5, <2>1 DEF GivenIsKnown, Known
<1>7. ExecutedInOrder(p)' /\ QuitIsLast(p)'
  BY <1>1 DEF OrderOf, ExecutedInOrder, QuitIsLast, Before
<1>8. QueuedInOrder(p)'
  <2>1. ASSUME NEW i \in 1 .. Len(q) + 1, NEW j \in 1 .. Len(q) + 1, i < j
        PROVE  Before(requestQueue'[p][i], requestQueue'[p][j])
    <3>1. CASE j = Len(q) + 1
      BY <1>2, <1>4, <2>1, <3>1
    <3>2. CASE j # Len(q) + 1
      <4>1. i \in 1 .. Len(q) /\ j \in 1 .. Len(q)
        BY <1>2, <2>1, <3>2
      <4>2. Before(q[i], q[j])
        BY <1>1, <2>1, <4>1 DEF OrderOf, QueuedInOrder
      <4>3. QED  BY <1>2, <4>1, <4>2
    <3>3. QED  BY <3>1, <3>2
  <2>2. QED  BY <1>2, <2>1 DEF QueuedInOrder, Before
<1>9. ExecutedFirst(p)' /\ InHandBetween(p)'
  <2>1. ASSUME NEW i \in 1 .. Len(executed[p]), NEW j \in 1 .. Len(q) + 1
        PROVE  Before(executed[p][i], requestQueue'[p][j])
    <3>1. CASE j = Len(q) + 1
      BY <1>2, <1>4, <3>1
    <3>2. CASE j # Len(q) + 1
      <4>1. j \in 1 .. Len(q)
        BY <1>2, <3>2
      <4>2. Before(executed[p][i], q[j])
        BY <1>1, <4>1 DEF OrderOf, ExecutedFirst
      <4>3. QED  BY <1>2, <4>1, <4>2
    <3>3. QED  BY <3>1, <3>2
  <2>2. ppc[p] = "busy" => \A j \in 1 .. Len(q) + 1 : Before(request[p], requestQueue'[p][j])
    BY <1>1, <1>2, <1>4 DEF OrderOf, InHandBetween
  <2>3. ppc[p] = "busy" => \A i \in 1 .. Len(executed[p]) : Before(executed[p][i], request[p])
    BY <1>1 DEF OrderOf, InHandBetween
  <2> HIDE DEF q
  <2>4. ExecutedFirst(p)'
    BY <1>2, <2>1 DEF ExecutedFirst, Before
  <2>5. InHandBetween(p)'
    BY <1>2, <2>2, <2>3 DEF InHandBetween, Before
  <2>6. QED  BY <2>4, <2>5
<1>10. QED
  BY <1>2, <1>6, <1>7, <1>8, <1>9, OrderOne DEF OrderOf

(* The next request is polled: it goes from the queue into the hand.       *)
LEMMA PollKeepsOrder ==
    ASSUME OrderInv, NEW p \in PlayerIds, Poll(p)
    PROVE  OrderInv'
<1> DEFINE q == requestQueue[p]
<1>1. BaseInv' /\ BaseInv /\ DispatchOK /\ ReplayOK
  BY PollKeeps, TypeParts DEF OrderInv, BaseInv
<1>2. p \in 1 .. players
  BY <1>1 DEF BaseInv, Fresh, Poll, DispatchOK, PlayerIds
<1>3. /\ executed[p] \in Seq(Nat) /\ q \in Seq(Nat) /\ q # <<>> /\ OrderOf(p)
  BY <1>1, <1>2, PlayerFacts DEF OrderInv, Poll
<1>4. /\ Len(Tail(q)) = Len(q) - 1 /\ Len(q) \in Nat /\ Len(q) >= 1
      /\ \A i \in 1 .. Len(q) - 1 : Tail(q)[i] = q[i + 1]
      /\ Head(q) = q[1]
  BY <1>3
<1>5. /\ requestQueue'[p] = Tail(q) /\ request'[p] = q[1]
      /\ ppc[p] = "run" /\ ppc'[p] = "busy"
      /\ UNCHANGED <<players, owner, executed, tpc, tailed>>
      /\ \A r \in PlayerIds \ {p} :
            /\ requestQueue'[r] = requestQueue[r] /\ request'[r] = request[r]
            /\ executed'[r] = executed[r] /\ ppc'[r] = ppc[r]
  BY <1>1, <1>4 DEF ReplayOK, Poll, Dequeue, tailerVars
<1>6. DoneGrows /\ Done(TailerOf[owner[p]])' = Done(TailerOf[owner[p]])
  BY <1>1, <1>5, DoneSame DEF Done
<1>7. GivenIsKnown(p)'
  <2>1. /\ \A i \in 1 .. Len(q) : Known(p, q[i])
        /\ \A i \in 1 .. Len(executed[p]) : Known(p, executed[p][i])
    BY <1>3 DEF OrderOf, GivenIsKnown
  <2>2. Known(p, q[1]) /\ \A i \in 1 .. Len(q) - 1 : Known(p, q[i + 1])
    BY <1>4, <2>1
  <2>3. \A i \in 1 .. Len(Tail(q)) : Known(p, Tail(q)[i])
    BY <1>4, <2>2
  <2>4. QED  BY <1>5, <1>6, <2>1, <2>2, <2>3 DEF GivenIsKnown, Known
<1>8. ExecutedInOrder(p)'
  BY <1>3, <1>5 DEF OrderOf, ExecutedInOrder, Before
<1>9. QueuedInOrder(p)'
  <2>1. \A i, j \in 1 .. Len(q) - 1 : i < j => Before(q[i + 1], q[j + 1])
    BY <1>3, <1>4 DEF OrderOf, QueuedInOrder
  <2>2. \A i, j \in 1 .. Len(Tail(q)) : i < j => Before(Tail(q)[i], Tail(q)[j])
    BY <1>4, <2>1
  <2>3. QED  BY <1>5, <2>2 DEF QueuedInOrder, Before
<1>10. ExecutedFirst(p)'
  <2>1. \A i \in 1 .. Len(executed[p]), j \in 1 .. Len(Tail(q)) :
            Before(executed[p][i], Tail(q)[j])
    BY <1>3, <1>4 DEF OrderOf, ExecutedFirst
  <2>2. QED  BY <1>5, <2>1 DEF ExecutedFirst, Before
<1>11. InHandBetween(p)'
  <2>1. \A i \in 1 .. Len(executed[p]) : Before(executed[p][i], q[1])
    BY <1>3, <1>4 DEF OrderOf, ExecutedFirst
  <2>2. \A j \in 1 .. Len(q) - 1 : Before(q[1], q[j + 1])
    BY <1>3, <1>4 DEF OrderOf, QueuedInOrder
  <2>3. QED  BY <1>4, <1>5, <2>1, <2>2 DEF InHandBetween, Before
<1>12. QuitIsLast(p)'
  BY <1>3, <1>5 DEF OrderOf, QuitIsLast
<1>13. QED
  BY <1>1, <1>2, <1>5, <1>6, <1>7, <1>8, <1>9, <1>10, <1>11, <1>12, OrderOne
  DEF OrderOf

(* The request in hand is replayed.                                        *)
LEMMA ExecuteKeepsOrder ==
    ASSUME OrderInv, NEW p \in PlayerIds, Execute(p)
    PROVE  OrderInv'
<1> DEFINE e == executed[p]
<1>1. BaseInv' /\ BaseInv /\ DispatchOK /\ ReplayOK
  BY ExecuteKeeps, TypeParts DEF OrderInv, BaseInv
<1>2. p \in 1 .. players
  BY <1>1, ExecuteStep DEF BaseInv, Fresh, DispatchOK, PlayerIds
<1>3. /\ e \in Seq(Nat) /\ requestQueue[p] \in Seq(Nat) /\ request[p] \in Nat
      /\ OrderOf(p) /\ ppc[p] = "busy"
  BY <1>1, <1>2, PlayerFacts, ExecuteStep DEF OrderInv
<1>4. /\ executed'[p] = Append(e, request[p]) /\ ppc'[p] \in {"run", "stopped"}
      /\ request[p] = 0 => ppc'[p] = "stopped"
      /\ UNCHANGED <<players, owner, request, requestQueue, tpc, tailed>>
      /\ \A r \in PlayerIds \ {p} :
            /\ requestQueue'[r] = requestQueue[r] /\ request'[r] = request[r]
            /\ executed'[r] = executed[r] /\ ppc'[r] = ppc[r]
  BY <1>1, ExecuteStep DEF ReplayOK, PlayerFrame, tailerVars, CurrentCommand
<1>5. /\ Len(executed'[p]) = Len(e) + 1 /\ Len(e) \in Nat
      /\ \A i \in 1 .. Len(e) : executed'[p][i] = e[i]
      /\ executed'[p][Len(e) + 1] = request[p]
  BY <1>3, <1>4
<1>6. DoneGrows /\ Done(TailerOf[owner[p]])' = Done(TailerOf[owner[p]])
  BY <1>1, <1>4, DoneSame DEF Done
<1>7. GivenIsKnown(p)'
  <2>1. /\ Known(p, request[p]) /\ \A i \in 1 .. Len(e) : Known(p, e[i])
        /\ \A i \in 1 .. Len(requestQueue[p]) : Known(p, requestQueue[p][i])
    BY <1>3 DEF OrderOf, GivenIsKnown
  <2>2. \A i \in 1 .. Len(e) + 1 : Known(p, executed'[p][i])
    BY <1>5, <2>1
  <2>3. QED  BY <1>4, <1>5, <1>6, <2>1, <2>2 DEF GivenIsKnown, Known
<1>8. /\ \A i \in 1 .. Len(e) : Before(e[i], request[p])
      /\ \A j \in 1 .. Len(requestQueue[p]) : Before(request[p], requestQueue[p][j])
  BY <1>3 DEF OrderOf, InHandBetween
<1>9. ExecutedInOrder(p)'
  <2>1. ASSUME NEW i \in 1 .. Len(e) + 1, NEW j \in 1 .. Len(e) + 1, i < j
        PROVE  Before(executed'[p][i], executed'[p][j])
    <3>1. CASE j = Len(e) + 1
      BY <1>5, <1>8, <2>1, <3>1
    <3>2. CASE j # Len(e) + 1
      <4>1. i \in 1 .. Len(e) /\ j \in 1 .. Len(e)
        BY <1>5, <2>1, <3>2
      <4>2. Before(e[i], e[j])
        BY <1>3, <2>1, <4>1 DEF OrderOf, ExecutedInOrder
      <4>3. QED  BY <1>5, <4>1, <4>2
    <3>3. QED  BY <3>1, <3>2
  <2>2. QED  BY <1>5, <2>1 DEF ExecutedInOrder, Before
<1>10. ExecutedFirst(p)'
  <2>1. ASSUME NEW i \in 1 .. Len(e) + 1, NEW j \in 1 .. Len(requestQueue[p])
        PROVE  Before(executed'[p][i], requestQueue[p][j])
    <3>1. CASE i = Len(e) + 1
      BY <1>5, <1>8, <3>1
    <3>2. CASE i # Len(e) + 1
      <4>1. i \in 1 .. Len(e)
        BY <1>5, <3>2
      <4>2. Before(e[i], requestQueue[p][j])
        BY <1>3, <4>1 DEF OrderOf, ExecutedFirst
      <4>3. QED  BY <1>5, <4>1, <4>2
    <3>3. QED  BY <3>1, <3>2
  <2>2. QED  BY <1>4, <1>5, <2>1 DEF ExecutedFirst, Before
<1>11. QueuedInOrder(p)' /\ InHandBetween(p)'
  BY <1>3, <1>4 DEF OrderOf, QueuedInOrder, InHandBetween, Before
<1>12. QuitIsLast(p)'
  <2>1. \A i \in 1 .. Len(e) : e[i] # 0
    BY <1>3 DEF OrderOf, QuitIsLast
  <2>2. QED  BY <1>4, <1>5, <2>1 DEF QuitIsLast
<1>13. QED
  BY <1>1, <1>2, <1>4, <1>6, <1>7, <1>9, <1>10, <1>11, <1>12, OrderOne DEF OrderOf

(* The idle check takes a request out of the queue of an idle player.      *)
LEMMA DrainKeepsOrder ==
    ASSUME OrderInv, DrainQueue
    PROVE  OrderInv'
<1>1. BaseInv' /\ BaseInv /\ ReplayOK
  BY CloseStepKeeps, TypeParts DEF OrderInv, BaseInv
<1>2. PICK p \in 1 .. players : p = idleSQLPlayer
  BY <1>1 DEF BaseInv, Visiting, DrainQueue
<1> DEFINE q == requestQueue[p]
<1>3. /\ q \in Seq(Nat) /\ OrderOf(p) /\ p \in PlayerIds
  BY <1>1, <1>2, PlayerFacts DEF OrderInv
<1>4. UNCHANGED <<players, owner, request, executed, ppc, tpc, tailed>>
  BY DEF DrainQueue, playerVars, tailerVars
<1>5. DoneGrows /\ \A t \in Tailers : Done(t)' = Done(t)
  BY <1>1, <1>4, DoneSame
<1>6. CASE q = <<>>
  <2>1. UNCHANGED requestQueue
    BY <1>2, <1>6 DEF DrainQueue
  <2>2. QED  BY <1>1, <1>4, <1>5, <2>1, OrderFrame
<1>7. CASE q # <<>>
  <2>1. /\ requestQueue'[p] = Tail(q)
        /\ \A r \in PlayerIds \ {p} : requestQueue'[r] = requestQueue[r]
    BY <1>1, <1>2, <1>3, <1>7 DEF DrainQueue, Dequeue, ReplayOK
  <2>2. /\ Len(Tail(q)) = Len(q) - 1 /\ Len(q) \in Nat /\ Len(q) >= 1
        /\ \A i \in 1 .. Len(q) - 1 : Tail(q)[i] = q[i + 1]
    BY <1>3, <1>7
  <2>3. DoneGrows /\ Done(TailerOf[owner[p]])' = Done(TailerOf[owner[p]])
    BY <1>4, <1>5 DEF Done
  <2>4. /\ \A i \in 1 .. Len(q) : Known(p, q[i])
        /\ \A i \in 1 .. Len(executed[p]) : Known(p, executed[p][i])
        /\ ppc[p] = "busy" => Known(p, request[p])
    BY <1>3 DEF OrderOf, GivenIsKnown
  <2>5. \A i \in 1 .. Len(q) - 1 : Known(p, q[i + 1])
    BY <2>2, <2>4
  <2>6. \A i \in 1 .. Len(Tail(q)) : Known(p, Tail(q)[i])
    BY <2>2, <2>5
  <2>7. OrderOf(p) => GivenIsKnown(p)'
    BY <1>4, <2>1, <2>3, <2>4, <2>6 DEF GivenIsKnown, Known
  <2>8. QueuedInOrder(p)'
    <3>0. \A i, j \in 1 .. Len(q) : i < j => Before(q[i], q[j])
      BY <1>3 DEF OrderOf, QueuedInOrder
    <3>1. \A i, j \in 1 .. Len(q) - 1 : i < j => Before(q[i + 1], q[j + 1])
      BY <2>2, <3>0
    <3>2. \A i, j \in 1 .. Len(Tail(q)) : i < j => Before(Tail(q)[i], Tail(q)[j])
      BY <2>2, <3>1
    <3>3. QED  BY <2>1, <3>2 DEF QueuedInOrder, Before
  <2>9. ExecutedFirst(p)'
    <3>1. \A i \in 1 .. Len(executed[p]), j \in 1 .. Len(q) - 1 :
              Before(executed[p][i], q[j + 1])
      BY <1>3, <2>2 DEF OrderOf, ExecutedFirst
    <3>2. \A i \in 1 .. Len(executed[p]), j \in 1 .. Len(Tail(q)) :
              Before(executed[p][i], Tail(q)[j])
      BY <2>2, <3>1
    <3>3. QED  BY <1>4, <2>1, <3>2 DEF ExecutedFirst, Before
  <2>10. InHandBetween(p)'
    <3>1. ppc[p] = "busy" => \A j \in 1 .. Len(q) - 1 : Before(request[p], q[j + 1])
      BY <1>3, <2>2 DEF OrderOf, InHandBetween
    <3>2. ppc[p] = "busy" => \A j \in 1 .. Len(Tail(q)) : Before(request[p], Tail(q)[j])
      BY <2>2, <3>1
    <3>3. ppc[p] = "busy" =>
              \A i \in 1 .. Len(executed[p]) : Before(executed[p][i], request[p])
      BY <1>3 DEF OrderOf, InHandBetween
    <3>4. QED  BY <1>4, <2>1, <3>2, <3>3 DEF InHandBetween, Before
  <2>11. ExecutedInOrder(p)' /\ QuitIsLast(p)'
    BY <1>3, <1>4 DEF OrderOf, ExecutedInOrder, QuitIsLast, Before
  <2>12. OrderOf(p)'
    BY <1>3, <2>7, <2>8, <2>9, <2>10, <2>11 DEF OrderOf
  <2>13. QED
    BY <1>1, <1>2, <1>4, <1>5, <2>1, <2>12, OrderOne
<1>8. QED  BY <1>6, <1>7

(* The idle check puts its QUIT behind everything else.                    *)
LEMMA UrgentQuitKeepsOrder ==
    ASSUME OrderInv, PushUrgentQuit
    PROVE  OrderInv'
<1>1. BaseInv' /\ BaseInv
  BY CloseStepKeeps DEF OrderInv
<1>2. PICK p \in 1 .. players : p = idleSQLPlayer
  BY <1>1 DEF BaseInv, Visiting, PushUrgentQuit
<1>3. /\ requestQueue' = [requestQueue EXCEPT ![p] = Append(@, 0)]
      /\ UNCHANGED <<request, executed, players, owner, ppc, tpc, tailed>>
  BY <1>2 DEF PushUrgentQuit, OfferQuit, playerVars, tailerVars
<1>4. DoneGrows
  BY <1>1, <1>3, DoneSame
<1>5. Of(owner[p], Done(TailerOf[owner[p]])', 0)
  BY DEF Of
<1>6. QED  BY <1>1, <1>2, <1>3, <1>4, <1>5, AppendKeepsOrder

(* A tailer pushes the request it has taken, which is newer than all that  *)
(* it pushed before.                                                       *)
LEMMA OfferKeepsOrder ==
    ASSUME OrderInv, NEW t \in Tailers, Offer(t)
    PROVE  OrderInv'
<1>1. BaseInv' /\ BaseInv /\ DispatchOK
  BY OfferKeeps, TypeParts DEF OrderInv, BaseInv
<1>2. PICK p \in 1 .. players : p = player[t] /\ owner[p] = Handled(t).s
  BY <1>1 DEF BaseInv, Held, Holding, Offer
<1>3. /\ tailed[t] \in 1 .. Len(Stream[t]) /\ Len(Stream[t]) \in Nat
      /\ TailerOf[owner[p]] = t
  BY <1>1, <1>2, HandledDocument, StreamAssumption DEF BaseInv, Offer
<1> PICK n \in Nat : n = tailed[t]
  BY <1>3
<1>4. /\ requestQueue' = [requestQueue EXCEPT ![p] = Append(@, n)]
      /\ UNCHANGED <<request, executed, players, owner, ppc, tailed>>
      /\ tpc'[t] \in {"remove", "tail"} /\ \A u \in Tailers \ {t} : tpc'[u] = tpc[u]
  BY <1>1, <1>2 DEF Offer, playerVars, DispatchOK
<1>5. Done(t) = tailed[t] - 1 /\ Done(t)' = tailed[t]
  BY <1>4 DEF Done, Offer, Pushing
<1>6. DoneGrows
  <2>1. \A u \in Tailers \ {t} : Done(u)' = Done(u)
    BY <1>4 DEF Done
  <2>2. \A u \in Tailers : Done(u) \in Nat
    BY <1>1, DoneIsNat
  <2>3. QED  BY <1>3, <1>5, <2>1, <2>2 DEF DoneGrows
<1>7. Done(TailerOf[owner[p]]) < n /\ Done(TailerOf[owner[p]])' = n
  <2>1. Done(TailerOf[owner[p]]) = Done(t)
    BY <1>3
  <2>2. Done(TailerOf[owner[p]])' = Done(t)'
    BY <1>3, <1>4 DEF Done, Offer
  <2>3. QED  BY <1>3, <1>5, <2>1, <2>2
<1>8. Of(owner[p], Done(TailerOf[owner[p]])', n)
  BY <1>2, <1>3, <1>7 DEF Of, Handled
<1>9. QED
  BY <1>1, <1>2, <1>3, <1>4, <1>6, <1>7, <1>8, AppendKeepsOrder

(* Every step keeps the order.                                             *)
LEMMA TakeRequestKeepsOrder ==
    ASSUME OrderInv, NEW t \in Tailers, NEW n \in 1 .. Len(Stream[t]),
           n > tailed[t], TakeRequest(t, n)
    PROVE  OrderInv'
<1>1. BaseInv /\ BaseInv' /\ DispatchOK /\ DispatchOK'
  BY TakeRequestKeeps, TypeParts DEF OrderInv, BaseInv
<1>2. UNCHANGED <<requestQueue, request, executed, players, owner, ppc>>
  BY DEF TakeRequest, playerVars
<1>3. DoneGrows
  <2>1. \A u \in Tailers : Done(u) \in Nat
    BY <1>1, DoneIsNat
  <2>2. \A u \in Tailers \ {t} : Done(u)' = Done(u)
    BY <1>1 DEF TakeRequest, DispatchOK, Done
  <2>3. tailed[t] \in Nat /\ n \in Nat /\ tailed'[t] = n
    BY <1>1 DEF TakeRequest, DispatchOK
  <2>4. Done(t) <= n - 1 /\ Done(t)' \in Nat /\ n - 1 <= Done(t)'
    BY <2>3 DEF Done
  <2>5. QED  BY <2>1, <2>2, <2>3, <2>4 DEF DoneGrows
<1>4. QED  BY <1>1, <1>2, <1>3, OrderFrame

LEMMA PushNextKeepsOrder ==
    ASSUME OrderInv, NEW t \in Tailers, PushNext(t)
    PROVE  OrderInv'
<1>0. BaseInv /\ DispatchOK /\ ReplayOK
  BY TypeParts DEF OrderInv, BaseInv
<1>1. BaseInv'
  BY <1>0, NewPlayerKeeps, PutPlayerKeeps, StartPlayerKeeps, CheckQueueKeeps,
     OfferKeeps, RemovePlayerKeeps DEF PushNext
<1>2. ASSUME ~Offer(t) PROVE OrderInv'
  <2>1. /\ UNCHANGED <<requestQueue, request, executed, tailed>>
        /\ tpc'[t] \in Pushing => tpc[t] \in Pushing
        /\ \A u \in Tailers \ {t} : tpc'[u] = tpc[u]
    BY <1>0, <1>2 DEF PushNext, NewPlayer, PutPlayer, StartPlayer, CheckQueue,
       RemovePlayer, playerVars, Pushing, DispatchOK
  <2>2. DoneGrows
    <3>1. \A u \in Tailers : Done(u) \in Nat
      BY <1>0, DoneIsNat
    <3>2. \A u \in Tailers \ {t} : Done(u)' = Done(u)
      BY <2>1 DEF Done
    <3>3. Done(t)' \in Nat /\ Done(t) <= Done(t)'
      <4>1. tailed[t] \in Nat
        BY <1>0 DEF DispatchOK
      <4>2. QED  BY <2>1, <3>1, <4>1 DEF Done
    <3>4. QED  BY <3>1, <3>2, <3>3 DEF DoneGrows
  <2>3. CASE NewPlayer(t)
    <3>1. players' = players + 1 /\ UNCHANGED ppc
      BY <2>3 DEF NewPlayer
    <3>2. \A p \in 1 .. players : owner'[p] = owner[p]
      BY <1>0, <2>3, HandledDocument DEF NewPlayer, DispatchOK, BaseInv
    <3>3. QED  BY <1>1, <2>1, <2>2, <3>1, <3>2, OrderFrame
  <2>4. CASE StartPlayer(t)
    <3>1. UNCHANGED <<players, owner>>
      BY <2>4 DEF StartPlayer
    <3>2. /\ ppc[player[t]] = "new" /\ player[t] \in 1 .. players
          /\ ppc' = [ppc EXCEPT ![player[t]] = "init"]
      BY <1>0, <2>4 DEF StartPlayer, BaseInv, Held, Holding
    <3>3. /\ \A p \in 1 .. players : /\ ppc'[p] = "busy" => ppc[p] = "busy"
                                     /\ ppc[p] = "stopped" => ppc'[p] = "stopped"
          /\ \A p \in PlayerIds : p > players => ppc'[p] = ppc[p]
      <4>1. \A p \in PlayerIds : p # player[t] => ppc'[p] = ppc[p]
        BY <1>0, <3>2 DEF ReplayOK
      <4>2. player[t] \in PlayerIds /\ ppc'[player[t]] = "init"
        BY <1>0, <3>2, PlayerFacts DEF ReplayOK
      <4>3. \A p \in 1 .. players : p \in PlayerIds
        BY <1>0, PlayerFacts
      <4>4. \A p \in PlayerIds : p > players => p # player[t]
        BY <1>0, <3>2, PlayerFacts DEF PlayerIds
      <4>5. QED  BY <3>2, <4>1, <4>2, <4>3, <4>4
    <3>4. QED  BY <1>1, <2>1, <2>2, <3>1, <3>3, OrderFrame
  <2>5. CASE PutPlayer(t) \/ CheckQueue(t) \/ RemovePlayer(t)
    <3>1. UNCHANGED <<players, owner, ppc>>
      BY <2>5 DEF PutPlayer, CheckQueue, RemovePlayer, playerVars
    <3>2. QED  BY <1>1, <2>1, <2>2, <3>1, OrderFrame
  <2>6. QED  BY <1>2, <2>3, <2>4, <2>5 DEF PushNext
<1>3. QED  BY <1>2, OfferKeepsOrder

LEMMA PlayerNextKeepsOrder ==
    ASSUME OrderInv, NEW p \in PlayerIds, PlayerNext(p)
    PROVE  OrderInv'
<1>0. BaseInv /\ DispatchOK /\ ReplayOK
  BY TypeParts DEF OrderInv, BaseInv
<1>1. CASE InitPrepared(p) \/ Connect(p) \/ ConnectFails(p)
  <2>1. BaseInv'
    BY <1>0, <1>1, InitKeeps
  <2>2. /\ UNCHANGED <<requestQueue, request, executed, players, owner, tpc, tailed>>
        /\ ppc[p] = "init"
        /\ UNCHANGED ppc \/ ppc' = [ppc EXCEPT ![p] = "run"]
    BY <1>1 DEF InitPrepared, Connect, ConnectFails, tailerVars
  <2>3. p <= players /\ players \in Nat
    BY <1>0, <2>2 DEF BaseInv, Fresh, DispatchOK, PlayerIds
  <2>4. /\ \A r \in 1 .. players : /\ ppc'[r] = "busy" => ppc[r] = "busy"
                                   /\ ppc[r] = "stopped" => ppc'[r] = "stopped"
        /\ \A r \in PlayerIds : r > players => ppc'[r] = ppc[r]
    <3>1. \A r \in PlayerIds : r # p => ppc'[r] = ppc[r]
      BY <1>0, <2>2 DEF ReplayOK
    <3>2. ppc'[p] \in {"init", "run"}
      BY <1>0, <2>2 DEF ReplayOK
    <3>3. \A r \in 1 .. players : r \in PlayerIds
      BY <1>0, PlayerFacts
    <3>4. \A r \in PlayerIds : r > players => r # p
      BY <2>3 DEF PlayerIds
    <3>5. QED  BY <2>2, <3>1, <3>2, <3>3, <3>4
  <2>5. DoneGrows
    BY <1>0, <2>2, DoneSame
  <2>6. QED  BY <2>1, <2>2, <2>4, <2>5, OrderFrame
<1>2. QED
  BY <1>1, PollKeepsOrder, ExecuteKeepsOrder DEF PlayerNext, Execute

LEMMA OrderNext == OrderInv /\ [Next]_vars => OrderInv'
<1> SUFFICES ASSUME OrderInv, [Next]_vars PROVE OrderInv'
  OBVIOUS
<1>0. BaseInv /\ BaseInv'
  BY BaseNext DEF OrderInv
<1>1. ASSUME NEW t \in Tailers, GetPlayer(t) PROVE OrderInv'
  BY <1>0, <1>1, GetPlayerTakes, TakeRequestKeepsOrder DEF BaseInv
<1>2. CASE UNCHANGED <<requestQueue, request, executed, players, owner, ppc, tpc, tailed>>
  BY <1>0, <1>2, DoneSame, OrderFrame
<1>3. CASE MainNext
  <2>1. CASE DrainQueue \/ PushUrgentQuit
    BY <2>1, DrainKeepsOrder, UrgentQuitKeepsOrder
  <2>2. CASE ~(DrainQueue \/ PushUrgentQuit)
    BY <1>2, <1>3, <2>2
    DEF MainNext, CloseIdleSession, CloseDone, VisitEntry, playerVars, tailerVars
  <2>3. QED  BY <2>1, <2>2
<1>4. CASE \/ PreparedConnectionsBreak \/ Finished \/ UNCHANGED vars
           \/ \E p \in PlayerIds : ConnectionBreaks(p) \/ BecomesIdle(p)
  BY <1>2, <1>4
  DEF PreparedConnectionsBreak, Finished, ConnectionBreaks, BecomesIdle,
      vars, replayVars, playerVars, tailerVars
<1>5. QED
  BY <1>1, <1>3, <1>4, PushNextKeepsOrder, PlayerNextKeepsOrder DEF Next, TailerNext

(* Where the requests of a player are.                                     *)
InHand(p) == IF ppc[p] = "busy" THEN <<request[p]>> ELSE <<>>

LEMMA TakenParts ==
    ASSUME BaseInv, NEW p \in 1 .. players
    PROVE  /\ Taken(p) \in Seq(Nat)
           /\ Len(Taken(p)) = Len(executed[p]) + Len(InHand(p)) + Len(requestQueue[p])
           /\ \A i \in 1 .. Len(executed[p]) : Taken(p)[i] = executed[p][i]
           /\ ppc[p] = "busy" => Taken(p)[Len(executed[p]) + 1] = request[p]
           /\ \A i \in 1 .. Len(requestQueue[p]) :
                 Taken(p)[Len(executed[p]) + Len(InHand(p)) + i] = requestQueue[p][i]
<1>1. /\ executed[p] \in Seq(Nat) /\ requestQueue[p] \in Seq(Nat)
      /\ request[p] \in Nat
  BY PlayerFacts
<1>2. /\ InHand(p) \in Seq(Nat) /\ Taken(p) = executed[p] \o InHand(p) \o requestQueue[p]
      /\ ppc[p] = "busy" => Len(InHand(p)) = 1 /\ InHand(p)[1] = request[p]
  BY <1>1 DEF InHand, Taken
<1>3. ASSUME NEW e \in Seq(Nat), NEW h \in Seq(Nat), NEW q \in Seq(Nat)
      PROVE  /\ e \o h \o q \in Seq(Nat)
             /\ Len(e \o h \o q) = Len(e) + Len(h) + Len(q)
             /\ \A i \in 1 .. Len(e) : (e \o h \o q)[i] = e[i]
             /\ \A i \in 1 .. Len(h) : (e \o h \o q)[Len(e) + i] = h[i]
             /\ \A i \in 1 .. Len(q) : (e \o h \o q)[Len(e) + Len(h) + i] = q[i]
  <2>1. /\ e \o h \in Seq(Nat) /\ Len(e \o h) = Len(e) + Len(h)
        /\ \A i \in 1 .. Len(e) : (e \o h)[i] = e[i]
        /\ \A i \in 1 .. Len(h) : (e \o h)[Len(e) + i] = h[i]
    OBVIOUS
  <2> DEFINE f == e \o h
  <2> HIDE DEF f
  <2>2. f \in Seq(Nat)
    BY <2>1 DEF f
  <2>3. /\ f \o q \in Seq(Nat) /\ Len(f \o q) = Len(f) + Len(q)
        /\ \A i \in 1 .. Len(f) : (f \o q)[i] = f[i]
        /\ \A i \in 1 .. Len(q) : (f \o q)[Len(f) + i] = q[i]
    BY <2>2
  <2>4. Len(f) = Len(e) + Len(h) /\ Len(e) \in Nat /\ Len(h) \in Nat
    BY <2>1 DEF f
  <2>5. /\ \A i \in 1 .. Len(e) : (f \o q)[i] = e[i]
        /\ \A i \in 1 .. Len(h) : (f \o q)[Len(e) + i] = h[i]
    BY <2>1, <2>3, <2>4 DEF f
  <2>6. QED  BY <2>3, <2>4, <2>5 DEF f
<1> DEFINE e == executed[p]
           h == InHand(p)
           q == requestQueue[p]
<1>4. /\ e \o h \o q \in Seq(Nat)
      /\ Len(e \o h \o q) = Len(e) + Len(h) + Len(q)
      /\ \A i \in 1 .. Len(e) : (e \o h \o q)[i] = e[i]
      /\ \A i \in 1 .. Len(h) : (e \o h \o q)[Len(e) + i] = h[i]
      /\ \A i \in 1 .. Len(q) : (e \o h \o q)[Len(e) + Len(h) + i] = q[i]
  <2>1. e \in Seq(Nat) /\ h \in Seq(Nat) /\ q \in Seq(Nat)
    BY <1>1, <1>2
  <2> HIDE DEF e, h, q
  <2>2. QED  BY <1>3, <2>1
<1>5. ppc[p] = "busy" => (e \o h \o q)[Len(e) + 1] = h[1]
  <2>1. ppc[p] = "busy" => Len(h) = 1
    BY <1>2
  <2> HIDE DEF e, h, q
  <2>2. ppc[p] = "busy" => 1 \in 1 .. Len(h)
    BY <2>1
  <2>3. QED  BY <1>4, <2>2
<1>6. QED  BY <1>2, <1>4, <1>5

(* The requests a player has been given are in order and of its session.   *)
LEMMA TakenInOrder ==
    ASSUME OrderInv, NEW p \in 1 .. players
    PROVE  /\ \A i \in DOMAIN Taken(p) : Known(p, Taken(p)[i])
           /\ \A i, j \in DOMAIN Taken(p) : i < j => Before(Taken(p)[i], Taken(p)[j])
<1> DEFINE e == executed[p]
           h == InHand(p)
           q == requestQueue[p]
           T == Taken(p)
<1>1. BaseInv /\ OrderOf(p)
  BY DEF OrderInv
<1>2. /\ e \in Seq(Nat) /\ q \in Seq(Nat)
      /\ Len(e) \in Nat /\ Len(q) \in Nat
      /\ Len(h) = (IF ppc[p] = "busy" THEN 1 ELSE 0)
  BY <1>1, PlayerFacts DEF InHand
<1>3. /\ T \in Seq(Nat) /\ Len(T) = Len(e) + Len(h) + Len(q)
      /\ \A i \in 1 .. Len(e) : T[i] = e[i]
      /\ ppc[p] = "busy" => T[Len(e) + 1] = request[p]
      /\ \A i \in 1 .. Len(q) : T[Len(e) + Len(h) + i] = q[i]
  BY <1>1, TakenParts
<1> HIDE DEF e, h, q, T
<1> DEFINE Replay(i) == i \in 1 .. Len(e) /\ T[i] = e[i]
           Hand(i)   == i = Len(e) + 1 /\ ppc[p] = "busy" /\ T[i] = request[p]
           Queue(i)  == /\ i - Len(e) - Len(h) \in 1 .. Len(q)
                        /\ T[i] = q[i - Len(e) - Len(h)]
<1>4. ASSUME NEW i \in DOMAIN T
      PROVE  i \in Nat /\ (Replay(i) \/ Hand(i) \/ Queue(i))
  <2>1. i \in 1 .. Len(e) + Len(h) + Len(q)
    BY <1>3
  <2>2. CASE i <= Len(e)
    <3>1. i \in Nat /\ i \in 1 .. Len(e)
      BY <1>2, <2>1, <2>2
    <3>2. QED  BY <1>3, <3>1
  <2>3. CASE i > Len(e) /\ i <= Len(e) + Len(h)
    <3>1. ppc[p] = "busy" /\ i = Len(e) + 1
      BY <1>2, <2>1, <2>3
    <3>2. QED  BY <1>2, <1>3, <3>1
  <2>4. CASE i > Len(e) + Len(h)
    <3>1. i - Len(e) - Len(h) \in 1 .. Len(q)
      BY <1>2, <2>1, <2>4
    <3>2. i = Len(e) + Len(h) + (i - Len(e) - Len(h)) /\ i \in Nat
      BY <1>2, <2>1
    <3>3. QED  BY <1>3, <3>1, <3>2
  <2>5. QED  BY <1>2, <2>1, <2>2, <2>3, <2>4
<1>5. /\ \A i \in 1 .. Len(e) : Known(p, e[i])
      /\ ppc[p] = "busy" => Known(p, request[p])
      /\ \A i \in 1 .. Len(q) : Known(p, q[i])
  BY <1>1 DEF OrderOf, GivenIsKnown, e, q
<1>6. /\ \A i, j \in 1 .. Len(e) : i < j => Before(e[i], e[j])
      /\ \A i, j \in 1 .. Len(q) : i < j => Before(q[i], q[j])
      /\ \A i \in 1 .. Len(e), j \in 1 .. Len(q) : Before(e[i], q[j])
      /\ ppc[p] = "busy" => \A i \in 1 .. Len(e) : Before(e[i], request[p])
      /\ ppc[p] = "busy" => \A i \in 1 .. Len(q) : Before(request[p], q[i])
  BY <1>1 DEF OrderOf, ExecutedInOrder, QueuedInOrder, ExecutedFirst, InHandBetween, e, q
<1>7. \A i \in DOMAIN T : Known(p, T[i])
  BY <1>4, <1>5
<1>8. ASSUME NEW i \in DOMAIN T, NEW j \in DOMAIN T, i < j
      PROVE  Before(T[i], T[j])
  <2>1. /\ i \in Nat /\ (Replay(i) \/ Hand(i) \/ Queue(i))
        /\ j \in Nat /\ (Replay(j) \/ Hand(j) \/ Queue(j))
    BY <1>4
  <2>2. CASE Replay(j)
    <3>1. i <= Len(e)
      BY <1>2, <1>8, <2>1, <2>2
    <3>2. ~Hand(i) /\ ~Queue(i)
      BY <1>2, <2>1, <3>1
    <3>3. Replay(i)
      BY <2>1, <3>2
    <3>4. QED  BY <1>6, <1>8, <2>2, <3>3
  <2>3. CASE Hand(j)
    <3>1. i <= Len(e)
      BY <1>2, <1>8, <2>1, <2>3
    <3>2. ~Hand(i) /\ ~Queue(i)
      BY <1>2, <2>1, <3>1
    <3>3. Replay(i)
      BY <2>1, <3>2
    <3>4. QED  BY <1>6, <2>3, <3>3
  <2>4. CASE Queue(j)
    <3>1. CASE Replay(i)
      BY <1>6, <2>4, <3>1
    <3>2. CASE Hand(i)
      BY <1>6, <2>4, <3>2
    <3>3. CASE Queue(i)
      <4>1. i - Len(e) - Len(h) < j - Len(e) - Len(h)
        BY <1>2, <1>8, <2>1
      <4>2. QED  BY <1>6, <2>4, <3>3, <4>1
    <3>4. QED  BY <2>1, <3>1, <3>2, <3>3
  <2>5. QED  BY <2>1, <2>2, <2>3, <2>4
<1>9. QED  BY <1>7, <1>8 DEF T

LEMMA OrderGivesSessionOrder ==
    ASSUME OrderInv
    PROVE  SessionOrder
<1>1. SUFFICES ASSUME NEW p \in 1 .. players,
                      NEW i \in DOMAIN Taken(p), NEW j \in DOMAIN Taken(p),
                      Taken(p)[i] # 0, Taken(p)[j] # 0
               PROVE  /\ i < j => Taken(p)[i] < Taken(p)[j]
                      /\ Stream[TailerOf[owner[p]]][Taken(p)[i]].s = owner[p]
  BY DEF SessionOrder
<1>2. Known(p, Taken(p)[i]) /\ (i < j => Before(Taken(p)[i], Taken(p)[j]))
  BY TakenInOrder
<1>3. QED  BY <1>1, <1>2 DEF Known, Of, Before

(* A player is given requests of its own session only, in the order in     *)
(* which they were captured, none twice, while the idle check drains its   *)
(* queue, the tailer goes on pushing, other sessions come and go and       *)
(* lookups miss.                                                           *)
THEOREM SessionsInOrder == Spec => []SessionOrder
<1>1. QED  BY OrderGivesSessionOrder, OrderInit, OrderNext, PTL DEF Spec

=============================================================================
