--------------------------- MODULE PipelineProofs ---------------------------
(***************************************************************************)
(* Proofs about the collection, its tailer and the players together: no    *)
(* failure of the cursor, the collection or a connection makes a document  *)
(* disappear, be replayed twice or out of order.  They rest on the proofs  *)
(* about the two parts: the invariant of CappedCollectionTailer            *)
(* (TailerProofs, instantiated) and those of the players.                  *)
(***************************************************************************)
EXTENDS Pipeline, PlayerDeliveryProofs, PlayerDatabaseProofs

TP == INSTANCE TailerProofs WITH MaxLives <- 0, lives <- 0

(* The tailer hands over what it has read; the bounds of the collection.   *)
CursorOK ==
    /\ TP!TailerInv
    /\ tailed[tailer] <= lastExecuted
    /\ inserted <= MaxDocs
    /\ recreating => inserted < MaxDocs

(* What has become of a document the tailer has moved past.                *)
Accounted(n) ==
    \/ n \in markers \/ n \in missed
    \/ Stream[tailer][n].c = COM_QUIT
    \/ n = tailed[tailer] /\ tpc[tailer] \in Pushing
    \/ \E p \in 1 .. players : owner[p] = Stream[tailer][n].s /\ Has(p, n)
AllAccounted == \A n \in 1 .. lastExecuted : Accounted(n)

(* No two players have the same request.                                   *)
SoleTaker ==
    \A p, q \in 1 .. players : \A n \in 1 .. MaxDocs :
        Has(p, n) /\ Has(q, n) => p = q

PipelineInv == OrderInv /\ CursorOK /\ AllAccounted /\ SoleTaker
-----------------------------------------------------------------------------
(* The constants meet what MongoTailer assumes of them.                    *)
LEMMA TailerConstants ==
    /\ CappedSize \in Nat \ {0} /\ MaxRetries \in Nat /\ MaxDocs \in Nat
    /\ MaxRestarts \in Nat /\ 0 \in Nat
    /\ tailer \in Tailers /\ Len(Stream[tailer]) = MaxDocs
BY PipelineAssumption

(* The steps of the collection and of the cursor are steps of MongoTailer. *)
LEMMA CollectionSteps ==
    ASSUME T!Insert \/ T!DropCollection \/ T!InsertMarker
    PROVE  TP!Insert \/ TP!DropCollection \/ TP!InsertMarker
BY DEF T!Insert, T!DropCollection, T!InsertMarker, T!Safe, T!BiggerOf, T!Stored,
   T!cursorVars, TP!Insert, TP!DropCollection, TP!InsertMarker, TP!Safe,
   TP!BiggerOf, TP!Stored, TP!cursorVars

LEMMA CursorSteps ==
    ASSUME T!Find \/ T!FindFails \/ T!GetMore \/ T!CursorFails \/ T!CursorEnds
    PROVE  TP!Find \/ TP!FindFails \/ TP!GetMore \/ TP!CursorFails \/ TP!CursorEnds
<1>1. T!Find => TP!Find
  BY DEF T!Find, T!ResumeAfter, T!BiggerOf, T!Stored, T!collectionVars,
     TP!Find, TP!ResumeAfter, TP!BiggerOf, TP!Stored, TP!collectionVars
<1>2. T!Caught => TP!Caught
  BY DEF T!Caught, T!GiveUp, T!NextRetry, T!collectionVars,
     TP!Caught, TP!GiveUp, TP!NextRetry, TP!collectionVars
<1>3. T!GetMore \/ T!CursorEnds => TP!GetMore \/ TP!CursorEnds
  BY DEF T!GetMore, T!CursorEnds, T!PositionLost, T!collectionVars,
     TP!GetMore, TP!CursorEnds, TP!PositionLost, TP!collectionVars
<1>4. QED
  BY <1>1, <1>2, <1>3
  DEF T!FindFails, T!CursorFails, TP!FindFails, TP!CursorFails

LEMMA NextDocumentStep == T!NextDocument => TP!NextDocument
BY DEF T!NextDocument, T!Deliver, T!collectionVars,
   TP!NextDocument, TP!Deliver, TP!collectionVars

(* The other threads leave the collection and the cursor alone; of what    *)
(* they share with the tailer, they may end the process.                   *)
LEMMA TailerUntouched ==
    ASSUME TP!TailerInv, UNCHANGED tailVars, proc' \in {"running", "aborted"}
    PROVE  TP!TailerInv'
<1>1. TP!TypeOK'
  BY Zenon DEF TP!TailerInv, TP!TypeOK, tailVars
<1>2. TP!Positions' /\ TP!GapIsMissed' /\ TP!RemovedIsKnown'
  BY DEF TP!TailerInv, TP!Positions, TP!GapIsMissed, TP!RemovedIsKnown, tailVars
<1>3. TP!PushedInOrder' /\ TP!PushedBefore' /\ TP!NothingSkipped'
  BY DEF TP!TailerInv, TP!PushedInOrder, TP!PushedBefore, TP!NothingSkipped, tailVars
<1>4. QED  BY <1>1, <1>2, <1>3 DEF TP!TailerInv

(* What the players' invariants say survives the end of the process.       *)
LEMMA ReplayUntouched ==
    ASSUME OrderInv, UNCHANGED replayVars, proc' \in {proc, "aborted"}
    PROVE  OrderInv'
<1> USE DEF replayVars, mapVars, poolVars, tailerVars, playerVars, connVars, mainVars
<1>1. BaseInv /\ TypeOK
  BY DEF OrderInv, BaseInv
<1>2. TypeOK'
  <2>1. proc' \in {"running", "aborted"}
    BY <1>1, TypeParts DEF DispatchOK
  <2>2. FlagsOK' /\ CounterOK'
    BY Zenon, <1>1, TypeParts DEF FlagsOK, CounterOK
  <2>3. ReplayOK'
    BY <1>1, TypeParts DEF ReplayOK
  <2>4. DispatchOK'
    BY <1>1, <2>1, TypeParts DEF DispatchOK
  <2>5. QED  BY <2>2, <2>3, <2>4, TypeParts
<1>3. Positions' /\ Held' /\ Mapped' /\ Locked' /\ Visiting' /\ Fresh'
  BY <1>1 DEF BaseInv, Positions, Held, Handled, Mapped, Locked, Visiting, Fresh
<1>4. NotGivenUp'
  BY <1>1 DEF BaseInv, NotGivenUp
<1>5. BaseInv'
  BY <1>2, <1>3, <1>4 DEF BaseInv
<1>6. DoneGrows
  BY <1>1, DoneSame
<1>7. QED  BY <1>5, <1>6, OrderFrame

LEMMA ReplayIsNext == ReplayNext => Next
BY PipelineAssumption DEF ReplayNext, Next, TailerNext
-----------------------------------------------------------------------------
(* What a player has are requests its tailer is done with.                 *)
LEMMA HasIsKnown ==
    ASSUME OrderInv, NEW p \in 1 .. players, NEW n \in Nat, Has(p, n)
    PROVE  Known(p, n)
BY DEF OrderInv, OrderOf, GivenIsKnown, Has

(* Taken lists nothing but what the player has.                            *)
LEMMA TakenIsHas ==
    ASSUME BaseInv, NEW p \in 1 .. players, NEW n \in TakenSet(p)
    PROVE  n \in Nat /\ Has(p, n)
<1> DEFINE e == executed[p]
           h == InHand(p)
           q == requestQueue[p]
           all == Taken(p)
<1>1. /\ all \in Seq(Nat) /\ Len(all) = Len(e) + Len(h) + Len(q)
      /\ \A i \in 1 .. Len(e) : all[i] = e[i]
      /\ ppc[p] = "busy" => all[Len(e) + 1] = request[p]
      /\ \A i \in 1 .. Len(q) : all[Len(e) + Len(h) + i] = q[i]
  BY TakenParts
<1>2. /\ Len(e) \in Nat /\ Len(q) \in Nat
      /\ Len(h) = (IF ppc[p] = "busy" THEN 1 ELSE 0) /\ Len(h) \in Nat
  BY PlayerFacts DEF InHand
<1>3. PICK i \in DOMAIN all : all[i] = n
  BY DEF TakenSet
<1>4. Has(p, n) <=> \/ \E j \in 1 .. Len(e) : e[j] = n
                    \/ ppc[p] = "busy" /\ request[p] = n
                    \/ \E j \in 1 .. Len(q) : q[j] = n
  BY DEF Has
<1> HIDE DEF e, h, q, all
<1>5. i \in 1 .. Len(all) /\ n \in Nat
  BY <1>1, <1>3
<1>6. CASE i <= Len(e)
  <2>1. i \in 1 .. Len(e)
    BY <1>2, <1>5, <1>6
  <2>2. QED  BY <1>1, <1>3, <1>4, <1>5, <2>1
<1>7. CASE i > Len(e) + Len(h)
  <2>1. PICK j \in 1 .. Len(q) : i = Len(e) + Len(h) + j
    <3>1. /\ i \in Nat /\ i <= Len(e) + Len(h) + Len(q)
          /\ Len(e) \in Nat /\ Len(h) \in Nat /\ Len(q) \in Nat
      <4>1. Len(all) = Len(e) + Len(h) + Len(q)
        BY <1>1
      <4>2. QED  BY <1>2, <1>5, <4>1
    <3>2. PICK x \in Nat, y \in Nat, z \in Nat :
              x = Len(e) /\ y = Len(h) /\ z = Len(q)
      BY <3>1
    <3>3. i \in Nat /\ i <= x + y + z /\ i > x + y
      BY <1>7, <3>1, <3>2
    <3>4. i - x - y \in 1 .. z /\ i = x + y + (i - x - y)
      BY <3>3
    <3>5. QED  BY <3>2, <3>4
  <2>2. q[j] = n
    BY <1>1, <1>3, <2>1
  <2>3. QED  BY <1>4, <1>5, <2>2
<1>8. CASE i = Len(e) + 1 /\ ppc[p] = "busy"
  BY <1>1, <1>3, <1>4, <1>5, <1>8
<1>9. QED  BY <1>2, <1>5, <1>6, <1>7, <1>8

(* The players keep what they have, so what is accounted for stays so.     *)
LEMMA AccountedStays ==
    ASSUME BaseInv, players' \in Nat, players <= players',
           \A p \in 1 .. players : SameFuture(p) /\ owner'[p] = owner[p],
           markers \subseteq markers', missed \subseteq missed',
           tailed'[tailer] = tailed[tailer] \/ tpc[tailer] \notin Pushing,
           tpc[tailer] \in Pushing => tpc'[tailer] \in Pushing,
           NEW n \in Nat, Accounted(n)
    PROVE  Accounted(n)'
<1>1. CASE \E p \in 1 .. players : owner[p] = Stream[tailer][n].s /\ Has(p, n)
  <2>1. PICK p \in 1 .. players : owner[p] = Stream[tailer][n].s /\ Has(p, n)
    BY <1>1
  <2>2. p \in 1 .. players' /\ owner'[p] = Stream[tailer][n].s /\ Has(p, n)'
    BY <2>1, PlayerFacts DEF SameFuture
  <2>3. QED  BY <2>2 DEF Accounted
<1>2. CASE ~\E p \in 1 .. players : owner[p] = Stream[tailer][n].s /\ Has(p, n)
  BY <1>2 DEF Accounted
<1>3. QED  BY <1>1, <1>2

LEMMA SoleTakerStays ==
    ASSUME SoleTaker, UNCHANGED players, \A p \in 1 .. players : SameFuture(p),
           MaxDocs \in Nat
    PROVE  SoleTaker'
<1>1. \A n \in 1 .. MaxDocs : n \in Nat
  OBVIOUS
<1>2. QED  BY <1>1 DEF SoleTaker, SameFuture

LEMMA PipelineInitInv == PipelineInit => PipelineInv
<1> SUFFICES ASSUME PipelineInit PROVE PipelineInv
  OBVIOUS
<1>1. Init /\ T!Init
  BY DEF PipelineInit
<1>2. TP!Init
  BY <1>1 DEF T!Init, TP!Init
<1>3. TP!TailerInv
  BY <1>2, TailerConstants, TP!TailerInit
<1>4. CursorOK
  <2>1. tailed[tailer] <= lastExecuted /\ inserted <= MaxDocs
    BY <1>1, <1>2, PipelineAssumption DEF Init, TP!Init
  <2>2. ~recreating
    BY <1>2 DEF TP!Init
  <2>3. QED  BY <1>3, <2>1, <2>2 DEF CursorOK
<1>5. AllAccounted /\ SoleTaker
  BY <1>1, <1>2 DEF Init, TP!Init, AllAccounted, SoleTaker
<1>6. QED  BY <1>1, <1>4, <1>5, OrderInit DEF PipelineInv

(* Facts about the tailer of the pipeline.                                 *)
LEMMA TailerFacts ==
    ASSUME PipelineInv
    PROVE  /\ BaseInv /\ DispatchOK /\ TP!NumbersOK
           /\ tailer \in Tailers /\ MaxDocs \in Nat
           /\ tailed[tailer] \in Nat
           /\ lastExecuted \in Nat /\ inserted \in Nat
           /\ lastExecuted <= inserted /\ inserted <= MaxDocs
<1>1. BaseInv /\ DispatchOK
  BY TypeParts DEF PipelineInv, OrderInv, BaseInv
<1>2. TP!NumbersOK /\ TP!Positions
  BY Zenon DEF PipelineInv, CursorOK, TP!TailerInv, TP!TypeOK, TP!NumbersOK
<1>3. QED
  BY <1>1, <1>2, TailerConstants
  DEF DispatchOK, TP!NumbersOK, TP!Positions, PipelineInv, CursorOK
(* The collector inserts, MongoDB makes room, the collection is dropped.   *)
LEMMA CollectionKeeps ==
    ASSUME PipelineInv, CollectionNext
    PROVE  PipelineInv'
<1>1. /\ BaseInv /\ MaxDocs \in Nat /\ lastExecuted \in Nat
      /\ inserted \in Nat /\ inserted <= MaxDocs
  BY TailerFacts
<1>2. TP!Insert \/ TP!DropCollection \/ TP!InsertMarker
  BY CollectionSteps DEF CollectionNext
<1>3. TP!TailerInv'
  BY <1>2, TailerConstants, TP!InsertKeeps, TP!DropKeeps, TP!MarkerKeeps
  DEF PipelineInv, CursorOK
<1>4. /\ UNCHANGED lastExecuted /\ markers \subseteq markers' /\ missed \subseteq missed'
      /\ UNCHANGED vars
  BY <1>2 DEF CollectionNext, TP!Insert, TP!DropCollection, TP!InsertMarker
<1>5. CursorOK'
  <2>1. UNCHANGED tailed
    BY <1>4 DEF vars, replayVars, tailerVars
  <2>2. inserted' <= MaxDocs /\ (recreating' => inserted' < MaxDocs)
    <3>1. CASE TP!Insert
      BY <1>1, <3>1 DEF TP!Insert
    <3>2. CASE TP!DropCollection
      BY <1>1, <3>2 DEF TP!DropCollection
    <3>3. CASE TP!InsertMarker
      <4>1. ~recreating'
        BY <3>3 DEF TP!InsertMarker
      <4>2. inserted < MaxDocs /\ inserted' = inserted + 1
        BY <3>3 DEF TP!InsertMarker, PipelineInv, CursorOK
      <4>3. QED  BY <1>1, <4>1, <4>2
    <3>4. QED  BY <1>2, <3>1, <3>2, <3>3
  <2>3. QED  BY <1>3, <1>4, <2>1, <2>2 DEF PipelineInv, CursorOK
<1>6. /\ UNCHANGED <<players, owner, requestQueue, request, executed, ppc, tailed, tpc>>
      /\ OrderInv'
  <2>1. UNCHANGED <<players, owner, requestQueue, request, executed, ppc, tailed, tpc>>
    BY <1>4 DEF vars, replayVars, playerVars, tailerVars
  <2>2. QED  BY <1>4, <2>1, ReplayUntouched DEF PipelineInv, vars
<1>7. \A p \in 1 .. players : SameFuture(p)
  BY <1>6, UntouchedFuture
<1>8. AllAccounted'
  <2>1. players \in Nat
    BY <1>1, TypeParts, OptionsAssumption DEF BaseInv, DispatchOK, PlayerIds
  <2>2. SUFFICES ASSUME NEW n \in 1 .. lastExecuted PROVE Accounted(n)'
    BY <1>4 DEF AllAccounted
  <2>3. n \in Nat /\ Accounted(n)
    BY <1>1 DEF PipelineInv, AllAccounted
  <2>4. QED  BY <1>1, <1>4, <1>6, <1>7, <2>1, <2>3, AccountedStays
<1>9. SoleTaker'
  BY <1>1, <1>6, <1>7, SoleTakerStays DEF PipelineInv
<1>10. QED  BY <1>5, <1>6, <1>8, <1>9 DEF PipelineInv

(* The cursor is opened, asked for more, lost, or given up with the        *)
(* process: the documents handled stay the same.                           *)
LEMMA CursorKeeps ==
    ASSUME PipelineInv, CursorNext
    PROVE  PipelineInv'
<1>1. BaseInv /\ MaxDocs \in Nat /\ lastExecuted \in Nat
  BY TailerFacts
<1>2. TP!Find \/ TP!FindFails \/ TP!GetMore \/ TP!CursorFails \/ TP!CursorEnds
  BY CursorSteps DEF CursorNext
<1>3. TP!TailerInv'
  BY <1>2, TailerConstants, TP!TailerNext DEF PipelineInv, CursorOK, TP!Next
<1>4. /\ UNCHANGED <<lastExecuted, markers, missed, inserted, recreating>>
      /\ proc' \in {proc, "aborted"}
  BY <1>2 DEF TP!Find, TP!FindFails, TP!GetMore, TP!CursorFails, TP!CursorEnds,
     TP!Caught, TP!collectionVars
<1>5. OrderInv'
  BY <1>4, ReplayUntouched DEF CursorNext, PipelineInv
<1>6. UNCHANGED <<players, owner, requestQueue, request, executed, ppc, tailed, tpc>>
  BY DEF CursorNext, replayVars, playerVars, tailerVars
<1>7. CursorOK'
  BY <1>3, <1>4, <1>6 DEF PipelineInv, CursorOK
<1>8. \A p \in 1 .. players : SameFuture(p)
  BY <1>6, UntouchedFuture
<1>9. AllAccounted'
  <2>1. players \in Nat
    BY <1>1, TypeParts, OptionsAssumption DEF BaseInv, DispatchOK, PlayerIds
  <2>2. SUFFICES ASSUME NEW n \in 1 .. lastExecuted PROVE Accounted(n)'
    BY <1>4 DEF AllAccounted
  <2>3. n \in Nat /\ Accounted(n)
    BY <1>1 DEF PipelineInv, AllAccounted
  <2>4. QED  BY <1>1, <1>4, <1>6, <1>8, <2>1, <2>3, AccountedStays
<1>10. SoleTaker'
  BY <1>1, <1>6, <1>8, SoleTakerStays DEF PipelineInv
<1>11. QED  BY <1>5, <1>7, <1>9, <1>10 DEF PipelineInv
(* The next document is handed over, unless it is a marker.  The ones      *)
(* between it and the last one have been removed by MongoDB.               *)
LEMMA DispatchKeeps ==
    ASSUME PipelineInv, Dispatch
    PROVE  PipelineInv'
<1>1. /\ BaseInv /\ DispatchOK /\ tailer \in Tailers /\ MaxDocs \in Nat
      /\ tailed[tailer] \in Nat /\ lastExecuted \in Nat /\ inserted \in Nat
  BY TailerFacts
<1>2. TP!NextDocument /\ tpc[tailer] = "tail"
  BY NextDocumentStep DEF Dispatch, Tailing
<1>3. TP!TailerInv'
  BY <1>2, TailerConstants, TP!NextDocumentKeeps DEF PipelineInv, CursorOK
<1>4. /\ pos \in Nat /\ lastExecuted <= pos /\ pos + 1 <= inserted
      /\ inserted <= MaxDocs /\ tailed[tailer] <= lastExecuted
      /\ \A n \in lastExecuted + 1 .. pos : n \in missed
  <2>1. pos \in Nat /\ fetched \in Nat
    BY TailerFacts DEF TP!NumbersOK
  <2>2. TP!Positions /\ TP!GapIsMissed /\ pc = "iterate" /\ pos < fetched
    BY <1>2 DEF PipelineInv, CursorOK, TP!TailerInv, TP!NextDocument
  <2>3. QED
    BY <1>1, <2>1, <2>2 DEF PipelineInv, CursorOK, TP!Positions, TP!GapIsMissed
<1>5. /\ lastExecuted' = pos + 1
      /\ UNCHANGED <<proc, markers, missed, inserted, recreating>>
  BY <1>2 DEF TP!NextDocument, TP!collectionVars
<1> PICK m \in 1 .. Len(Stream[tailer]) : m = pos + 1
  BY <1>1, <1>4, TailerConstants
<1>6. /\ UNCHANGED <<players, owner, requestQueue, request, executed, ppc>>
      /\ OrderInv'
      /\ \/ m \in markers /\ UNCHANGED <<tailed, tpc>>
         \/ /\ tailed' = [tailed EXCEPT ![tailer] = m]
            /\ \/ tpc'[tailer] \in Pushing
               \/ CommandOf(Stream[tailer][m]) = COM_QUIT
  <2>1. CASE m \in markers
    <3>1. UNCHANGED replayVars
      BY <2>1 DEF Dispatch
    <3>2. QED
      BY <1>5, <2>1, <3>1, ReplayUntouched
      DEF PipelineInv, replayVars, playerVars, tailerVars
  <2>2. CASE m \notin markers
    <3>1. TakeRequest(tailer, m)
      BY <2>2 DEF Dispatch
    <3>2. m > tailed[tailer]
      BY <1>1, <1>4
    <3>3. OrderInv'
      BY <1>1, <3>1, <3>2, TakeRequestKeepsOrder DEF PipelineInv
    <3>4. QED
      BY <1>1, <3>1, <3>3 DEF TakeRequest, playerVars, DispatchOK, Pushing
  <2>3. QED  BY <2>1, <2>2
<1>7. CursorOK'
  <2>1. tailed'[tailer] <= pos + 1
    BY <1>1, <1>4, <1>6 DEF DispatchOK
  <2>2. QED  BY <1>3, <1>5, <2>1 DEF PipelineInv, CursorOK
<1>8. \A p \in 1 .. players : SameFuture(p)
  BY <1>6, UntouchedFuture
<1>9. AllAccounted'
  <2>1. players \in Nat
    BY <1>1, OptionsAssumption DEF DispatchOK, PlayerIds
  <2>2. SUFFICES ASSUME NEW n \in 1 .. pos + 1 PROVE Accounted(n)'
    BY <1>5 DEF AllAccounted
  <2>3. CASE n <= lastExecuted
    <3>1. n \in Nat /\ Accounted(n)
      BY <1>1, <1>4, <2>3 DEF PipelineInv, AllAccounted
    <3>2. tpc[tailer] \notin Pushing
      BY <1>2 DEF Pushing
    <3>3. QED  BY <1>1, <1>5, <1>6, <1>8, <2>1, <3>1, <3>2, AccountedStays
  <2>4. CASE n \in lastExecuted + 1 .. pos
    BY <1>4, <1>5, <2>4 DEF Accounted
  <2>5. CASE n = m
    <3>1. CommandOf(Stream[tailer][m]) = COM_QUIT => Stream[tailer][m].c = COM_QUIT
      BY DEF CommandOf, COM_QUIT, COM_INIT_DB, COM_LOGIN
    <3>2. \/ m \in markers' \/ Stream[tailer][m].c = COM_QUIT
          \/ m = tailed'[tailer] /\ tpc'[tailer] \in Pushing
      BY <1>1, <1>5, <1>6, <3>1 DEF DispatchOK
    <3>3. QED  BY <2>5, <3>2 DEF Accounted
  <2>6. QED  BY <1>1, <1>4, <2>3, <2>4, <2>5
<1>10. SoleTaker'
  BY <1>1, <1>6, <1>8, SoleTakerStays DEF PipelineInv
<1>11. QED  BY <1>6, <1>7, <1>9, <1>10 DEF PipelineInv

(* The steps that leave the collection alone, in which no request is       *)
(* pushed: a player may be added, and has nothing yet.                     *)
LEMMA ReplayFrame ==
    ASSUME PipelineInv, OrderInv', UNCHANGED tailVars, UNCHANGED tailed,
           players' = players \/ players' = players + 1,
           \A p \in 1 .. players : SameFuture(p) /\ owner'[p] = owner[p],
           players' # players => UNCHANGED <<requestQueue, executed, ppc>>,
           tpc[tailer] \in Pushing => tpc'[tailer] \in Pushing
    PROVE  PipelineInv'
<1>1. BaseInv /\ DispatchOK /\ MaxDocs \in Nat /\ lastExecuted \in Nat /\ DispatchOK'
  BY TailerFacts, TypeParts DEF OrderInv, BaseInv
<1>2. players \in Nat /\ players' \in Nat /\ players <= players'
  BY <1>1, OptionsAssumption DEF DispatchOK, PlayerIds
<1>3. CursorOK'
  <2>1. proc' \in {"running", "aborted"}
    BY <1>1 DEF DispatchOK
  <2>2. TP!TailerInv'
    BY <2>1, TailerUntouched DEF PipelineInv, CursorOK
  <2>3. QED  BY <2>2 DEF PipelineInv, CursorOK, tailVars
<1>4. AllAccounted'
  <2>1. UNCHANGED <<lastExecuted, markers, missed>>
    BY DEF tailVars
  <2>2. SUFFICES ASSUME NEW n \in 1 .. lastExecuted PROVE Accounted(n)'
    BY <2>1 DEF AllAccounted
  <2>3. n \in Nat /\ Accounted(n)
    BY <1>1 DEF PipelineInv, AllAccounted
  <2>4. QED  BY <1>1, <1>2, <2>1, <2>3, AccountedStays
<1>5. SoleTaker'
  <2>1. ASSUME NEW p \in 1 .. players', p \notin 1 .. players, NEW n \in Nat
        PROVE  ~Has(p, n)'
    <3>1. players' = players + 1 /\ p = players + 1 /\ p \in PlayerIds
      BY <1>1, <1>2, <2>1 DEF DispatchOK, PlayerIds
    <3>2. requestQueue'[p] = <<>> /\ executed'[p] = <<>> /\ ppc'[p] = "new"
      BY <1>1, <1>2, <3>1 DEF BaseInv, Fresh
    <3>3. QED  BY <3>2 DEF Has
  <2>2. SUFFICES ASSUME NEW p \in 1 .. players', NEW q \in 1 .. players',
                        NEW n \in 1 .. MaxDocs, Has(p, n)', Has(q, n)'
                 PROVE  p = q
    BY DEF SoleTaker
  <2>3. n \in Nat /\ p \in 1 .. players /\ q \in 1 .. players
    BY <1>1, <2>1, <2>2
  <2>4. Has(p, n) /\ Has(q, n)
    BY <2>2, <2>3 DEF SameFuture
  <2>5. QED  BY <2>3, <2>4 DEF PipelineInv, SoleTaker
<1>6. QED  BY <1>3, <1>4, <1>5 DEF PipelineInv
(* The request is pushed: its player has it now, and nobody had it before, *)
(* because it is newer than all that the tailer is done with.              *)
LEMMA OfferAccounts ==
    ASSUME PipelineInv, Offer(tailer), UNCHANGED tailVars, OrderInv'
    PROVE  PipelineInv'
<1>1. /\ BaseInv /\ DispatchOK /\ tailer \in Tailers /\ MaxDocs \in Nat
      /\ lastExecuted \in Nat /\ DispatchOK' /\ ReplayOK
  BY TailerFacts, TypeParts DEF OrderInv, BaseInv
<1>2. PICK p \in 1 .. players : p = player[tailer] /\ owner[p] = Handled(tailer).s
  BY <1>1 DEF BaseInv, Held, Holding, Offer
<1>3. tailed[tailer] \in 1 .. Len(Stream[tailer])
  BY <1>1, HandledDocument DEF BaseInv, Offer
<1> PICK k \in Nat : k = tailed[tailer] /\ k \in 1 .. MaxDocs
  BY <1>1, <1>3, TailerConstants
<1>4. /\ requestQueue' = [requestQueue EXCEPT ![p] = Append(@, k)]
      /\ UNCHANGED <<request, executed, players, owner, ppc, tailed, proc>>
      /\ tpc[tailer] = "offer"
  BY <1>2 DEF Offer, playerVars, connVars
<1>5. \A n \in Nat : Has(p, n)' <=> Has(p, n) \/ n = k
  BY <1>1, <1>4, AppendFuture
<1>6. ASSUME NEW q \in 1 .. players, q # p, NEW n \in Nat PROVE Has(q, n)' <=> Has(q, n)
  <2>1. q \in PlayerIds
    BY <1>1, PlayerFacts
  <2>2. requestQueue'[q] = requestQueue[q]
    BY <1>1, <1>4, <1>6, <2>1 DEF ReplayOK
  <2>3. QED  BY <1>4, <2>2, UntouchedFuture DEF SameFuture
<1>7. ASSUME NEW q \in 1 .. players PROVE ~Has(q, k)
  <2>1. TailerOf[owner[q]] = tailer
    BY <1>1, PlayerFacts, PipelineAssumption
  <2>2. Done(tailer) = k - 1
    BY <1>4 DEF Done, Pushing
  <2>3. Has(q, k) => k \in 1 .. Done(tailer)
    BY <2>1, HasIsKnown DEF PipelineInv, Known, Of
  <2>4. QED  BY <2>2, <2>3
<1>8. CursorOK'
  <2>1. TP!TailerInv'
    BY <1>1, TailerUntouched DEF PipelineInv, CursorOK, DispatchOK
  <2>2. QED  BY <1>4, <2>1 DEF PipelineInv, CursorOK, tailVars
<1>9. AllAccounted'
  <2>1. UNCHANGED <<lastExecuted, markers, missed>>
    BY DEF tailVars
  <2>2. SUFFICES ASSUME NEW n \in 1 .. lastExecuted PROVE Accounted(n)'
    BY <2>1 DEF AllAccounted
  <2>3. n \in Nat /\ Accounted(n)
    BY <1>1 DEF PipelineInv, AllAccounted
  <2>4. CASE n = k
    <3>1. Has(p, n)' /\ owner'[p] = Stream[tailer][n].s
      BY <1>2, <1>4, <1>5, <2>4 DEF Handled
    <3>2. QED  BY <1>4, <3>1 DEF Accounted
  <2>5. CASE \E q \in 1 .. players : owner[q] = Stream[tailer][n].s /\ Has(q, n)
    <3>1. PICK q \in 1 .. players : owner[q] = Stream[tailer][n].s /\ Has(q, n)
      BY <2>5
    <3>2. Has(q, n)'
      BY <1>5, <1>6, <2>3, <3>1
    <3>3. QED  BY <1>4, <3>1, <3>2 DEF Accounted
  <2>6. QED  BY <2>1, <2>3, <2>4, <2>5 DEF Accounted
<1>10. SoleTaker'
  <2>1. SUFFICES ASSUME NEW q \in 1 .. players, NEW r \in 1 .. players,
                        NEW n \in 1 .. MaxDocs, Has(q, n)', Has(r, n)'
                 PROVE  q = r
    BY <1>4 DEF SoleTaker
  <2>2. n \in Nat
    BY <1>1
  <2>3. CASE n = k
    <3>1. ASSUME NEW z \in 1 .. players, Has(z, n)' PROVE z = p
      BY <1>6, <1>7, <2>2, <2>3, <3>1
    <3>2. QED  BY <2>1, <3>1
  <2>4. CASE n # k
    <3>1. Has(q, n) /\ Has(r, n)
      BY <1>5, <1>6, <2>1, <2>2, <2>4
    <3>2. QED  BY <3>1 DEF PipelineInv, SoleTaker
  <2>5. QED  BY <2>3, <2>4
<1>11. QED  BY <1>8, <1>9, <1>10 DEF PipelineInv

LEMMA ReplayKeeps ==
    ASSUME PipelineInv, ReplayNext
    PROVE  PipelineInv'
<1>1. /\ BaseInv /\ DispatchOK /\ tailer \in Tailers /\ OrderInv' /\ UNCHANGED tailVars
  BY TailerFacts, ReplayIsNext, OrderNext DEF PipelineInv, ReplayNext
<1>2. CASE PushNext(tailer) /\ ~Offer(tailer)
  <2>1. /\ UNCHANGED <<tailed, requestQueue, executed>>
        /\ \A p \in 1 .. players : SameFuture(p) /\ owner'[p] = owner[p]
    BY <1>1, <1>2, PushSameDone, PushFuture
  <2>2. /\ players' = players \/ players' = players + 1
        /\ players' # players => UNCHANGED ppc
        /\ tpc[tailer] \in Pushing => tpc'[tailer] \in Pushing
    BY <1>1, <1>2 DEF PushNext, NewPlayer, PutPlayer, StartPlayer, CheckQueue,
       RemovePlayer, Pushing, DispatchOK
  <2>3. QED  BY <1>1, <2>1, <2>2, ReplayFrame
<1>3. CASE Offer(tailer)
  BY <1>1, <1>3, OfferAccounts
<1>4. ASSUME NEW p \in PlayerIds, PlayerNext(p) PROVE PipelineInv'
  <2>1. UNCHANGED <<players, owner, tailed, tpc>>
    BY <1>4, ExecuteStep
    DEF PlayerNext, Execute, InitPrepared, Connect, ConnectFails, Poll, PlayerFrame,
        tailerVars
  <2>2. \A q \in 1 .. players : SameFuture(q)
    BY <1>1, <1>4, PlayerNextFuture
  <2>3. QED  BY <1>1, <2>1, <2>2, ReplayFrame
<1>5. CASE PreparedConnectionsBreak \/ \E p \in PlayerIds : ConnectionBreaks(p)
  <2>1. UNCHANGED <<players, owner, tailed, tpc, requestQueue, request, executed, ppc>>
    BY <1>5 DEF PreparedConnectionsBreak, ConnectionBreaks, playerVars, tailerVars
  <2>2. \A q \in 1 .. players : SameFuture(q)
    BY <2>1, UntouchedFuture
  <2>3. QED  BY <1>1, <2>1, <2>2, ReplayFrame
<1>6. QED  BY <1>2, <1>3, <1>4, <1>5 DEF ReplayNext

LEMMA StutterKeeps ==
    ASSUME PipelineInv, UNCHANGED pipelineVars
    PROVE  PipelineInv'
<1>1. UNCHANGED tailVars /\ UNCHANGED vars
  BY DEF pipelineVars
<1>2. OrderInv'
  BY <1>1, OrderNext DEF PipelineInv
<1>3. UNCHANGED <<players, owner, tailed, tpc, requestQueue, request, executed, ppc>>
  BY <1>1 DEF vars, replayVars, playerVars, tailerVars
<1>4. \A q \in 1 .. players : SameFuture(q)
  BY <1>3, UntouchedFuture
<1>5. QED  BY <1>1, <1>2, <1>3, <1>4, ReplayFrame

(* Every step of the pipeline keeps the invariant.                         *)
LEMMA PipelineKeeps ==
    PipelineInv /\ [PipelineNext]_pipelineVars => PipelineInv'
BY CollectionKeeps, CursorKeeps, DispatchKeeps, ReplayKeeps, StutterKeeps
DEF PipelineNext, PipelineAborted

LEMMA InvAccounts ==
    ASSUME PipelineInv
    PROVE  DocumentsAccounted
<1>1. /\ BaseInv /\ lastExecuted \in Nat /\ MaxDocs \in Nat /\ inserted \in Nat
      /\ lastExecuted <= inserted /\ inserted <= MaxDocs
  BY TailerFacts
<1>2. ASSUME NEW n \in 1 .. lastExecuted, NEW p \in 1 .. players, Has(p, n)
      PROVE  /\ n \in TakenSet(p)
             /\ \A q \in (1 .. players) \ {p} : n \notin TakenSet(q)
  <2>1. n \in Nat /\ n \in 1 .. MaxDocs
    BY <1>1
  <2>2. ASSUME NEW q \in 1 .. players, n \in TakenSet(q) PROVE q = p
    <3>1. Has(q, n)
      BY <1>1, <2>2, TakenIsHas
    <3>2. QED  BY <1>2, <2>1, <3>1 DEF PipelineInv, SoleTaker
  <2>3. QED  BY <1>1, <1>2, <2>1, <2>2, HasIsTaken
<1>3. SUFFICES ASSUME NEW n \in 1 .. lastExecuted,
                      n \notin markers, n \notin missed,
                      Stream[tailer][n].c # COM_QUIT,
                      ~(n = tailed[tailer] /\ ~Tailing)
               PROVE  \E p \in 1 .. players :
                         /\ n \in TakenSet(p) /\ owner[p] = Stream[tailer][n].s
                         /\ \A q \in (1 .. players) \ {p} : n \notin TakenSet(q)
  BY DEF DocumentsAccounted
<1>4. ~(n = tailed[tailer] /\ tpc[tailer] \in Pushing)
  BY <1>3 DEF Tailing, Pushing
<1>5. PICK p \in 1 .. players : owner[p] = Stream[tailer][n].s /\ Has(p, n)
  BY <1>3, <1>4 DEF PipelineInv, AllAccounted, Accounted
<1>6. QED  BY <1>2, <1>3, <1>5

(* A document that the tailer has moved past is a marker, was removed by   *)
(* MongoDB before it could be fetched, is a QUIT, is in pushEvent2Player   *)
(* now, or has been taken by exactly one player, one of its session:       *)
(* whatever the size of the collection, the number of failures tolerated   *)
(* and the streams.                                                        *)
THEOREM PipelineAccounts == PipelineSpec => []DocumentsAccounted
<1>1. QED  BY InvAccounts, PipelineInitInv, PipelineKeeps, PTL DEF PipelineSpec
-----------------------------------------------------------------------------
(* The pipeline is an ordered relay for every player.                      *)

LEMMA EndToEndInit == PipelineInit => EndToEnd!Init
<1> SUFFICES ASSUME PipelineInit PROVE EndToEnd!Init
  OBVIOUS
<1>1. Init /\ inserted = 1
  BY DEF PipelineInit, T!Init
<1>2. Out = [p \in PlayerIds |-> <<>>]
  BY <1>1 DEF Init, Out, Replays
<1>3. QED  BY <1>1, <1>2 DEF EndToEnd!Init, Out

(* What was tailed had been inserted.                                      *)
LEMMA ExecuteLeavesPipeline ==
    ASSUME PipelineInv, NEW p \in PlayerIds, Execute(p), UNCHANGED tailVars
    PROVE  EndToEnd!Leave
<1>1. /\ BaseInv /\ ReplayOK /\ tailed[tailer] \in Nat /\ lastExecuted \in Nat
      /\ inserted \in Nat /\ lastExecuted <= inserted /\ tailed[tailer] <= lastExecuted
      /\ OrderInv
  BY TailerFacts, TypeParts DEF BaseInv, PipelineInv, CursorOK
<1>2. UNCHANGED inserted
  BY DEF tailVars
<1>3. ReplayOK'
  BY <1>1, ExecuteKeeps, TypeParts DEF BaseInv
<1>4. ASSUME NEW f \in PlayerIds
      PROVE  EndToEnd!Extends(Replays(f), Replays(f)', inserted)
  <2>1. Replays(f) \in Seq(Nat) /\ Replays(f)' \in Seq(Nat)
    <3>1. Replays(f) \in Seq(Nat)
      BY <1>1, ReplaysIsSequence
    <3>2. Replays(f)' \in Seq(Nat)
      <4>1. executed'[f] \in Seq(Nat)
        BY <1>3 DEF ReplayOK
      <4> DEFINE e == executed'[f]
      <4> HIDE DEF e
      <4>2. e \in Seq(Nat) /\ (Len(e) > 0 => SubSeq(e, 1, Len(e) - 1) \in Seq(Nat))
        BY <4>1 DEF e
      <4>3. QED  BY <4>2 DEF Replays, e
    <3>3. QED  BY <3>1, <3>2
  <2>2. CASE f = p
    <3>1. TailerOf[owner[p]] = tailer
      BY <1>1, ExecuteExtends, PlayerFacts, PipelineAssumption
    <3>2. Relay!Extends(Replays(p), Replays(p)', tailed[tailer])
      BY <1>1, <3>1, ExecuteExtends
    <3> DEFINE q == Replays(p)
               r == Replays(p)'
    <3>3. q \in Seq(Nat) /\ r \in Seq(Nat)
      BY <2>1, <2>2
    <3>4. Relay!Extends(q, r, tailed[tailer])
      BY <3>2
    <3> HIDE DEF q, r
    <3>5. EndToEnd!Extends(q, r, inserted)
      <4>1. /\ Len(q) <= Len(r) /\ Len(q) \in Nat /\ Len(r) \in Nat
            /\ \A i \in 1 .. Len(q) : r[i] = q[i]
            /\ \A i \in Len(q) + 1 .. Len(r) :
                  r[i] <= tailed[tailer] /\ \A j \in 1 .. i - 1 : r[j] < r[i]
        BY <3>3, <3>4 DEF Relay!Extends
      <4>2. \A i \in Len(q) + 1 .. Len(r) : r[i] \in Nat
        BY <3>3, <4>1
      <4>3. \A i \in Len(q) + 1 .. Len(r) : r[i] <= inserted
        BY <1>1, <4>1, <4>2
      <4>4. QED  BY <4>1, <4>3 DEF EndToEnd!Extends
    <3>6. QED  BY <2>2, <3>5 DEF q, r
  <2>3. CASE f # p
    <3>1. executed'[f] = executed[f]
      BY <1>1, <2>3, ExecuteStep DEF ReplayOK
    <3>2. Replays(f)' = Replays(f)
      BY <3>1 DEF Replays
    <3>3. QED  BY <2>1, <3>2 DEF EndToEnd!Extends
  <2>4. QED  BY <2>2, <2>3
<1>5. QED  BY <1>2, <1>4 DEF EndToEnd!Leave

LEMMA EndToEndNext ==
    PipelineInv /\ [PipelineNext]_pipelineVars => [EndToEnd!Next]_(EndToEnd!vars)
<1> SUFFICES ASSUME PipelineInv, [PipelineNext]_pipelineVars
             PROVE  [EndToEnd!Next]_(EndToEnd!vars)
  OBVIOUS
<1>1. CASE UNCHANGED <<executed, inserted>>
  BY <1>1 DEF EndToEnd!vars, Replays
<1>2. CASE CollectionNext
  <2>1. UNCHANGED executed
    BY <1>2 DEF CollectionNext, vars, replayVars, playerVars
  <2>2. inserted \in Nat /\ inserted' >= inserted
    BY <1>2, TailerFacts DEF CollectionNext, T!Insert, T!DropCollection, T!InsertMarker
  <2>3. Out' = Out
    BY <2>1 DEF Out, Replays
  <2>4. QED  BY <2>2, <2>3 DEF EndToEnd!Next, EndToEnd!Enter, Out
<1>3. CASE CursorNext \/ Dispatch
  BY <1>1, <1>3 DEF CursorNext, Dispatch, TakeRequest, replayVars, playerVars, T!Find,
     T!FindFails, T!GetMore, T!CursorFails, T!CursorEnds, T!Caught, T!NextDocument,
     T!collectionVars
<1>4. CASE ReplayNext
  <2>1. UNCHANGED tailVars /\ UNCHANGED inserted
    BY <1>4 DEF ReplayNext, tailVars
  <2>2. ASSUME NEW p \in PlayerIds, PlayerNext(p) PROVE [EndToEnd!Next]_(EndToEnd!vars)
    <3>1. CASE Execute(p)
      BY <2>1, <3>1, ExecuteLeavesPipeline DEF EndToEnd!Next
    <3>2. CASE ~Execute(p)
      BY <1>1, <2>1, <2>2, <3>2
      DEF PlayerNext, Execute, InitPrepared, Connect, ConnectFails, Poll
    <3>3. QED  BY <3>1, <3>2
  <2>3. ASSUME \/ PushNext(tailer) \/ PreparedConnectionsBreak
               \/ \E p \in PlayerIds : ConnectionBreaks(p)
        PROVE  [EndToEnd!Next]_(EndToEnd!vars)
    BY <1>1, <2>1, <2>3
    DEF PushNext, NewPlayer, PutPlayer, StartPlayer, CheckQueue, Offer, RemovePlayer,
        PreparedConnectionsBreak, ConnectionBreaks, playerVars
  <2>4. QED  BY <1>4, <2>2, <2>3 DEF ReplayNext
<1>5. CASE UNCHANGED pipelineVars
  BY <1>1, <1>5 DEF pipelineVars, tailVars, vars, replayVars, playerVars
<1>6. QED  BY <1>2, <1>3, <1>4, <1>5 DEF PipelineNext, PipelineAborted

(* From the collection to the target server each player is an ordered      *)
(* relay: it replays documents that were stored, in the order of their     *)
(* insertion, none twice, whatever the cursor, the collection and the      *)
(* connections go through.                                                 *)
THEOREM PipelineImplementsRelay == PipelineSpec => PipelineRelays
<1>1. QED
  BY EndToEndInit, EndToEndNext, PipelineInitInv, PipelineKeeps, PTL
  DEF PipelineSpec, PipelineRelays, EndToEnd!Spec

-----------------------------------------------------------------------------
(* The databases of the sessions, behind the tailer.                       *)
PipelineDatabaseInv == PipelineInv /\ DatabaseInv

LEMMA PipelineDatabaseKeeps ==
    PipelineDatabaseInv /\ [PipelineNext]_pipelineVars => PipelineDatabaseInv'
<1> SUFFICES ASSUME PipelineDatabaseInv, [PipelineNext]_pipelineVars
             PROVE  PipelineDatabaseInv'
  OBVIOUS
<1>1. PipelineInv' /\ OrderInv' /\ DatabaseInv
  BY PipelineKeeps DEF PipelineDatabaseInv, PipelineInv
<1>2. CASE ReplayNext
  BY <1>1, <1>2, ReplayIsNext, DatabaseNext DEF PipelineDatabaseInv
<1>3. CASE UNCHANGED <<players, ppc, connVars>>
  BY <1>1, <1>3, UntouchedKeepsDatabase DEF PipelineDatabaseInv
<1>4. CASE CollectionNext \/ CursorNext \/ UNCHANGED pipelineVars
  BY <1>3, <1>4 DEF CollectionNext, CursorNext, pipelineVars, vars, replayVars, playerVars
<1>5. CASE Dispatch
  BY <1>3, <1>5 DEF Dispatch, TakeRequest, replayVars, playerVars
<1>6. QED  BY <1>2, <1>4, <1>5 DEF PipelineNext, PipelineAborted

LEMMA PipelineDatabaseInit ==
    PipelineInit /\ NoUseStatement /\ StartsKnown => PipelineDatabaseInv
BY PipelineInitInv, DatabaseInit DEF PipelineInit, PipelineDatabaseInv

(* The database a player takes for the current one is the one the target   *)
(* has, also with a tailer that skips documents which MongoDB removed: a   *)
(* COM_INIT_DB that is missed is missed by both.                           *)
THEOREM PipelineDatabaseKnown ==
    PipelineSpec /\ NoUseStatement /\ StartsKnown => []DatabaseKnown
<1>1. PipelineDatabaseInv => DatabaseKnown
  BY FollowsGivesKnown DEF PipelineDatabaseInv
<1>2. QED
  BY <1>1, PipelineDatabaseInit, PipelineDatabaseKeeps, PTL DEF PipelineSpec

(* And the guess after an unknown table finds it there as well.            *)
THEOREM PipelineGuesses ==
    PipelineSpec /\ NoUseStatement /\ StartsKnown /\ ~forceDefaultDatabase
        => GuessFindsTable
<1> DEFINE Found ==
      \A p \in PlayerIds :
          /\ executed'[p] # executed[p]
          /\ CurrentCommand(p) = COM_QUERY
          /\ QueryResults(p) = {"tablenotfound"}
          /\ tableDbMap[Document(p).tbl] # <<>>
          => Document(p).tbl \in TablesOf[targetDb'[p]]
           NoForce == ~forceDefaultDatabase
<1>1. PipelineDatabaseInv /\ NoForce /\ [PipelineNext]_pipelineVars => [Found]_vars
  <2>1. SUFFICES ASSUME PipelineDatabaseInv, NoForce, [PipelineNext]_pipelineVars
                 PROVE  [Found]_vars
    OBVIOUS
  <2>2. BaseInv /\ DatabaseInv
    BY <2>1 DEF PipelineDatabaseInv, DatabaseInv, OrderInv
  <2>3. CASE ReplayNext
    BY <2>1, <2>2, <2>3, ReplayIsNext, OnlyExecuteReplays, GuessStep
  <2>4. CASE UNCHANGED executed
    BY <2>4
  <2>5. CASE CollectionNext \/ CursorNext \/ Dispatch \/ UNCHANGED pipelineVars
    BY <2>4, <2>5 DEF CollectionNext, CursorNext, Dispatch, TakeRequest, pipelineVars,
       vars, replayVars, playerVars
  <2>6. QED  BY <2>1, <2>3, <2>5 DEF PipelineNext, PipelineAborted
<1>2. NoForce => NoForce'
  OBVIOUS
<1>3. QED
  BY <1>1, <1>2, PipelineDatabaseInit, PipelineDatabaseKeeps, PTL
  DEF PipelineSpec, GuessFindsTable
=============================================================================
