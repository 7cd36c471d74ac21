---------------------------- MODULE TailerProofs ----------------------------
(***************************************************************************)
(* Proofs about CappedCollectionTailer, for every size of the collection,  *)
(* every number of tolerated failures and any number of documents and of   *)
(* restarts of the collector and of the player.                            *)
(***************************************************************************)
EXTENDS MongoTailer, TLAPS

(* Where the cursor can be: behind the last document handled, within the   *)
(* batch, and never beyond what was inserted.                              *)
Positions ==
    /\ 1 <= first /\ first <= inserted + 1
    /\ lastExecuted <= inserted
    /\ pc = "iterate" => /\ lastExecuted <= pos
                         /\ pos <= fetched
                         /\ fetched <= inserted

(* The documents between lastExecuted and the cursor, which the query has  *)
(* stepped over, are gone for good.                                        *)
GapIsMissed ==
    pc = "iterate" => \A n \in lastExecuted + 1 .. pos : n \in missed

(* A document that left the collection before it was handled is counted as *)
(* missed, unless it waits in the client's batch.                          *)
RemovedIsKnown ==
    \A n \in lastExecuted + 1 .. first - 1 :
        n \in missed \/ (pc = "iterate" /\ n <= fetched)

(* What was pushed is not newer than lastExecuted.                         *)
PushedBefore == \A i \in DOMAIN pushed : pushed[i] <= lastExecuted

TailerInv ==
    /\ TypeOK /\ Positions /\ GapIsMissed /\ RemovedIsKnown
    /\ PushedInOrder /\ PushedBefore /\ NothingSkipped

(* TypeOK in two parts: the Boolean variables, and the others.             *)
FlagsOK == recreating \in BOOLEAN /\ alive \in BOOLEAN
NumbersOK ==
    /\ proc \in {"running", "aborted"}
    /\ markers \subseteq Nat
    /\ first \in Nat /\ inserted \in Nat
    /\ restarts \in 0 .. MaxRestarts
    /\ pc \in {"find", "iterate"}
    /\ pos \in Nat /\ fetched \in Nat
    /\ lastExecuted \in Nat
    /\ retryCounter \in 0 .. MaxRetries + 1
    /\ lives \in 0 .. MaxLives
    /\ pushed \in Seq(Nat)
    /\ missed \subseteq Nat

(* The two parts make up TypeOK.                                           *)
LEMMA TypeParts == TypeOK <=> FlagsOK /\ NumbersOK
BY Zenon DEF TypeOK, FlagsOK, NumbersOK

(* The invariant holds initially.                                          *)
LEMMA TailerInit == Init => TailerInv
<1> SUFFICES ASSUME Init PROVE TailerInv
  OBVIOUS
<1> USE TailerAssumption DEF Init
<1>1. TypeOK
  <2>1. FlagsOK    BY Zenon DEF FlagsOK
  <2>2. NumbersOK  BY DEF NumbersOK
  <2>3. QED  BY Zenon, <2>1, <2>2 DEF TypeOK, FlagsOK, NumbersOK
<1>2. Positions /\ GapIsMissed /\ RemovedIsKnown
  BY DEF Positions, GapIsMissed, RemovedIsKnown
<1>3. PushedInOrder /\ PushedBefore /\ NothingSkipped
  BY DEF PushedInOrder, PushedBefore, NothingSkipped
<1>4. QED  BY <1>1, <1>2, <1>3 DEF TailerInv

(* A document more, and perhaps one less.                                  *)
LEMMA InsertKeeps ==
    ASSUME TailerInv, Insert
    PROVE  TailerInv'
<1> USE TailerAssumption DEF TailerInv
<1>1. TypeOK'
  <2>1. FlagsOK'
    BY Zenon, TypeParts DEF FlagsOK, Insert, cursorVars
  <2>2. NumbersOK'
    <3>1. NumbersOK
      BY TypeParts
    <3>2. first' \in Nat
      BY <3>1 DEF NumbersOK, Insert
    <3>3. \A n \in missed' : n \in missed \/ n \in first .. first' - 1
      BY DEF Insert
    <3>4. missed' \subseteq Nat
      <4> SUFFICES ASSUME NEW n \in missed' PROVE n \in Nat
        OBVIOUS
      <4>1. CASE n \in missed
        BY <3>1, <4>1 DEF NumbersOK
      <4>2. CASE n \notin missed
        BY <3>1, <3>2, <3>3, <4>2 DEF NumbersOK
      <4>3. QED  BY <4>1, <4>2
    <3>5. QED
      BY <3>1, <3>2, <3>4 DEF NumbersOK, Insert, cursorVars
  <2>3. QED  BY Zenon, <2>1, <2>2 DEF TypeOK, FlagsOK, NumbersOK
<1>2. Positions'
  BY DEF TypeOK, Positions, Insert, cursorVars
<1>3. GapIsMissed'
  BY DEF GapIsMissed, Insert, cursorVars
<1>4. RemovedIsKnown'
  BY DEF TypeOK, RemovedIsKnown, Insert, cursorVars, Safe, BiggerOf
<1>5. PushedInOrder' /\ PushedBefore'
  BY DEF PushedInOrder, PushedBefore, Insert
<1>6. NothingSkipped'
  BY DEF NothingSkipped, Insert
<1>7. QED  BY <1>1, <1>2, <1>3, <1>4, <1>5, <1>6

(* The whole collection goes.                                              *)
LEMMA DropKeeps ==
    ASSUME TailerInv, DropCollection
    PROVE  TailerInv'
<1> USE TailerAssumption DEF TailerInv
<1>1. TypeOK'
  <2>1. FlagsOK'
    BY Zenon, TypeParts DEF FlagsOK, DropCollection, Stored
  <2>2. NumbersOK'
    <3>1. NumbersOK
      BY TypeParts
    <3>2. first' \in Nat
      BY <3>1 DEF NumbersOK, DropCollection
    <3>3. \A n \in missed' : n \in missed \/ n \in first .. inserted
      BY DEF DropCollection, Stored
    <3>4. missed' \subseteq Nat
      <4> SUFFICES ASSUME NEW n \in missed' PROVE n \in Nat
        OBVIOUS
      <4>1. CASE n \in missed
        BY <3>1, <4>1 DEF NumbersOK
      <4>2. CASE n \notin missed
        BY <3>1, <3>2, <3>3, <4>2 DEF NumbersOK
      <4>3. QED  BY <4>1, <4>2
    <3>5. QED
      BY <3>1, <3>2, <3>4 DEF NumbersOK, DropCollection, cursorVars
  <2>3. QED  BY Zenon, <2>1, <2>2 DEF TypeOK, FlagsOK, NumbersOK
<1>2. Positions'
  BY DEF TypeOK, Positions, DropCollection
<1>3. GapIsMissed'
  BY DEF GapIsMissed, DropCollection
<1>4. RemovedIsKnown'
  BY DEF TypeOK, RemovedIsKnown, DropCollection, Stored, Safe, BiggerOf
<1>5. PushedInOrder' /\ PushedBefore'
  BY DEF PushedInOrder, PushedBefore, DropCollection
<1>6. NothingSkipped'
  BY DEF NothingSkipped, DropCollection
<1>7. QED  BY <1>1, <1>2, <1>3, <1>4, <1>5, <1>6

(* The marker of a new collection.                                         *)
LEMMA MarkerKeeps ==
    ASSUME TailerInv, InsertMarker
    PROVE  TailerInv'
<1> USE DEF TailerInv, InsertMarker, cursorVars
<1>1. TypeOK'
  <2>1. FlagsOK'
    BY Zenon, TypeParts DEF FlagsOK, InsertMarker, cursorVars
  <2>2. NumbersOK'
    BY TypeParts DEF NumbersOK, InsertMarker, cursorVars
  <2>3. QED  BY Zenon, <2>1, <2>2 DEF TypeOK, FlagsOK, NumbersOK
<1>2. Positions'
  BY DEF TypeOK, Positions
<1>3. GapIsMissed' /\ RemovedIsKnown'
  BY DEF GapIsMissed, RemovedIsKnown
<1>4. PushedInOrder' /\ PushedBefore' /\ NothingSkipped'
  BY DEF PushedInOrder, PushedBefore, NothingSkipped
<1>5. QED  BY <1>1, <1>2, <1>3, <1>4

(* A new query: the cursor starts behind everything handled, and what it   *)
(* steps over has been removed.                                            *)
LEMMA FindKeeps ==
    ASSUME TailerInv, Find
    PROVE  TailerInv'
<1> USE DEF TailerInv, Find, collectionVars
<1>1. ResumeAfter \in Nat /\ fetched' \in Nat
  BY DEF TypeOK, Positions, ResumeAfter, BiggerOf
<1>2. TypeOK'
  BY <1>1, TailerAssumption DEF TypeOK
<1>3. Positions'
  BY <1>1 DEF TypeOK, Positions, ResumeAfter, BiggerOf
<1>4. GapIsMissed'
  BY <1>1 DEF TypeOK, Positions, GapIsMissed, RemovedIsKnown, ResumeAfter, BiggerOf
<1>5. RemovedIsKnown'
  BY DEF RemovedIsKnown
<1>6. PushedInOrder' /\ PushedBefore' /\ NothingSkipped'
  BY DEF PushedInOrder, PushedBefore, NothingSkipped
<1>7. QED  BY <1>2, <1>3, <1>4, <1>5, <1>6

(* The cursor is given up with its batch used up: nothing is waiting in it *)
(* any more, so all that was removed is missed.                            *)
LEMMA LeaveKeeps ==
    ASSUME TailerInv,
           pc = "find" \/ pos = fetched,
           pc' = "find",
           TypeOK',
           UNCHANGED <<collectionVars, pos, fetched, lastExecuted, pushed,
                       missed>>
    PROVE  TailerInv'
<1> USE DEF TailerInv, collectionVars
<1>1. Positions' /\ GapIsMissed'
  BY DEF TypeOK, Positions, GapIsMissed
<1>2. RemovedIsKnown'
  BY DEF TypeOK, Positions, GapIsMissed, RemovedIsKnown
<1>3. PushedInOrder' /\ PushedBefore' /\ NothingSkipped'
  BY DEF PushedInOrder, PushedBefore, NothingSkipped
<1>4. QED  BY <1>1, <1>2, <1>3

(* The next document is handled.                                           *)
LEMMA NextDocumentKeeps ==
    ASSUME TailerInv, NextDocument
    PROVE  TailerInv'
<1> USE DEF TailerInv
<1>1. /\ pushed \in Seq(Nat) /\ pos \in Nat /\ lastExecuted \in Nat
      /\ lastExecuted <= pos /\ fetched \in Nat /\ pos < fetched
      /\ inserted \in Nat /\ fetched <= inserted
  BY DEF TypeOK, Positions, NextDocument
<1>2. pushed' \in Seq(Nat)
  BY <1>1 DEF NextDocument, Deliver
<1>3. TypeOK'
  BY <1>1, <1>2 DEF TypeOK, NextDocument, collectionVars
<1>4. Positions'
  BY <1>1 DEF Positions, NextDocument, collectionVars
<1>5. GapIsMissed'
  BY <1>1 DEF GapIsMissed, NextDocument
<1>6. RemovedIsKnown'
  BY <1>1 DEF TypeOK, RemovedIsKnown, NextDocument, collectionVars
<1>7. PushedInOrder' /\ PushedBefore'
  <2>1. CASE pos + 1 \in markers
    BY <1>1, <2>1 DEF PushedInOrder, PushedBefore, NextDocument, Deliver
  <2>2. CASE pos + 1 \notin markers
    <3>1. pushed' = Append(pushed, pos + 1) /\ lastExecuted' = pos + 1
      BY <2>2 DEF NextDocument, Deliver
    <3>2. \A i \in DOMAIN pushed :
             pushed[i] \in Nat /\ pushed[i] < pos + 1 /\ pushed'[i] = pushed[i]
      BY <1>1, <3>1 DEF PushedBefore
    <3>3. DOMAIN pushed' = 1 .. Len(pushed) + 1 /\ pushed'[Len(pushed) + 1] = pos + 1
      BY <1>1, <3>1
    <3>4. ASSUME NEW i \in DOMAIN pushed', NEW j \in DOMAIN pushed', i < j
          PROVE  pushed'[i] < pushed'[j]
      <4>1. i \in DOMAIN pushed /\ (j \in DOMAIN pushed \/ j = Len(pushed) + 1)
        BY <1>1, <3>3, <3>4
      <4>2. CASE j = Len(pushed) + 1
        BY <3>2, <3>3, <4>1, <4>2
      <4>3. CASE j \in DOMAIN pushed
        <5>1. pushed[i] < pushed[j]
          BY <3>4, <4>1, <4>3 DEF PushedInOrder
        <5>2. QED  BY <3>2, <4>1, <4>3, <5>1
      <4>4. QED  BY <4>1, <4>2, <4>3
    <3>5. ASSUME NEW i \in DOMAIN pushed'
          PROVE  pushed'[i] <= lastExecuted'
      <4>1. i \in DOMAIN pushed \/ i = Len(pushed) + 1
        BY <1>1, <3>3
      <4>2. QED  BY <1>1, <3>1, <3>2, <3>3, <4>1
    <3>6. QED  BY <3>4, <3>5 DEF PushedInOrder, PushedBefore
  <2>3. QED  BY <2>1, <2>2
<1>8. NothingSkipped'
  <2> SUFFICES ASSUME NEW n \in 1 .. lastExecuted', n \notin markers, n \notin missed
               PROVE  \E i \in DOMAIN pushed' : pushed'[i] = n
    BY DEF NothingSkipped, NextDocument, collectionVars
  <2>1. n <= lastExecuted \/ n = pos + 1
    BY <1>1 DEF GapIsMissed, NextDocument
  <2>2. CASE n <= lastExecuted
    <3>1. PICK i \in DOMAIN pushed : pushed[i] = n
      BY <1>1, <2>2 DEF NothingSkipped
    <3>2. i \in DOMAIN pushed' /\ pushed'[i] = n
      BY <1>1, <3>1 DEF NextDocument, Deliver
    <3>3. QED  BY <3>2
  <2>3. CASE n = pos + 1
    <3>1. pushed' = Append(pushed, n)
      BY <2>3 DEF NextDocument, Deliver
    <3>2. Len(pushed) + 1 \in DOMAIN pushed' /\ pushed'[Len(pushed) + 1] = n
      BY <1>1, <3>1
    <3>3. QED  BY <3>2
  <2>4. QED  BY <2>1, <2>2, <2>3
<1>9. QED  BY <1>3, <1>4, <1>5, <1>6, <1>7, <1>8

(* A larger batch.                                                         *)
LEMMA GetMoreKeeps ==
    ASSUME TailerInv, GetMore
    PROVE  TailerInv'
<1> USE DEF TailerInv, GetMore, collectionVars
<1>1. fetched' \in Nat /\ fetched' > fetched /\ fetched' <= inserted
  BY DEF TypeOK
<1>2. TypeOK' /\ Positions'
  BY <1>1 DEF TypeOK, Positions
<1>3. GapIsMissed' /\ RemovedIsKnown'
  BY <1>1 DEF TypeOK, GapIsMissed, RemovedIsKnown
<1>4. PushedInOrder' /\ PushedBefore' /\ NothingSkipped'
  BY DEF PushedInOrder, PushedBefore, NothingSkipped
<1>5. QED  BY <1>2, <1>3, <1>4

(* A new player: everything that has left the collection is missed.        *)
LEMMA RestartKeeps ==
    ASSUME TailerInv, PlayerRestarts
    PROVE  TailerInv'
<1> USE TailerAssumption DEF TailerInv, PlayerRestarts, RestartPoint, collectionVars
<1>1. FlagsOK'
  BY Zenon, TypeParts DEF FlagsOK
<1>2. NumbersOK'
  <2>1. NumbersOK
    BY TypeParts
  <2>2. missed' \subseteq Nat
    BY <2>1 DEF NumbersOK
  <2>3. pushed' \in Seq(Nat)
    OBVIOUS
  <2>4. QED  BY <2>1, <2>2, <2>3 DEF NumbersOK
<1>3. TypeOK'
  BY Zenon, <1>1, <1>2 DEF TypeOK, FlagsOK, NumbersOK
<1>4. Positions' /\ GapIsMissed'
  BY DEF TypeOK, Positions, GapIsMissed
<1>5. RemovedIsKnown'
  BY DEF TypeOK, RemovedIsKnown
<1>6. PushedInOrder' /\ PushedBefore' /\ NothingSkipped'
  BY DEF PushedInOrder, PushedBefore, NothingSkipped
<1>7. QED  BY <1>3, <1>4, <1>5, <1>6

(* Every step keeps the invariant.                                         *)
LEMMA TailerNext == TailerInv /\ [Next]_vars => TailerInv'
<1> SUFFICES ASSUME TailerInv, [Next]_vars PROVE TailerInv'
  OBVIOUS
<1>1. CASE FindFails \/ CursorFails
  <2>1. TypeOK'
    <3>1. FlagsOK'
      BY <1>1, TypeParts
      DEF TailerInv, FlagsOK, FindFails, CursorFails, Caught, collectionVars
    <3>2. NumbersOK'
      BY <1>1, TypeParts, TailerAssumption
      DEF TailerInv, NumbersOK, FindFails, CursorFails, Caught, GiveUp,
          NextRetry, collectionVars
    <3>3. QED  BY Zenon, <3>1, <3>2 DEF TypeOK, FlagsOK, NumbersOK
  <2>2. QED  BY <1>1, <2>1, LeaveKeeps DEF FindFails, CursorFails, Caught
<1>2. CASE CursorEnds
  <2>1. TypeOK'
    BY <1>2 DEF TailerInv, TypeOK, CursorEnds, collectionVars
  <2>2. QED  BY <1>2, <2>1, LeaveKeeps DEF CursorEnds
<1>3. CASE Aborted \/ UNCHANGED vars
  BY <1>3 DEF Aborted, vars, collectionVars, cursorVars, TailerInv, TypeOK,
     Positions, GapIsMissed, RemovedIsKnown, PushedInOrder, PushedBefore,
     NothingSkipped
<1>4. QED
  BY <1>1, <1>2, <1>3, InsertKeeps, DropKeeps, MarkerKeeps, FindKeeps,
     NextDocumentKeeps, GetMoreKeeps, RestartKeeps DEF Next

(* The variables of the tailer keep their types; in particular the retry   *)
(* counter never passes the limit at which the process gives up.           *)
THEOREM TailerTypeCorrect == Spec => []TypeOK
<1>1. TailerInv => TypeOK
  BY DEF TailerInv
<1>2. QED  BY <1>1, TailerInit, TailerNext, PTL DEF Spec

(* No request is pushed to the players twice or out of order, however      *)
(* often the cursor fails and the collector starts anew.                   *)
THEOREM RequestsPushedInOrder == Spec => []PushedInOrder
<1>1. TailerInv => PushedInOrder
  BY DEF TailerInv
<1>2. QED  BY <1>1, TailerInit, TailerNext, PTL DEF Spec

(* Between two documents handled, the tailer skips only those that MongoDB *)
(* had removed before they could be fetched.                               *)
THEOREM OnlyRemovedSkipped == Spec => []NothingSkipped
<1>1. TailerInv => NothingSkipped
  BY DEF TailerInv
<1>2. QED  BY <1>1, TailerInit, TailerNext, PTL DEF Spec

(* A document that is pushed comes behind all that were pushed before.     *)
LEMMA PushExtends ==
    ASSUME TailerInv, NextDocument
    PROVE  Relay!Extends(pushed, pushed', inserted)
<1>1. /\ pushed \in Seq(Nat) /\ pos \in Nat /\ inserted \in Nat
      /\ lastExecuted \in Nat /\ lastExecuted <= pos /\ pos + 1 <= inserted
  BY DEF TailerInv, TypeOK, Positions, NextDocument
<1>2. \A i \in 1 .. Len(pushed) : pushed[i] \in Nat /\ pushed[i] < pos + 1
  BY <1>1 DEF TailerInv, PushedBefore
<1>3. CASE pushed' = pushed
  BY <1>1, <1>3 DEF Relay!Extends
<1>4. CASE pushed' = Append(pushed, pos + 1)
  <2>1. /\ Len(pushed') = Len(pushed) + 1
        /\ \A i \in 1 .. Len(pushed) : pushed'[i] = pushed[i]
        /\ pushed'[Len(pushed) + 1] = pos + 1
    BY <1>1, <1>4
  <2>2. QED  BY <1>1, <1>2, <2>1 DEF Relay!Extends
<1>5. QED  BY <1>3, <1>4 DEF NextDocument, Deliver

(* The tailer implements the ordered relay.                                *)
THEOREM TailerImplementsRelay == Spec => TailerRelays
<1>1. Init => Relay!Init
  BY DEF Init, Relay!Init
<1>2. TailerInv /\ [Next]_vars => [Relay!Next]_(Relay!vars)
  <2> SUFFICES ASSUME TailerInv, [Next]_vars PROVE [Relay!Next]_(Relay!vars)
    OBVIOUS
  <2>1. CASE NextDocument
    BY <2>1, PushExtends
    DEF Relay!Next, Relay!Leave, NextDocument, collectionVars
  <2>2. CASE PlayerRestarts
    BY <2>2 DEF Relay!Next, Relay!Restart, PlayerRestarts, collectionVars
  <2>3. CASE Insert \/ DropCollection \/ InsertMarker
    BY <2>3 DEF TailerInv, TypeOK, Relay!Next, Relay!Enter, Insert,
       DropCollection, InsertMarker
  <2>4. CASE UNCHANGED <<inserted, pushed>>
    BY <2>4 DEF Relay!vars
  <2>5. QED
    BY <2>1, <2>2, <2>3, <2>4
    DEF Next, vars, collectionVars, Find, FindFails, GetMore, CursorFails,
        CursorEnds, Caught, Aborted
<1>3. QED
  BY <1>1, <1>2, TailerInit, TailerNext, PTL DEF Spec, TailerRelays, Relay!Spec
=============================================================================
