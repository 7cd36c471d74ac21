---------------------------- MODULE MongoTailer ----------------------------
(***************************************************************************)
(* CappedCollectionTailer (MRTEPlayer/src/mrte/MongoTailer.java): one      *)
(* thread per collection that tails it, hands every request to             *)
(* pushEvent2Player and, when the cursor or the connection fails, queries  *)
(* again behind the last document it has seen.                             *)
(*                                                                         *)
(* Documents are named by their _id, which the MongoDB server assigns in   *)
(* the order of insertion: 1, 2, ...  The collection holds the documents   *)
(* first .. inserted; older ones are evicted for room, or dropped when the *)
(* collector starts again and creates the collection anew.                 *)
(***************************************************************************)
EXTENDS Naturals, Sequences

CONSTANTS
    CappedSize,     \* documents the capped collection has room for
    MaxRetries,     \* failures in a row that are tolerated, less one (50)
    MaxDocs,        \* bound: documents inserted
    MaxRestarts,    \* bound: times the collector starts again
    MaxLives        \* bound: times the player starts again

ASSUME TailerAssumption == /\ CappedSize \in Nat \ {0}
                           /\ MaxRetries \in Nat
                           /\ MaxDocs \in Nat /\ MaxRestarts \in Nat
                           /\ MaxLives \in Nat

VARIABLES
    proc,           \* "running" or "aborted"
    markers,        \* the documents that are Initial Markers (COM_UNKNOWN)
    first, inserted,
    recreating,     \* dropped and created, the marker not yet inserted
    restarts,
    pc,             \* "find", or "iterate" over an open cursor
    alive,          \* the server keeps the cursor open
    pos, fetched,   \* documents up to fetched are in the client's batch,
                    \* those up to pos have been returned by next()
    lastExecuted,   \* 0 for null
    retryCounter,
    lives,          \* times the player was started again
    pushed,         \* history: documents handed to pushEvent2Player by the
                    \* player that runs now
    missed          \* history: evicted or dropped before they were fetched

collectionVars == <<markers, first, inserted, recreating, restarts>>
cursorVars     == <<pc, alive, pos, fetched>>
vars == <<proc, collectionVars, cursorVars, lastExecuted, retryCounter,
          lives, pushed, missed>>

Stored == first .. inserted
BiggerOf(a, b) == IF a > b THEN a ELSE b

Init ==
    /\ proc = "running"
    /\ markers = {1} /\ first = 1 /\ inserted = 1
    /\ recreating = FALSE
    /\ restarts = 0
    /\ pc = "find" /\ alive = FALSE /\ pos = 0 /\ fetched = 0
    /\ lastExecuted = 0
    /\ retryCounter = 0
    /\ lives = 0
    /\ pushed = <<>>
    /\ missed = {}

-----------------------------------------------------------------------------
(* MongoDB and the collector.                                              *)

(* What the client has seen or holds in its batch cannot be missed.        *)
Safe == BiggerOf(lastExecuted, IF pc = "iterate" THEN fetched ELSE 0)

(* The collector's bulk insert stores one more request; the oldest         *)
(* document goes when there is no room.                                    *)
Insert ==
    /\ inserted < MaxDocs
    /\ ~recreating
    /\ inserted' = inserted + 1
    /\ first' = IF inserted' - first >= CappedSize THEN first + 1 ELSE first
    /\ missed' = missed \union {n \in first .. first' - 1 : n > Safe}
    /\ UNCHANGED <<proc, markers, recreating, restarts, cursorVars,
                   lastExecuted, retryCounter, lives, pushed>>

(* reCreateCappedCollection drops the collection and creates it ...        *)
DropCollection ==
    /\ ~recreating
    /\ restarts < MaxRestarts
    /\ inserted < MaxDocs
    /\ restarts' = restarts + 1
    /\ recreating' = TRUE
    /\ missed' = missed \union {n \in Stored : n > Safe}
    /\ first' = inserted + 1
    /\ alive' = FALSE
    /\ UNCHANGED <<proc, markers, inserted, pc, pos, fetched, lastExecuted,
                   retryCounter, lives, pushed>>

(* ... and inserts the marker that a tailable cursor needs to stay open.   *)
InsertMarker ==
    /\ recreating
    /\ inserted' = inserted + 1
    /\ markers' = markers \union {inserted'}
    /\ recreating' = FALSE
    /\ UNCHANGED <<proc, first, restarts, cursorVars, lastExecuted,
                   retryCounter, lives, pushed, missed>>

-----------------------------------------------------------------------------
(* CappedCollectionTailer.run.                                             *)

(* The exception handler: a failure too many in a row ends the process.    *)
(* (An operator whose name ends in Bug is a mutant.)                       *)
GiveUpBug == retryCounter > MaxRetries + 1
GiveUp == retryCounter > MaxRetries
NextRetryBug == (retryCounter + 1) % (MaxRetries + 1)
NextRetry == retryCounter + 1
Caught ==
    /\ IF GiveUp
       THEN proc' = "aborted" /\ UNCHANGED retryCounter
       ELSE retryCounter' = NextRetry /\ UNCHANGED proc
    /\ pc' = "find"
    /\ UNCHANGED <<collectionVars, alive, pos, fetched, lastExecuted, lives,
                   pushed, missed>>

(* Where the query's results start: _id > lastExecuted, or everything.     *)
ResumeAfterBug == BiggerOf(first, lastExecuted) - 1
ResumeAtEndBug == inserted
ResumeAfter == BiggerOf(first - 1, lastExecuted)

(* The query succeeds: the first batch comes with it.  The cursor of an    *)
(* empty collection is dead at once.                                       *)
Find ==
    /\ proc = "running"
    /\ pc = "find"
    /\ pos' = ResumeAfter
    /\ \/ /\ ResumeAfter < inserted
          /\ fetched' \in ResumeAfter + 1 .. inserted
       \/ /\ ResumeAfter >= inserted
          /\ fetched' = ResumeAfter
    /\ alive' = (Stored # {})
    /\ pc' = "iterate"
    /\ retryCounter' = 0
    /\ UNCHANGED <<proc, collectionVars, lastExecuted, lives, pushed, missed>>

FindFails ==
    /\ proc = "running"
    /\ pc = "find"
    /\ Caught

(* cursor.next(): the document becomes lastExecuted and, unless it is a    *)
(* marker, is pushed.                                                      *)
Deliver(n) == pushed' = IF n \in markers THEN pushed ELSE Append(pushed, n)
NextDocument ==
    /\ proc = "running"
    /\ pc = "iterate"
    /\ pos < fetched
    /\ pos' = pos + 1
    /\ lastExecuted' = pos + 1
    /\ Deliver(pos + 1)
    /\ UNCHANGED <<proc, collectionVars, pc, alive, fetched, retryCounter,
                   lives, missed>>

(* hasNext() asks the server for more, which the server can tell only      *)
(* while the document the cursor stands on is still there.                 *)
PositionLost == ~alive \/ fetched < first
GetMore ==
    /\ proc = "running"
    /\ pc = "iterate"
    /\ pos = fetched
    /\ ~PositionLost
    /\ fetched < inserted
    /\ fetched' \in fetched + 1 .. inserted
    /\ UNCHANGED <<proc, collectionVars, pc, alive, pos, lastExecuted,
                   retryCounter, lives, pushed, missed>>

(* The cursor is lost, or the connection fails: an exception.              *)
CursorFails ==
    /\ proc = "running"
    /\ pc = "iterate"
    /\ pos = fetched
    /\ Caught

(* hasNext() is false for a dead cursor: the loop queries again.           *)
CursorEnds ==
    /\ proc = "running"
    /\ pc = "iterate"
    /\ pos = fetched
    /\ ~alive
    /\ pc' = "find"
    /\ UNCHANGED <<proc, collectionVars, alive, pos, fetched, lastExecuted,
                   retryCounter, lives, pushed, missed>>

(* The player has gone; the collector may go on.                           *)
Aborted == proc = "aborted" /\ UNCHANGED vars

(* The player is started again, whether it was killed or gave up: it has   *)
(* no memory of what it has handled and takes what the collection holds.   *)
RestartPointBug ==
    /\ lastExecuted' = inserted
    /\ missed' = missed \union 1 .. first - 1
RestartPoint ==
    /\ lastExecuted' = 0
    /\ missed' = missed \union 1 .. first - 1
PlayerRestarts ==
    /\ lives < MaxLives
    /\ lives' = lives + 1
    /\ proc' = "running"
    /\ pc' = "find" /\ alive' = FALSE /\ pos' = 0 /\ fetched' = 0
    /\ RestartPoint
    /\ retryCounter' = 0
    /\ pushed' = <<>>
    /\ UNCHANGED collectionVars

Next ==
    \/ Insert \/ DropCollection \/ InsertMarker
    \/ Find \/ FindFails \/ NextDocument \/ GetMore \/ CursorFails \/ CursorEnds
    \/ Aborted \/ PlayerRestarts

Spec == Init /\ [][Next]_vars

(***************************************************************************)
(* Fairness: the thread keeps running, every call it makes returns or      *)
(* throws, and a collector that has dropped the collection goes on.        *)
(* MongoDB's success is not assumed anywhere.                              *)
(***************************************************************************)
Fairness ==
    /\ WF_vars(Find \/ FindFails)
    /\ WF_vars(NextDocument)
    /\ WF_vars(GetMore \/ CursorFails \/ CursorEnds)
    /\ WF_vars(InsertMarker)

FairSpec == Spec /\ Fairness

-----------------------------------------------------------------------------
(* Properties.                                                             *)

TypeOK ==
    /\ proc \in {"running", "aborted"}
    /\ markers \subseteq Nat
    /\ first \in Nat /\ inserted \in Nat
    /\ recreating \in BOOLEAN
    /\ restarts \in 0 .. MaxRestarts
    /\ pc \in {"find", "iterate"}
    /\ alive \in BOOLEAN
    /\ pos \in Nat /\ fetched \in Nat
    /\ lastExecuted \in Nat
    /\ retryCounter \in 0 .. MaxRetries + 1
    /\ lives \in 0 .. MaxLives
    /\ pushed \in Seq(Nat)
    /\ missed \subseteq Nat

(* Across failures, evictions and a collector that starts anew, no request *)
(* is handed to the players twice and none out of order: the new query     *)
(* really starts behind the last document that was handled.                *)
PushedInOrder ==
    \A i, j \in DOMAIN pushed : i < j => pushed[i] < pushed[j]

(* A request up to the last document handled was pushed, unless MongoDB    *)
(* had removed it before the tailer could fetch it: a failure by itself    *)
(* loses nothing.                                                          *)
NothingSkipped ==
    \A n \in 1 .. lastExecuted :
        n \in markers \/ n \in missed \/ \E i \in DOMAIN pushed : pushed[i] = n

(* Every request stored is pushed in the end, or MongoDB removes it first, *)
(* or the player gives up: also when every getMore fails, because each new *)
(* query brings documents with it.                                         *)
EveryDocumentHandled ==
    \A n \in 1 .. MaxDocs :
        n <= inserted ~> \/ n <= lastExecuted
                         \/ n \in missed
                         \/ proc = "aborted"

(* The tailer is an ordered relay from the collection to the players: what *)
(* it pushes is stored already, comes in the order of insertion and never  *)
(* twice, whatever fails, until the player itself is started again.        *)
Relay == INSTANCE OrderedRelay WITH
             Flows <- {"collection"}, Restartable <- {"collection"},
             in <- [f \in {"collection"} |-> inserted],
             out <- [f \in {"collection"} |-> pushed]
TailerRelays == Relay!Spec
=============================================================================
