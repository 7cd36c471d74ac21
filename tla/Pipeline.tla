------------------------------ MODULE Pipeline ------------------------------
(***************************************************************************)
(* A capped collection, the thread that tails it and the players behind it *)
(* (MongoTailer.java, MRTEPlayer.java, SQLPlayer.java): MongoTailer and    *)
(* Player in one process.  The tailer thread hands a document to           *)
(* pushEvent2Player and reads the next one only when that has returned;    *)
(* meanwhile the collector goes on inserting, the collection overflows or  *)
(* is dropped, and the players replay.  Document n of the collection is    *)
(* the request Stream[tailer][n], unless it is a marker.                   *)
(***************************************************************************)
EXTENDS Player

CONSTANTS tailer, CappedSize, MaxRetries, MaxDocs, MaxRestarts

ASSUME PipelineAssumption == /\ Tailers = {tailer} /\ ~IdleExpiry
                             /\ CappedSize \in Nat \ {0}
                             /\ MaxRetries \in Nat /\ MaxRestarts \in Nat
                             /\ MaxDocs \in Nat \ {0}
                             /\ Len(Stream[tailer]) = MaxDocs

VARIABLES markers, first, inserted, recreating, restarts, pc, alive, pos,
          fetched, lastExecuted, retryCounter, pushed, missed

T == INSTANCE MongoTailer WITH MaxLives <- 0, lives <- 0

tailVars == <<markers, first, inserted, recreating, restarts, pc, alive, pos,
              fetched, lastExecuted, retryCounter, pushed, missed>>
pipelineVars == <<vars, tailVars>>

PipelineInit == Init /\ T!Init

(* The collector and MongoDB do not wait for the player.                   *)
CollectionNext ==
    /\ T!Insert \/ T!DropCollection \/ T!InsertMarker
    /\ UNCHANGED vars

(* The tailer thread is in its own loop, not in pushEvent2Player.          *)
Tailing == tpc[tailer] = "tail"

CursorNext ==
    /\ Tailing
    /\ T!Find \/ T!FindFails \/ T!GetMore \/ T!CursorFails \/ T!CursorEnds
    /\ UNCHANGED replayVars

(* cursor.next(): a marker is skipped, a request goes to pushEvent2Player. *)
Dispatch ==
    /\ Tailing
    /\ T!NextDocument
    /\ IF pos + 1 \in markers
       THEN UNCHANGED replayVars
       ELSE TakeRequest(tailer, pos + 1)

(* The other threads.  No session is idle for 30 minutes here: the main    *)
(* thread's idle check, which loses requests, is in Player alone.          *)
ReplayNext ==
    /\ \/ PushNext(tailer)
       \/ PreparedConnectionsBreak
       \/ \E p \in PlayerIds : PlayerNext(p) \/ ConnectionBreaks(p)
    /\ UNCHANGED tailVars

PipelineAborted == proc = "aborted" /\ UNCHANGED pipelineVars

PipelineNext ==
    CollectionNext \/ CursorNext \/ Dispatch \/ ReplayNext \/ PipelineAborted

PipelineSpec == PipelineInit /\ [][PipelineNext]_pipelineVars

-----------------------------------------------------------------------------
(* Properties.                                                             *)

(* From the collection to the target server each player is an ordered      *)
(* relay: it replays documents that were stored, in the order of their     *)
(* insertion, none twice, whatever the cursor, the collection and the      *)
(* connections go through.                                                 *)
EndToEnd == INSTANCE OrderedRelay WITH
                Flows <- PlayerIds, Restartable <- {},
                in <- [p \in PlayerIds |-> inserted],
                out <- [p \in PlayerIds |-> Replays(p)]
PipelineRelays == EndToEnd!Spec

(* A document that the tailer has moved past is a marker, was removed by   *)
(* MongoDB before it could be fetched, is a QUIT, is being pushed now, or  *)
(* was taken by exactly one player, one of its session: no failure between *)
(* the collection and the target's connection makes a request disappear    *)
(* or be replayed over two connections.                                    *)
DocumentsAccounted ==
    \A n \in 1 .. lastExecuted :
        \/ n \in markers \/ n \in missed
        \/ Stream[tailer][n].c = COM_QUIT
        \/ n = tailed[tailer] /\ ~Tailing
        \/ \E p \in 1 .. players :
              /\ n \in TakenSet(p) /\ owner[p] = Stream[tailer][n].s
              /\ \A q \in (1 .. players) \ {p} : n \notin TakenSet(q)
=============================================================================
