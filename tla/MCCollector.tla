---------------------------- MODULE MCCollector ----------------------------
(* Instances of Collector for TLC: sessions, their traffic, small buffers. *)
EXTENDS Collector, TLC

CONSTANTS a, b, v6, db1, db2

(* What the bytes of a statement's text read as when taken for a header:   *)
(* 4 + 0x202020 for the size, a blank for the sequence and the command.    *)
TextSize == 2105380
Blank    == 32

Seg(req, part, parts, len, size, seq, cmd, db) ==
    [req |-> req, part |-> part, parts |-> parts, len |-> len, size |-> size,
     seq |-> seq, cmd |-> cmd, db |-> db, blank |-> FALSE, sel |-> FALSE]

Query(req, len) == Seg(req, 1, 1, len, len, 0, COM_QUERY, NoDb)
Login(req, db)  == Seg(req, 1, 1, 90, 90, SEQUENCE_FOR_LOGIN, 133, db)
First(req, parts, len, size) == Seg(req, 1, parts, len, size, 0, COM_QUERY, NoDb)
Rest(req, part, parts, len) ==
    Seg(req, part, parts, len, TextSize, Blank, Blank, NoDb)
Ack == [Seg(0, 1, 1, 0, 0, 0, 0, NoDb) EXCEPT !.blank = TRUE]

FirstSelect(req, len, size) == [First(req, 2, len, size) EXCEPT !.sel = TRUE]

OneSession == {a}
OddSession == {b}
AllSessions == {a, b, v6}

Ports    == (a :> 40000 @@ b :> 40025 @@ v6 :> 40002)
Routes   == (a :> 40000 @@ b :> 40025 @@ v6 :> 24577)
Headers  == (a :> 66 @@ b :> 66 @@ v6 :> 86)

(* Two connections that share a worker and one that has the other worker;  *)
(* a login, requests in one and in two frames, an acknowledgement between  *)
(* two of them, none lost.                                                 *)
CaptureTraffic ==
    (a :> <<Login(1, NoDb)>>
     @@ b :> <<First(1, 2, 1448, 1500), Rest(1, 2, 2, 52), Query(2, 60)>>
     @@ v6 :> <<First(1, 2, 1428, 1500), Ack, Rest(1, 2, 2, 72)>>)
CaptureDbs == (a :> NoDb @@ b :> db1 @@ v6 :> db1)

(* What can go wrong with split requests.  The Query is no SELECT: it is   *)
(* glued to the first frame if the second is lost, and is as large as the  *)
(* second, which is stored for it if the first is lost.  A tail of two     *)
(* bytes.                                                                  *)
LossyTraffic ==
    (b :> <<FirstSelect(1, 1448, 1500), Rest(1, 2, 2, 52), Query(2, 52),
            FirstSelect(3, 1448, 1450), Rest(3, 2, 2, 2)>>)

(* The cases of the findings.                                              *)
ThreeParts == (a :> <<First(1, 3, 1448, 3000), Rest(1, 2, 3, 1448), Rest(1, 3, 3, 104)>>)
LostTail   == (a :> <<First(1, 2, 1448, 1500), Rest(1, 2, 2, 52), Query(2, 100)>>)

On(S, f) == [s \in S |-> f[s]]
OneSrcPort == On(OneSession, Ports)
OnePortNo  == On(OneSession, Routes)
OneHeader  == On(OneSession, Headers)
OneDb      == (a :> db1)
OddSrcPort == On(OddSession, Ports)
OddPortNo  == On(OddSession, Routes)
OddHeader  == On(OddSession, Headers)
OddDb      == (b :> db1)
=============================================================================
