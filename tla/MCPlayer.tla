------------------------------ MODULE MCPlayer ------------------------------
(* Instances of Player for TLC: streams of requests and a target server.   *)
EXTENDS Player, TLC

CONSTANTS a, b, t1, t2, db1, db2, tab1, tab2

Req(s, c, db, tbl) == [s |-> s, c |-> c, db |-> db, tbl |-> tbl]
Query(s)         == Req(s, COM_QUERY, NoDb, NoTable)
InitDb(s, db)    == Req(s, COM_INIT_DB, db, NoTable)
SetOption(s)     == Req(s, COM_SET_OPTION, NoDb, NoTable)
Quit(s)          == Req(s, COM_QUIT, NoDb, NoTable)

OneTailer  == (a :> t1)
TwoTailers == (a :> t1 @@ b :> t2)

(* A session that ends and whose address is used again, and one that goes  *)
(* on; a QUIT of an unknown session.                                       *)
ReuseStream == (t1 :> <<Query(a), Quit(a), Query(a)>> @@ t2 :> <<Quit(b), Query(b)>>)

(* Requests and a QUIT while the idle check is at work.                    *)
IdleStream == (t1 :> <<InitDb(a, db1), SetOption(a), Quit(a)>>)

(* The cases of the findings.                                              *)
BurstStream == (t1 :> <<Query(a), Query(a), Query(a)>>)
QuerySplit  == (t1 :> <<Query(a), Query(a)>> @@ t2 :> <<Query(b)>>)

(* tab1 is in db1, tab2 in db2.                                            *)
TargetTables == (db1 :> {tab1} @@ db2 :> {tab2})
TargetMap    == (tab1 :> <<db1>> @@ tab2 :> <<db2>>)
=============================================================================
