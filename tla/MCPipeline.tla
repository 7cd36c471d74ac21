----------------------------- MODULE MCPipeline -----------------------------
(* An instance of Pipeline for TLC.                                        *)
EXTENDS Pipeline, TLC

CONSTANTS a, b, t1, db1, db2, db3, tab1, tab2

SessionTailer == (a :> t1 @@ b :> t1)

Req(s, c, db, tbl) == [s |-> s, c |-> c, db |-> db, tbl |-> tbl]

(* What document n holds unless it is a marker: a login without and one    *)
(* with a database, a query on a table of the other database, one without  *)
(* a database, and a database the target does not have.                    *)
Documents ==
    (t1 :> <<Req(a, COM_QUIT, NoDb, NoTable),
             Req(a, COM_LOGIN, NoDb, NoTable),
             Req(a, COM_LOGIN, db1, NoTable),
             Req(a, COM_QUERY, NoDb, tab2),
             Req(b, COM_QUERY, NoDb, tab1),
             Req(a, COM_INIT_DB, db3, NoTable),
             Req(a, COM_QUIT, NoDb, NoTable)>>)

(* db1 and db2 have tab1, db2 has tab2 too.                                *)
SharedTables == (db1 :> {tab1} @@ db2 :> {tab1, tab2})
SharedMap    == (tab1 :> <<db1, db2>> @@ tab2 :> <<db2>>)
=============================================================================
