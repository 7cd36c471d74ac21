--------------------------- MODULE MysqlProtocol ---------------------------
(***************************************************************************)
(* The part of the MySQL client/server protocol that the collector reads   *)
(* (MRTECollector/src/mrte/mysql_protocol.go).                             *)
(*                                                                         *)
(* A TCP payload ("segment") is abstracted to what the collector looks at: *)
(*   len    number of bytes;                                               *)
(*   blank  its bytes are all white space (strings.TrimSpace leaves        *)
(*          nothing), which includes the empty payload of a control frame; *)
(*   size   4 + the little-endian 24-bit number in its first bytes, i.e.   *)
(*          the length of the whole request when the segment starts one,   *)
(*          and whatever the statement's text reads as when it does not;   *)
(*   seq, cmd   its fourth and fifth bytes;                                *)
(*   sel    what isSelectStatement says of the text behind them;           *)
(*   db     the database that a COM_INIT_DB or a login selects, else       *)
(*          NoDb;                                                          *)
(*   req, part, parts   which request of its session it belongs to, which  *)
(*          piece it is and how many there are: known to the client only,  *)
(*          no action reads them.                                          *)
(***************************************************************************)
EXTENDS Naturals

CONSTANTS Databases,   \* the schemas of the source server
          NoDb         \* no database (not a member of Databases)

COM_QUIT           == 1
COM_INIT_DB        == 2
COM_QUERY          == 3
COM_SET_OPTION     == 27
COM_LOGIN          == 126   \* artificial
COM_UNKNOWN        == 127   \* artificial
SEQUENCE_FOR_LOGIN == 1

Commands == {COM_QUIT, COM_INIT_DB, COM_QUERY, COM_SET_OPTION, COM_LOGIN}

Segment == [len: Nat, blank: BOOLEAN, size: Nat, seq: Nat, cmd: Nat,
            sel: BOOLEAN, db: Databases \union {NoDb},
            req: Nat, part: Nat, parts: Nat]

(* Not an error of the protocol: the value standing for ParsePacket's err. *)
ParseError == 0

(***************************************************************************)
(* ParsePacket(data, onlySelect): the command the document gets, or an     *)
(* error.  first is the segment data begins with, len the length of data.  *)
(***************************************************************************)
ParsePacket(first, len, onlySelect) ==
    IF len <= 4 THEN ParseError
    ELSE IF first.seq = SEQUENCE_FOR_LOGIN THEN COM_LOGIN
    ELSE IF /\ first.seq = 0
            /\ \/ first.cmd \in {COM_QUIT, COM_INIT_DB, COM_SET_OPTION}
               \/ first.cmd = COM_QUERY /\ (onlySelect => first.sel)
         THEN first.cmd
    ELSE ParseError

(***************************************************************************)
(* What the source server's session has as default database after it has   *)
(* executed the segment: a login or COM_INIT_DB selects one, COM_QUIT ends *)
(* the session.  The server is outside the repository.                     *)
(***************************************************************************)
DatabaseAfter(seg, old) ==
    IF seg.db # NoDb THEN seg.db
    ELSE IF seg.seq = 0 /\ seg.cmd = COM_QUIT /\ seg.part = 1 THEN NoDb
    ELSE old
=============================================================================
