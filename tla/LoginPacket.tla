----------------------------- MODULE LoginPacket -----------------------------
(***************************************************************************)
(* The default database in a login request: the collector stores the bytes *)
(* as a hexadecimal string (ParsePacket, MRTECollector/src/mrte/           *)
(* mysql_protocol.go) and the player reads them again (MysqlRequest.java,  *)
(* util/HexHelper.java, util/MysqlProtocol.java, util/ByteHelper.java).    *)
(* Java's bytes are signed.                                                *)
(***************************************************************************)
EXTENDS Integers, Sequences, FiniteSetsExt

FLAG_CLIENT_CONNECT_WITH_DB                 == 8
FLAG_CLIENT_PROTOCOL_41                     == 512
FLAG_CLIENT_SECURE_CONNECTION               == 32768
FLAG_CLIENT_PLUGIN_AUTH_LENENC_CLIENT_DATA  == 2097152

NoDatabase == <<>>     \* the empty statement of the request

-----------------------------------------------------------------------------
(* From bytes to digits and back.                                          *)

EncodeToString(data) ==
    [i \in 1 .. 2 * Len(data) |->
        IF i % 2 = 1 THEN data[(i + 1) \div 2] \div 16
        ELSE data[i \div 2] % 16]

(* (byte) n                                                                *)
JavaByte(n) == IF n > 127 THEN n - 256 ELSE n

hexStringToByteArray(s) ==
    [i \in 1 .. Len(s) \div 2 |-> JavaByte(16 * s[2 * i - 1] + s[2 * i])]

-----------------------------------------------------------------------------
(* Reading the bytes.  Positions count from 0 as in the code; a position   *)
(* of Failed is an exception, after which there is no database.            *)

Failed == -1000

At(data, pos) == data[pos + 1]
Readable(data, pos) == pos \in 0 .. Len(data) - 1

Unsigned(data, pos) == At(data, pos) % 256

LittleEndian(data, pos, n) ==
    LET sum[i \in 0 .. n] ==
            IF i = 0 THEN 0
            ELSE Unsigned(data, pos + n - i) + 256 * sum[i - 1]
    IN  sum[n]

(* The position of the NULL that ends the string, or of the end.           *)
EndOfString(data, pos) ==
    Min({n \in pos .. Len(data) : n = Len(data) \/ At(data, n) = 0})

readNullTerminatedBytes(data, pos) == SubSeq(data, pos + 1, EndOfString(data, pos))
CanReadString(data, pos) == pos >= 0 /\ Len(data) > pos + 1

(* How many bytes of length there are, by the first of them: these are the *)
(* counts the code adds, not those of the encoding (252 has three).        *)
LengthBytes(first) ==
    CASE first = 252 -> 2 [] first = 253 -> 3 [] first = 254 -> 8 [] OTHER -> 1

(* Of a length of more than one byte, all of it must be there.             *)
HasLength(data, pos) ==
    LET first == Unsigned(data, pos)
    IN  CASE first = 252 -> Len(data) >= pos + 3
          [] first = 253 -> Len(data) >= pos + 4
          [] first = 254 -> Len(data) >= pos + 9
          [] OTHER       -> TRUE

(* The two numbers that the function returns, added as the caller does.    *)
readLengthCodedBinary2(data, pos) ==
    LET first == Unsigned(data, pos)
    IN  LengthBytes(first)
        + CASE first = 251 -> -1
            [] first = 252 -> LittleEndian(data, pos + 1, 2)
            [] first = 253 -> LittleEndian(data, pos + 1, 3)
            [] first = 254 -> LittleEndian(data, pos + 1, 8)
            [] OTHER       -> first

Has(flags, flag) == (flags \div flag) % 2 = 1

(* Behind the authentication response.                                     *)
AfterAuthBug(data, flags, pos) ==
    IF ~Readable(data, pos) THEN Failed
    ELSE IF Has(flags, FLAG_CLIENT_SECURE_CONNECTION) THEN pos + 1 + At(data, pos)
    ELSE EndOfString(data, pos) + 1
AfterAuth(data, flags, pos) ==
    IF ~Readable(data, pos) THEN Failed
    ELSE IF Has(flags, FLAG_CLIENT_PLUGIN_AUTH_LENENC_CLIENT_DATA)
         THEN IF HasLength(data, pos) THEN pos + readLengthCodedBinary2(data, pos)
              ELSE Failed
    ELSE IF Has(flags, FLAG_CLIENT_SECURE_CONNECTION)
         THEN pos + 1 + At(data, pos)
    ELSE IF CanReadString(data, pos) THEN EndOfString(data, pos) + 1
    ELSE Failed

parseInitDatabaseName(data) ==
    LET flags == LittleEndian(data, 0, 4)
        user  == 4 + 4 + 1 + 23
        auth  == EndOfString(data, user) + 1
        db    == AfterAuth(data, flags, auth)
    IN  IF Len(data) <= 5 \/ ~CanReadString(data, user) THEN NoDatabase
        ELSE IF ~Has(flags, FLAG_CLIENT_CONNECT_WITH_DB) THEN NoDatabase
        ELSE IF ~CanReadString(data, db) THEN NoDatabase
        ELSE readNullTerminatedBytes(data, db)

(* The statement of the COM_INIT_DB that the player makes of a login.      *)
InitDbStatement(hex) ==
    IF Len(hex) < 2 THEN NoDatabase
    ELSE parseInitDatabaseName(hexStringToByteArray(hex))

-----------------------------------------------------------------------------
(* What a client sends (Protocol::HandshakeResponse41): how the length of  *)
(* the authentication response is given, whether it has zero bytes, the    *)
(* lengths of the parts, whether the name of a plugin follows.  An SSL     *)
(* request is the fixed part alone.                                        *)

Login == [form: {"lenenc", "secure", "nul", "ssl"}, withDb: BOOLEAN, user: Nat,
          auth: Nat, zeros: BOOLEAN, db: Nat, plugin: BOOLEAN]

Bytes(b, n) == [i \in 1 .. n |-> b]

FlagsOf(l) ==
    FLAG_CLIENT_PROTOCOL_41
    + (IF l.withDb THEN FLAG_CLIENT_CONNECT_WITH_DB ELSE 0)
    + (IF l.form = "nul" THEN 0 ELSE FLAG_CLIENT_SECURE_CONNECTION)
    + (IF l.form = "lenenc" THEN FLAG_CLIENT_PLUGIN_AUTH_LENENC_CLIENT_DATA ELSE 0)

FlagBytes(n) ==
    <<n % 256, (n \div 256) % 256, (n \div 65536) % 256, (n \div 16777216) % 256>>

AuthBytes(l) == Bytes(IF l.zeros /\ l.form # "nul" THEN 0 ELSE 201, l.auth)

AuthOf(l) ==
    CASE l.form = "lenenc" /\ l.auth >= 251 ->
            <<252, l.auth % 256, l.auth \div 256>> \o AuthBytes(l)
      [] l.form = "nul" -> AuthBytes(l) \o <<0>>
      [] OTHER          -> <<l.auth>> \o AuthBytes(l)

DatabaseOf(l) == IF l.withDb THEN Bytes(100, l.db) ELSE NoDatabase

BytesOf(l) ==
    FlagBytes(FlagsOf(l)) \o Bytes(0, 28)
    \o IF l.form = "ssl" THEN <<>>
       ELSE Bytes(117, l.user) \o <<0>> \o AuthOf(l)
            \o (IF l.withDb THEN DatabaseOf(l) \o <<0>> ELSE <<>>)
            \o (IF l.plugin THEN Bytes(112, 21) \o <<0>> ELSE <<>>)

(* One byte of length holds at most 255.                                   *)
Sendable(l) == l.form = "secure" => l.auth <= 255

(* The lengths that the player reads as they were meant.                   *)
LengthUnderstood(l) ==
    CASE l.form = "lenenc" -> l.auth <= 250
      [] l.form = "secure" -> l.auth <= 127
      [] OTHER             -> TRUE
=============================================================================
