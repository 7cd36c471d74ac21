------------------------------- MODULE Parsers -------------------------------
(***************************************************************************)
(* The sequential parsers on the way of a request, each given any of its   *)
(* inputs: the filter of statements, the reader of logins, the two parsers *)
(* of frames.  A call is one step; answer is what the code computed.       *)
(***************************************************************************)
EXTENDS Naturals, Sequences

S == INSTANCE SelectFilter
L == INSTANCE LoginPacket
P == INSTANCE PacketParser

CONSTANTS Statements, Logins, Frames   \* the inputs

ASSUME InputsAssumption ==
    /\ \A st \in Statements : st \in S!Statement
    /\ \A l \in Logins : l \in L!Login /\ L!Sendable(l)
    /\ \A f \in Frames : P!IsFrame(f)

VARIABLES function,   \* the function that was called, or "none"
          input,      \* what it was given
          answer      \* what it returned

vars == <<function, input, answer>>

Idle == function = "none" /\ input = <<>> /\ answer = <<>>

Init == Idle

Call(name, in, out) == function' = name /\ input' = in /\ answer' = out

CallIsSelect ==
    /\ Idle
    /\ \E st \in Statements :
          Call("isSelectStatement", st, S!isSelectStatement(S!TextOf(st)))

CallLogin ==
    /\ Idle
    /\ \E l \in Logins :
          Call("MysqlRequest", l, L!InitDbStatement(L!EncodeToString(L!BytesOf(l))))

CallParser ==
    /\ Idle
    /\ \E f \in Frames, fastPacketParsing \in BOOLEAN :
          Call("ParsePacket", [frame |-> f, fast |-> fastPacketParsing],
               P!ToWorker(P!BytesOf(f), f.link, fastPacketParsing))

CallGetPortNo ==
    /\ Idle
    /\ \E f \in Frames : Call("GetPortNo", f, P!GetPortNo(P!BytesOf(f), f.link))

Finish == function # "none" /\ Call("none", <<>>, <<>>)

Next == CallIsSelect \/ CallLogin \/ CallParser \/ CallGetPortNo \/ Finish

Spec == Init /\ [][Next]_vars

-----------------------------------------------------------------------------
(* Properties.                                                             *)

(* The position behind a comment that isSelectStatement goes on from is    *)
(* never behind the end of the statement, although it adds two to the      *)
(* position of a single newline: the slice does not panic.                 *)
FilterNeverPanics == function = "isSelectStatement" => answer # "panic"

(* With -onlyselect only reading and session statements pass: a SELECT,    *)
(* SHOW or DESC, or a SET, which howtorun.md:105 names among them.  No     *)
(* other statement is taken for one, whatever comments surround it,        *)
(* commented-out SELECTs and SETs included.                                *)
OnlySelectsPass ==
    function = "isSelectStatement" /\ S!Plain(input) /\ answer = "yes"
        => input.verb \in S!Selects \union {S!Set}

(* Six bytes or more behind up to four comments that the function takes    *)
(* for what they are to MySQL.                                             *)
WithinLimits(st) ==
    /\ S!Plain(st) /\ S!Indented(st)
    /\ S!Width(S!Core(st)) >= S!HeaderWidth
    /\ Len(st.comments) <= 4

(* A SELECT, SHOW or DESC within the limits passes: the limit on the       *)
(* recursion and the byte taken off behind a comment line cost nothing     *)
(* else.                                                                   *)
MustPass(st) == WithinLimits(st) /\ st.verb \in S!Selects
SelectsPass ==
    function = "isSelectStatement" /\ MustPass(input) => answer = "yes"

(* The same of a SET, which the comment at mysql_protocol.go:31 and        *)
(* howtorun.md:105 count among the statements that -onlyselect relays.     *)
SetsPass ==
    function = "isSelectStatement" /\ WithinLimits(input) /\ input.verb = S!Set
        => answer = "yes"

(* The player finds in a stored login the database that the client named,  *)
(* and none where the client named none, in each of the three forms that   *)
(* the length of the authentication response has, if its length is one     *)
(* that both sides read alike; an SSL request has none.                    *)
LoginDatabaseFound ==
    function = "MysqlRequest" /\ L!LengthUnderstood(input)
        => answer = IF input.form = "ssl" THEN L!NoDatabase ELSE L!DatabaseOf(input)

(* Whichever parser a worker uses, what it takes from a frame is nothing   *)
(* or the sender's port and the captured data of that frame, without       *)
(* headers, options or the padding of a short frame.                       *)
NothingInvented ==
    function = "ParsePacket" => answer \in {P!None, P!Captured(input.frame)}

(* Where a parser is at home it takes all data of every frame: over IPv4   *)
(* with headers of 66 bytes or more the filter of the capture loop and the *)
(* custom parser lose nothing, down to one byte of data.                   *)
PayloadDelivered ==
    function = "ParsePacket" /\ P!Supported(input.frame, input.fast)
        => answer = P!Captured(input.frame)

(* All frames of a session go to one worker: GetPortNo reads the source    *)
(* port of IPv4 whatever the link and the options, and of IPv6 something   *)
(* that does not change with the frame, for the traffic classes named.     *)
RoutedBySession ==
    function = "GetPortNo" =>
        /\ input.version = 4 => answer = input.port
        /\ ~P!Scattered(input) =>
              answer = P!GetPortNo(P!BytesOf(P!Later(input)), input.link)
=============================================================================
