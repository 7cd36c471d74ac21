----------------------------- MODULE MCParsers -----------------------------
(* Inputs of the parsers for TLC.                                          *)
EXTENDS Parsers

CONSTANT MaxComments   \* comments in front of a statement, when all alike

LineComment == <<S!Dashes, S!Space, S!Word(5)>>

Comments ==
    {LineComment \o <<S!Newline>>, LineComment \o <<S!Newline, S!Space>>,
     LineComment \o <<S!Return, S!Newline, S!Return, S!Newline>>,
     LineComment \o <<S!Return, S!Space>>,
     <<S!Open, S!Word(3), S!Close>>,
     <<S!Open, S!Space, S!Word(9), S!Newline, S!Space, S!Close, S!Newline>>,
     <<S!Open, S!Space, S!Dashes, S!Word(4), S!Close, S!Space>>,
     <<S!Open, S!Dashes, S!Newline, S!Space, S!Tok("select", 6), S!Close>>,
     <<S!Dashes, S!Newline>>, <<S!Dashes, S!Space, S!Open, S!Newline>>,
     <<S!Open, S!Word(3), S!Dashes, S!Newline, S!Space, S!Tok("select", 6), S!Close>>}

(* So short that the mark of the next comment is within the first bytes,   *)
(* once a comment line has cost a byte.                                    *)
ShortComments ==
    {<<S!Dashes, S!Newline>>, <<S!Dashes, S!Close, S!Newline>>,
     <<S!Open, S!Newline, S!Close>>, <<S!Open, S!Close, S!Newline>>}

(* One of them ends with a comment line that nothing follows.              *)
Tails ==
    {<<>>, <<S!Space, S!Word(1)>>, <<S!Space, S!Word(8), S!Newline>>,
     <<S!Space, S!Word(8), S!Dashes, S!Space, S!Word(4), S!Newline, S!Space,
       S!Tok("select", 6), S!Space, S!Word(3)>>,
     <<S!Space, S!Open, S!Word(2), S!Close, S!Tok("show", 4), S!Word(4)>>,
     <<S!Space, S!Word(8), S!Close, S!Tok("select", 6), S!Word(4)>>,
     <<S!Space, S!Dashes, S!Word(5), S!Newline>>}

AllStatements ==
    [comments: UNION {[1 .. n -> Comments] : n \in 0 .. 2}
               \union UNION {{[i \in 1 .. n |-> c] : c \in Comments} :
                                 n \in 3 .. MaxComments}
               \union [1 .. 3 -> ShortComments],
     verb: S!Selects \union {S!Set, S!Word(6), S!Word(5), S!Word(3)},
     tail: Tails]

(* Around the limits of one byte of length, signed and unsigned, and of    *)
(* the length encoding.                                                    *)
AllLogins ==
    {l \in [form: {"lenenc", "secure", "nul", "ssl"}, withDb: BOOLEAN,
            user: {0, 1, 16}, auth: {0, 1, 20, 127, 128, 250, 251, 300},
            zeros: BOOLEAN, db: {0, 1, 6, 64}, plugin: BOOLEAN] : L!Sendable(l)}

(* Around the limit of the filter; every traffic class of IPv6.            *)
AllFrames ==
    {f \in [link: {"ethernet", "raw"}, version: {4, 6}, options: {0, 1, 10},
            tcpOptions: {0, 3, 10}, class: 0 .. 15, port: {3, 40025},
            n: {1}, len: {0, 1, 5, 12, 60}, lost: {0, 5}, noTotal: BOOLEAN] :
        /\ P!IsFrame(f)
        /\ f.version = 4 => f.class \in {0, 11}}
=============================================================================
