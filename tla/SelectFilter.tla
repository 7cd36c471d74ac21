---------------------------- MODULE SelectFilter ----------------------------
(***************************************************************************)
(* isSelectStatement (MRTECollector/src/mrte/mysql_protocol.go): how the   *)
(* collector tells, with -onlyselect, which statements to relay.           *)
(*                                                                         *)
(* A text is a sequence of tokens [k, w]: a kind and a width in bytes.     *)
(* The function compares bytes at fixed positions and cuts the text at     *)
(* computed ones; a token that is cut is a word from then on.              *)
(***************************************************************************)
EXTENDS Naturals, Sequences, FiniteSetsExt, SequencesExt

(* The verbs that the function or its documentation names; any other is a  *)
(* word.                                                                   *)
Kind  == {"word", "space", "newline", "return", "--", "/*", "*/",
          "select", "show", "desc", "set"}
Token == [k: Kind, w: Nat \ {0}]

Tok(k, w) == [k |-> k, w |-> w]
Word(w)   == Tok("word", w)
Space     == Tok("space", 1)
Newline   == Tok("newline", 1)
Return    == Tok("return", 1)
Dashes    == Tok("--", 2)
Open      == Tok("/*", 2)
Close     == Tok("*/", 2)

White   == {Space, Newline, Return}
Selects == {Tok("select", 6), Tok("show", 4), Tok("desc", 4)}
Set     == Tok("set", 3)

(* The offset of the end of each token, that of the empty text included.   *)
Ends(sql) ==
    LET end[i \in 0 .. Len(sql)] == IF i = 0 THEN 0 ELSE end[i - 1] + sql[i].w
    IN  end

Width(sql) == Ends(sql)[Len(sql)]

Positions(sql, tok) ==
    LET end == Ends(sql)
    IN  {end[i - 1] : i \in {j \in 1 .. Len(sql) : sql[j] = tok}}

(* strings.TrimSpace                                                       *)
TrimSpaceBug(sql) ==
    LET text == {i \in 1 .. Len(sql) : sql[i] \notin White}
    IN  IF text = {} THEN <<>> ELSE SubSeq(sql, Min(text), Len(sql))
TrimSpace(sql) ==
    LET text == {i \in 1 .. Len(sql) : sql[i] \notin White}
    IN  IF text = {} THEN <<>> ELSE SubSeq(sql, Min(text), Max(text))

(* sql[n:], for n <= len(sql).                                             *)
From(sql, n) ==
    LET end  == Ends(sql)
        keep == {i \in 1 .. Len(sql) : end[i] > n}
        cut  == Min(keep)
        rest == end[cut] - n
        head == IF rest = sql[cut].w THEN sql[cut] ELSE Word(rest)
    IN  IF keep = {} THEN <<>> ELSE <<head>> \o SubSeq(sql, cut + 1, Len(sql))

HeaderWidth == 6

(* strings.Index(header, tok) >= 0                                         *)
InHeaderBug(sql, tok) == Positions(sql, tok) # {}
InHeader(sql, tok) == \E n \in Positions(sql, tok) : n + tok.w <= HeaderWidth

TooDeepBug(depth) == depth > 3
TooDeep(depth) == depth > 4

(* Where the comment at the front of the text ends; none if it does not.   *)
EndsOfComment(sql) ==
    IF InHeader(sql, Dashes)
    THEN IF Positions(sql, Newline) # {} THEN Positions(sql, Newline)
         ELSE Positions(sql, Return)
    ELSE Positions(sql, Close)

(* One call: an answer, or "again" and the text behind the comment, which  *)
(* the function calls itself with.  "panic" is a slice that starts behind  *)
(* the end of the text.                                                    *)
Scan(sql, depth) ==
    LET sql2         == TrimSpace(sql)
        endOfComment == Min(EndsOfComment(sql2)) + 2
        answer       ==
            IF TooDeep(depth) \/ Width(sql2) < HeaderWidth THEN "no"
            ELSE IF sql2[1] \in Selects THEN "yes"
            ELSE IF ~InHeader(sql2, Dashes) /\ ~InHeader(sql2, Open) THEN "no"
            ELSE IF EndsOfComment(sql2) = {} THEN "no"
            ELSE IF endOfComment > Width(sql2) THEN "panic"
            ELSE "again"
    IN  [answer |-> answer,
         rest   |-> IF answer = "again" THEN From(sql2, endOfComment) ELSE <<>>]

(* The calls by their depth; the one at depth 5 calls no more.             *)
isSelectStatement(sql) ==
    LET call[depth \in 0 .. 5] ==
            IF depth = 0 THEN Scan(sql, 0)
            ELSE LET caller == call[depth - 1]
                 IN  IF caller.answer = "again" THEN Scan(caller.rest, depth)
                     ELSE caller
    IN  call[5].answer

-----------------------------------------------------------------------------
(* A statement as a client writes it: comments, a verb, and what follows.  *)

(* A comment goes to the end of the line or to the first end mark, and has *)
(* only white space behind.                                                *)
WhiteBehind(c, mark) ==
    \A i, j \in 1 .. Len(c) : i < j /\ c[i] = mark => c[j] \in White
Comment ==
    {c \in Seq(Token) :
        /\ c # <<>>
        /\ \/ c[1] = Dashes /\ WhiteBehind(c, Newline)
           \/ c[1] = Open /\ Contains(c, Close) /\ WhiteBehind(c, Close)}
(* A verb is a keyword, of two bytes or more.                              *)
Verb == {t \in Token : t \notin White /\ t.w > 1}
Statement == [comments: Seq(Comment), verb: Verb, tail: Seq(Token)]

Core(st) == TrimSpace(<<st.verb>> \o st.tail)
TextOf(st) == FlattenSeq(st.comments) \o <<st.verb>> \o st.tail

(* In the header, or brought there by the byte that is taken off behind a  *)
(* comment line.                                                           *)
Early(sql, tok) == \E n \in Positions(sql, tok) : n + tok.w <= HeaderWidth + 1
Behind(c, tok) == SubSeq(c, SelectInSeq(c, LAMBDA t : t = tok) + 1, Len(c))

(* Only comments that the function takes for what they are to MySQL: a     *)
(* comment line ends with a newline and has no block comment within its    *)
(* first bytes, a block comment no "--", and no comment follows the verb   *)
(* within those.                                                           *)
Plain(st) ==
    /\ \A i \in 1 .. Len(st.comments) :
          IF st.comments[i][1] = Dashes
          THEN Contains(st.comments[i], Newline) /\ ~Early(st.comments[i], Open)
          ELSE ~Early(st.comments[i], Dashes)
    /\ ~ \E tok \in {Dashes, Open} : Early(<<st.verb>> \o st.tail, tok)

(* Behind the newline of a comment line is a white character: it is taken  *)
(* off together with the newline.                                          *)
Indented(st) ==
    \A i \in 1 .. Len(st.comments) :
        st.comments[i][1] = Dashes =>
            LET next == Behind(st.comments[i], Newline)
            IN  next # <<>> /\ Head(next) \in White
=============================================================================
