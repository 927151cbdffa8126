----------------------------- MODULE HttpParser -----------------------------
(***************************************************************************)
(* The two incremental HTTP parsers of the repository, fed with an input   *)
(* in pieces of any size:                                                  *)
(*   prog   the blocking program of chapter_08/http_praser.c,              *)
(*   conn   http_conn of chapter_15/04_http_conn.cpp, up to the verdict    *)
(*          that process_read returns.                                     *)
(* The input is a sequence of tokens: CR, LF, and one token for a piece of *)
(* text the parsers tell apart.  One step is one recv or one turn of the   *)
(* parser's loop.  Indices count from 0, as in the code.                   *)
(***************************************************************************)
EXTENDS Naturals, Sequences, FiniteSetsExt

CONSTANTS Inputs,         \* what the client may send
          ContentLength,  \* the number in the Content-Length header
          BufferSize      \* BUFFER_SIZE, READ_BUFFER_SIZE

Tokens == {"CR", "LF",
           "GET",        \* method, URL and version of a valid request line
           "text",       \* any other text: a wrong request line, a Host header, body
           "keep-alive", \* Connection: keep-alive
           "length"}     \* Content-Length: <ContentLength>

ASSUME ParserAssumption ==
    /\ Inputs \subseteq Seq(Tokens)
    /\ ContentLength \in Nat \ {0} /\ BufferSize \in Nat \ {0}

VARIABLES input, program, parser

vars == <<input, program, parser>>

(* pc is "recv" between calls of the parser, "parse" inside, then "done".   *)
NewParser == [pc |-> "recv", check_state |-> "requestline",
              read_idx |-> 0, checked_idx |-> 0, start_line |-> 0,
              m_linger |-> FALSE, m_content_length |-> 0,
              result |-> "NO_REQUEST",
              partial |-> FALSE]   \* history: a call ended inside the body

Init == input \in Inputs /\ program \in {"prog", "conn"} /\ parser = NewParser

At(name, place) == program = name /\ parser.pc = place
-----------------------------------------------------------------------------
Char(i) == input[i + 1]

(* mutant: a CR that ends the buffer is taken for a malformed line          *)
parse_line_impatient(p) ==
    LET ends == {i \in p.checked_idx .. p.read_idx - 1 : Char(i) \in {"CR", "LF"}}
        i == Min(ends)
    IN  IF ends = {} THEN [status |-> "OPEN", at |-> p.read_idx]
        ELSE IF Char(i) = "CR" /\ i + 1 < p.read_idx /\ Char(i + 1) = "LF"
          THEN [status |-> "OK", at |-> i + 2]
        ELSE [status |-> "BAD", at |-> i]

(* mutant: any CR ends a line, the character after it unseen                *)
parse_line_unchecked(p) ==
    LET ends == {i \in p.checked_idx .. p.read_idx - 1 : Char(i) \in {"CR", "LF"}}
        i == Min(ends)
    IN  IF ends = {} THEN [status |-> "OPEN", at |-> p.read_idx]
        ELSE IF Char(i) = "CR" THEN [status |-> "OK", at |-> i + 2]
        ELSE [status |-> "BAD", at |-> i]

(* LINE_STATUS parse_line(): where the scan stops, and why.                 *)
parse_line(p) ==
    LET ends == {i \in p.checked_idx .. p.read_idx - 1 : Char(i) \in {"CR", "LF"}}
        i == Min(ends)
    IN  IF ends = {} THEN [status |-> "OPEN", at |-> p.read_idx]
        ELSE IF Char(i) = "CR" /\ i + 1 = p.read_idx THEN [status |-> "OPEN", at |-> i]
        ELSE IF Char(i) = "CR" /\ Char(i + 1) = "LF" THEN [status |-> "OK", at |-> i + 2]
        ELSE IF Char(i) = "LF" /\ i > 1 /\ Char(i - 1) = "CR"
          THEN [status |-> "OK", at |-> i + 1]
        ELSE [status |-> "BAD", at |-> i]

(* The text of the line that parse_line has just ended: it put a NUL over   *)
(* the two characters before at, where the C string ends.                   *)
get_line(p, at) == SubSeq(input, p.start_line + 1, at - 2)

Return(p, r) == [p EXCEPT !.pc = IF r = "NO_REQUEST" THEN "recv" ELSE "done", !.result = r]

parse_request_line(p, text) ==
    IF text = <<"GET">> THEN [p EXCEPT !.check_state = "header"]
                        ELSE Return(p, "BAD_REQUEST")
-----------------------------------------------------------------------------
(* chapter_08/http_praser.c                                                 *)

(* recv: 0 when the buffer is full (its length is 0 then), which the        *)
(* program takes for the end of the connection.                             *)
ProgRecv ==
    /\ At("prog", "recv")
    /\ \/ /\ parser.read_idx = BufferSize
          /\ parser' = [parser EXCEPT !.pc = "done", !.result = "CLOSED"]
       \/ \E n \in parser.read_idx + 1 .. Len(input) :
            /\ n <= BufferSize
            /\ parser' = [parser EXCEPT !.read_idx = n, !.pc = "parse"]
    /\ UNCHANGED <<input, program>>

prog_parse_headers(p, text) == IF text = <<>> THEN Return(p, "GET_REQUEST") ELSE p

(* One turn of the loop of parse_content().                                 *)
ProgParse ==
    LET line == parse_line(parser)
        p == [parser EXCEPT !.checked_idx = line.at, !.start_line = line.at]
        text == get_line(parser, line.at)
    IN  /\ At("prog", "parse")
        /\ parser' = IF line.status = "OK"
                     THEN IF parser.check_state = "requestline"
                            THEN parse_request_line(p, text)
                            ELSE prog_parse_headers(p, text)
                     ELSE Return([parser EXCEPT !.checked_idx = line.at],
                                 IF line.status = "OPEN" THEN "NO_REQUEST" ELSE "BAD_REQUEST")
        /\ UNCHANGED <<input, program>>
-----------------------------------------------------------------------------
(* chapter_15/04_http_conn.cpp                                              *)

(* read() takes what has arrived; when that fills the buffer, or it was     *)
(* full, it returns false and the connection is closed, unparsed.           *)
ConnRead ==
    /\ At("conn", "recv")
    /\ \E n \in parser.read_idx + 1 .. Len(input) :
         parser' = IF n >= BufferSize
                   THEN [parser EXCEPT !.pc = "done", !.result = "CLOSED"]
                   ELSE [parser EXCEPT !.read_idx = n, !.pc = "parse"]
    /\ UNCHANGED <<input, program>>

(* mutant: a second Connection header overrides the first                   *)
parse_headers_override(p, text) ==
    IF text = <<>>
      THEN IF p.m_content_length # 0 THEN [p EXCEPT !.check_state = "content"]
                                     ELSE Return(p, "GET_REQUEST")
    ELSE [p EXCEPT !.m_linger = (text = <<"keep-alive">>),
                   !.m_content_length = IF text[1] = "length" THEN ContentLength ELSE @]

(* A header is known by its first token; Connection must match to its end.  *)
parse_headers(p, text) ==
    IF text = <<>>
      THEN IF p.m_content_length # 0 THEN [p EXCEPT !.check_state = "content"]
                                     ELSE Return(p, "GET_REQUEST")
    ELSE IF text = <<"keep-alive">> THEN [p EXCEPT !.m_linger = TRUE]
    ELSE IF text[1] = "length" THEN [p EXCEPT !.m_content_length = ContentLength]
    ELSE p

(* mutant: the comparison forgets where the body starts                     *)
parse_content_short(p) ==
    IF p.read_idx >= p.m_content_length THEN Return(p, "GET_REQUEST")
                                        ELSE Return(p, "NO_REQUEST")

(* The body has arrived when m_content_length bytes follow m_checked_idx.   *)
(* Otherwise line_status becomes LINE_OPEN and the loop calls parse_line    *)
(* once more, which moves m_checked_idx into the body.                      *)
parse_content(p) ==
    LET line == parse_line(p)
        q == [p EXCEPT !.start_line = p.checked_idx, !.checked_idx = line.at, !.partial = TRUE]
    IN  IF p.read_idx >= p.m_content_length + p.checked_idx
          THEN Return([p EXCEPT !.start_line = p.checked_idx], "GET_REQUEST")
        ELSE IF line.status = "OK" THEN q
        ELSE Return(q, "NO_REQUEST")

(* One turn of the loop of process_read().  A malformed line ends it like   *)
(* one that is not complete yet.                                            *)
ConnParse ==
    LET line == parse_line(parser)
        p == [parser EXCEPT !.checked_idx = line.at, !.start_line = line.at]
        text == get_line(parser, line.at)
    IN  /\ At("conn", "parse")
        /\ parser' = IF parser.check_state = "content" THEN parse_content(parser)
                   ELSE IF line.status # "OK"
                     THEN Return([parser EXCEPT !.checked_idx = line.at], "NO_REQUEST")
                   ELSE IF parser.check_state = "requestline" THEN parse_request_line(p, text)
                   ELSE parse_headers(p, text)
        /\ UNCHANGED <<input, program>>

Next == ProgRecv \/ ProgParse \/ ConnRead \/ ConnParse

Spec == Init /\ [][Next]_vars
-----------------------------------------------------------------------------
Indices(p) == /\ p.start_line <= p.checked_idx
              /\ p.checked_idx <= p.read_idx
              /\ p.read_idx <= BufferSize
              /\ p.read_idx <= Len(input)

Parsers ==
    [pc : {"recv", "parse", "done"}, check_state : {"requestline", "header", "content"},
     read_idx : Nat, checked_idx : Nat, start_line : Nat, m_linger : BOOLEAN,
     m_content_length : {0, ContentLength},
     result : {"NO_REQUEST", "BAD_REQUEST", "GET_REQUEST", "CLOSED"}, partial : BOOLEAN]

TypeOK ==
    /\ input \in Inputs
    /\ program \in {"prog", "conn"}
    /\ parser \in Parsers
    /\ Indices(parser)

(***************************************************************************)
(* The reference: what the first n tokens of the input amount to, read at  *)
(* once.  A CRLF ends a line; any other CR or LF is malformed (a CR at the *)
(* very end may still turn into a CRLF); what counts comes before the      *)
(* first malformed place.  The head ends at the first empty line.          *)
(***************************************************************************)
CRLFs(n) == {i \in 0 .. n - 2 : Char(i) = "CR" /\ Char(i + 1) = "LF"}

Malformed(n) == {i \in 0 .. n - 1 :
    \/ Char(i) = "CR" /\ i + 1 < n /\ Char(i + 1) # "LF"
    \/ Char(i) = "LF" /\ (i = 0 \/ Char(i - 1) # "CR")}

Ends(n) == {i \in CRLFs(n) : \A j \in Malformed(n) : i < j}

(* Blank lines, the first line of the input not counted.                    *)
Blank(n) == {i \in Ends(n) : i - 2 \in Ends(n)}

FirstLine(n) == SubSeq(input, 1, Min(Ends(n)))

HeadLines(n) == {i \in Ends(n) : i < Min(Blank(n))}

(* The header line that follows the line end at i consists of one token t.  *)
Is(i, t, n) == i + 3 \in Ends(n) /\ Char(i + 2) = t

HasLength(n) == \E i \in HeadLines(n) : i + 2 < n /\ Char(i + 2) = "length"

KeepsAlive(n) == \E i \in HeadLines(n) : Is(i, "keep-alive", n)

HeadOf(n) == IF Ends(n) # {} /\ FirstLine(n) # <<"GET">> THEN "BAD_REQUEST"
             ELSE IF Blank(n) # {} THEN "GET_REQUEST"
             ELSE IF Malformed(n) # {} THEN "MALFORMED"
             ELSE "NO_REQUEST"

(* Outside a call of the parser, and unless the buffer was full.            *)
Judged == parser.pc # "parse" /\ parser.result # "CLOSED"

(* The program of chapter 8 reaches the verdict of the reference however    *)
(* the input is cut into pieces: neither a CR at the end of a piece nor a   *)
(* line that spans pieces changes it.                                       *)
ProgIndependentOfPieces ==
    program = "prog" /\ Judged =>
        parser.result = LET h == HeadOf(parser.read_idx)
                      IN  IF h = "MALFORMED" THEN "BAD_REQUEST" ELSE h

(* http_conn reaches the verdict of the reference too, and keeps the        *)
(* connection exactly when asked to, unless the body was cut: a malformed   *)
(* line is never answered, and a body is awaited.  After a cut inside the   *)
(* body m_checked_idx has moved into it (241-262) and the same body may     *)
(* never be complete.                                                       *)
ConnIndependentOfPieces ==
    program = "conn" /\ ~parser.partial /\ Judged =>
        LET n == parser.read_idx
            h == HeadOf(n)
            bodyEnd == Min(Blank(n)) + 2 + ContentLength
        IN  /\ parser.result = IF h = "MALFORMED" \/ (h = "GET_REQUEST" /\ HasLength(n) /\ n < bodyEnd)
                               THEN "NO_REQUEST" ELSE h
            /\ h = "GET_REQUEST" => (parser.m_linger <=> KeepsAlive(n))

(* However the body was cut, and although m_checked_idx moves into it, a    *)
(* request is never handed to do_request before its whole body is there.    *)
BodyNeverShort ==
    program = "conn" /\ parser.result = "GET_REQUEST" /\ HasLength(parser.read_idx) =>
        parser.read_idx >= Min(Blank(parser.read_idx)) + 2 + ContentLength
=============================================================================
