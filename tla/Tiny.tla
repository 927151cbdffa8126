-------------------------------- MODULE Tiny --------------------------------
(***************************************************************************)
(* tiny-web/tiny.c: the iterative web server.  It serves one client after  *)
(* the other with the reader of Rio; a wrapper of csapp.c that fails ends  *)
(* the whole program.                                                      *)
(*                                                                         *)
(* A client reads what it is sent, so that a write does not block.  A line *)
(* that was not read is a buffer on the stack, uninitialised: it may hold  *)
(* anything, and a client before this one's last line above all.  In a     *)
(* stream "GET" stands for the method and the name of a file.              *)
(***************************************************************************)
EXTENDS Rio

CONSTANT MAXLINE

TinyAssumption == MAXLINE \in Nat \ {0, 1} /\ RioAssumption

VARIABLES
    pc,        \* "accept", "request", "headers", "parse", "write", "wait", "close", "exit"
    blank,     \* buf of read_requesthdrs holds \r\n
    filled,    \* the request line fills buf of doit, or nearly
    writes,    \* calls of Rio_writen left
    answer,    \* "error", "long error", "static", "dynamic", or a Failing one
    cgi        \* the CGI program: "none", "runs" or "ended"

tinyVars == <<pc, blank, filled, writes, answer, cgi>>

TinyInit ==
    /\ pc = "accept" /\ blank = FALSE /\ filled = FALSE /\ writes = 0 /\ answer = "error"
    /\ cgi = "none"

Line == Calling("rio_readlineb", MAXLINE)

Accept ==
    /\ pc = "accept"
    /\ \E s \in Streams : Open(s, Line)
    /\ pc' = "request"
    /\ UNCHANGED <<blank, filled, writes, answer, cgi>>

Respond(a, n) == pc' = "write" /\ answer' = a /\ writes' = n

(* clienterror puts its cause, the method or the name of the file, into     *)
(* body, which is no longer than a line: a cause nearly as long overflows   *)
(* it, which may end the program then or later, or not at all.              *)
clienterror(long) == Respond("error", 4) \/ (long /\ Respond("long error", 4))

Returned == call.op = "none"
ReadAgain == call' = Line /\ UNCHANGED <<stream, coming, unread, end, rio_buf, ret, taken>>

(* doit: the method is the first word of the line, or what is there if the  *)
(* line has none.                                                           *)
HasMethod == ret.text # <<>> /\ Head(ret.text) # "nl"

GotRequest ==
    /\ pc = "request" /\ Returned
    /\ \E isGet \in BOOLEAN :
          /\ HasMethod => isGet = (Head(ret.text) = "GET")
          /\ filled' = (~HasMethod \/ Len(ret.text) = MAXLINE - 1)
          /\ IF ret.how = "reset" THEN pc' = "exit" /\ UNCHANGED <<rioVars, blank, writes, answer>>
             ELSE IF isGet THEN /\ pc' = "headers" /\ blank' \in BOOLEAN
                                /\ ReadAgain /\ UNCHANGED <<writes, answer>>
             ELSE clienterror(filled') /\ UNCHANGED <<rioVars, blank>>
    /\ UNCHANGED cgi

(* read_requesthdrs: a line that is just \r\n ends the headers.  At the end *)
(* of the stream buf keeps its line, and the loop reads on for ever.        *)
(* Mutant: the end of the headers is missed.                                *)
EndsHeadersNot == FALSE
EndsHeaders == IF ret.text = <<>> THEN blank ELSE ret.text = <<"nl">>

GotHeader ==
    /\ pc = "headers" /\ Returned
    /\ blank' = EndsHeaders
    /\ IF ret.how = "reset" THEN pc' = "exit" /\ UNCHANGED rioVars
       ELSE IF EndsHeaders THEN pc' = "parse" /\ UNCHANGED rioVars
       ELSE ReadAgain /\ UNCHANGED pc
    /\ UNCHANGED <<filled, writes, answer, cgi>>

(* parse_uri and stat: what the name turns out to be.  A file whose owner   *)
(* may read it passes the test, whoever the server runs as.                 *)
Failing == {"empty file", "unreadable file"}

Parse ==
    /\ pc = "parse"
    /\ \/ clienterror(filled)
       \/ Respond("static", 2)
       \/ \E file \in Failing : Respond(file, 1)
       \/ Respond("dynamic", 2)
    /\ UNCHANGED <<rioVars, blank, filled, cgi>>

(* To a client that has ended or reset, Rio_writen may succeed; or a reset  *)
(* answers it, and SIGPIPE or unix_error ends the program.                  *)
Write ==
    /\ pc = "write" /\ writes > 0
    /\ \/ writes' = writes - 1 /\ UNCHANGED pc
       \/ (end # "open" \/ answer = "long error") /\ pc' = "exit" /\ UNCHANGED writes
    /\ UNCHANGED <<rioVars, blank, filled, answer, cgi>>

(* Open of a file that the process may not read fails, and Mmap of an empty *)
(* one: their wrappers exit.  clienterror may return to an overwritten      *)
(* address.                                                                 *)
Written ==
    /\ pc = "write" /\ writes = 0
    /\ IF answer = "dynamic" THEN pc' = "wait" /\ cgi' = "runs"
       ELSE /\ \/ answer \in Failing \cup {"long error"} /\ pc' = "exit"
               \/ answer \notin Failing /\ pc' = "close"
            /\ UNCHANGED cgi
    /\ UNCHANGED <<rioVars, blank, filled, writes, answer>>

(* The CGI program ends, or Execve fails and its wrapper ends the child.    *)
CgiEnds ==
    /\ cgi = "runs" /\ cgi' = "ended"
    /\ UNCHANGED <<rioVars, pc, blank, filled, writes, answer>>

WaitCgi ==
    /\ pc = "wait" /\ cgi = "ended"
    /\ cgi' = "none" /\ pc' = "close"
    /\ UNCHANGED <<rioVars, blank, filled, writes, answer>>

Close ==
    /\ pc = "close" /\ pc' = "accept"
    /\ UNCHANGED <<rioVars, blank, filled, writes, answer, cgi>>

Reads == pc \in {"request", "headers"} /\ ReaderStep /\ UNCHANGED tinyVars
ServerStep == \/ Reads \/ GotRequest \/ GotHeader \/ Parse \/ Write \/ Written \/ WaitCgi \/ Close

Client == pc \notin {"accept", "exit"} /\ (SendPiece \/ EndStream) /\ UNCHANGED tinyVars
Sends == pc \notin {"accept", "exit"} /\ SendPiece /\ UNCHANGED tinyVars

TinyNext == Accept \/ ServerStep \/ Client \/ CgiEnds
-----------------------------------------------------------------------------
(* A client that sends a whole request and stays is answered and let go, so *)
(* that the next one has its turn (35-38): in whatever pieces the request   *)
(* arrives, however long its headers are, and whatever was on the stack.    *)
(* Not after a client that ends too early: the program then loops (114), or *)
(* exits; nor when the file asked for is empty or cannot be opened, which   *)
(* ends it, too (164-165), or when the cause of an error is about as long   *)
(* as a line, which overflows body (96).                                    *)
Whole(s) == \E k \in 1 .. Len(s) - 1 : s[k] = "nl" /\ s[k + 1] = "nl"

ServesWhole ==
    (pc = "request" /\ Whole(stream)) ~>
        \/ pc = "accept" \/ end # "open"
        \/ pc = "exit" /\ answer \in Failing \cup {"long error"}
=============================================================================
