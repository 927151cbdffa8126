-------------------------------- MODULE MCIo --------------------------------
(* The answer of the web server, the readers of csapp.c and tiny.c for TLC, *)
(* one of them in a behaviour.                                              *)
EXTENDS Tiny

CONSTANTS FileSizes, ErrorSize, WRITE_BUFFER_SIZE, Room, MaxReceived

VARIABLES which,
          conn, m_write_buf, m_iv, m_file, st_size, m_linger, bytes_have_send,   \* HttpWrite
          room, gone, received, short

H == INSTANCE HttpWrite

ASSUME IoAssumption == TinyAssumption /\ H!WriteAssumption

httpVars == <<conn, m_write_buf, m_iv, m_file, st_size, m_linger, bytes_have_send,
              room, gone, received, short>>
ioVars == <<which, httpVars, rioVars, tinyVars>>

(* A request with a header, one whose header is longer than MAXLINE, one    *)
(* whose first line is, one without the blank line, one with another method *)
(* that fills the line, one that has no method.                             *)
MCStreams == {<<"GET", "nl", "h", "nl", "nl">>, <<"GET", "nl", "h", "h", "h", "nl", "nl">>,
              <<"GET", "h", "h", "nl", "nl">>, <<"GET", "nl", "h", "nl">>,
              <<"PUT", "h", "nl", "nl">>, <<"nl", "nl">>}

IoInit == which \in {"http", "rio", "tiny"} /\ H!HttpInit /\ RioInit /\ TinyInit

OfTiny(A) == which = "tiny" /\ A /\ UNCHANGED <<which, httpVars>>

IoNext ==
    \/ which = "http" /\ H!HttpNext /\ UNCHANGED <<which, rioVars, tinyVars>>
    \/ which = "rio" /\ RioNext /\ UNCHANGED <<which, httpVars, tinyVars>>
    \/ OfTiny(TinyNext)

(* The server runs, a CGI program ends, and a client goes on sending.       *)
IoFairness == WF_ioVars(OfTiny(ServerStep)) /\ WF_ioVars(OfTiny(CgiEnds)) /\ WF_ioVars(OfTiny(Sends))

IoSpec == IoInit /\ [][IoNext]_ioVars /\ IoFairness

(* HttpWrite: what is said to be sent is one whole response.                *)
ResponseFramed == [][H!ResponseFramed]_ioVars
=============================================================================
