------------------------------ MODULE HttpWrite ------------------------------
(***************************************************************************)
(* chapter_15/04_http_conn.cpp: what process_write prepares for one        *)
(* connection and what write() makes of it when the socket takes less, is  *)
(* full or broken.  WebServer has the connection's events and threads and  *)
(* takes the response as one fact; here it is data.                        *)
(*                                                                         *)
(* A line of the header, the blank line and a piece of a body are one unit *)
(* each, of buffer and of socket.  A body's units carry its declared size. *)
(***************************************************************************)
EXTENDS Integers, Sequences

CONSTANTS FileSizes,          \* st_size of the files, 0 among them
          ErrorSize,          \* units of an error page
          WRITE_BUFFER_SIZE,
          Room,               \* units the socket holds before the client reads
          MaxReceived         \* bound of the model: the client reads no further

WriteAssumption ==
    /\ FileSizes \subseteq Nat /\ {ErrorSize, Room, MaxReceived} \subseteq Nat \ {0}
    /\ WRITE_BUFFER_SIZE \in Nat
    /\ WRITE_BUFFER_SIZE > 6 + ErrorSize   \* no add_response of the program fails

VARIABLES
    conn,         \* "in" and "out" (armed), "writev" (in write()), "closed"
    m_write_buf,  \* its length is m_write_idx
    m_iv,         \* the parts, "buf" and "file", that writev sends
    m_file,       \* m_file_address: "none", "mapped" or "failed" (MAP_FAILED)
    st_size, m_linger,
    bytes_have_send,
    room, gone,   \* the socket: free units; the client has reset it
    received,     \* history: what the client was sent of this response
    short         \* history: a writev of this response took a part of it

httpVars == <<conn, m_write_buf, m_iv, m_file, st_size, m_linger, bytes_have_send,
              room, gone, received, short>>
sockVars == <<room, gone, received, short>>
objVars == <<m_write_buf, m_iv, m_file, st_size, m_linger>>

HttpInit ==
    /\ conn = "closed" /\ m_write_buf = <<>> /\ m_iv = <<>> /\ m_file = "none" /\ st_size = 0
    /\ m_linger = FALSE /\ bytes_have_send = 0 /\ room = Room /\ gone = FALSE
    /\ received = <<>> /\ short = FALSE
-----------------------------------------------------------------------------
(* The client (external)                                                    *)

ClientReads ==
    /\ room < Room /\ Len(received) < MaxReceived
    /\ \E r \in room + 1 .. Room : room' = r
    /\ UNCHANGED <<conn, objVars, bytes_have_send, gone, received, short>>

ClientResets ==
    /\ conn # "closed" /\ ~gone /\ gone' = TRUE
    /\ UNCHANGED <<conn, objVars, bytes_have_send, room, received, short>>
-----------------------------------------------------------------------------
(* init().  Mutant: m_write_idx is not reset.                               *)
resetNot == m_linger' = FALSE /\ UNCHANGED m_write_buf
reset == m_write_buf' = <<>> /\ m_linger' = FALSE

AcceptInit ==
    /\ conn = "closed" /\ conn' = "in" /\ reset
    /\ room' = Room /\ gone' = FALSE /\ received' = <<>> /\ short' = FALSE
    /\ UNCHANGED <<m_iv, m_file, st_size, bytes_have_send>>

Line(what, n) == [what |-> what, n |-> n]
Body(n) == [k \in 1 .. n |-> Line("body", n)]
headers(n) == <<Line("length", n), Line("linger", 0), Line("blank", 0)>>

add_response_fits(buf, lines) == Len(lines) < WRITE_BUFFER_SIZE - 1 - Len(buf)
add_response(buf, lines) == IF add_response_fits(buf, lines) THEN buf \o lines ELSE buf

(* A status line, the headers for n units and, of an error page, its units. *)
Prepared(n, content) ==
    add_response(add_response(add_response(m_write_buf, <<Line("status", 0)>>), headers(n)),
                 content)

(* do_request: what the name turns out to be.  A mapping that an earlier    *)
(* request of the object left is forgotten, never unmapped.                 *)
do_request(outcome, size) ==
    IF outcome = "file"
      THEN /\ m_file' \in (IF size = 0 THEN {"failed"} ELSE {"mapped", "failed"})
           /\ st_size' = size
      ELSE UNCHANGED <<m_file, st_size>>

(* A request is complete: process(), with the response of process_write.    *)
(* An empty file runs into the default case, and the connection is closed.  *)
Process ==
    /\ conn = "in" /\ ~gone
    /\ \E outcome \in {"file", "page"}, size \in FileSizes :
          /\ outcome = "page" => size = 0
          /\ do_request(outcome, size)
          /\ LET n == IF size > 0 THEN size ELSE ErrorSize
                 content == IF size > 0 THEN <<>> ELSE Body(ErrorSize)
             IN  /\ m_write_buf' = Prepared(n, content)
                 /\ IF outcome = "file" /\ size = 0 THEN conn' = "closed" /\ UNCHANGED m_iv
                    ELSE /\ conn' = "out"
                         /\ m_iv' = IF size > 0 THEN <<"buf", "file">> ELSE <<"buf">>
    /\ m_linger' \in BOOLEAN
    /\ received' = <<>> /\ short' = FALSE
    /\ UNCHANGED <<bytes_have_send, room, gone>>

(* main sees EPOLLRDHUP: close_conn(), which does not unmap.                *)
HangUp ==
    /\ conn \in {"in", "out"} /\ gone /\ conn' = "closed"
    /\ UNCHANGED <<objVars, bytes_have_send, sockVars>>
-----------------------------------------------------------------------------
(* write()                                                                  *)

WriteBegins ==
    /\ conn = "out" /\ room > 0
    /\ IF m_write_buf = <<>> THEN conn' = "in" /\ reset ELSE conn' = "writev" /\ UNCHANGED <<m_write_buf, m_linger>>
    /\ bytes_have_send' = 0
    /\ UNCHANGED <<m_iv, m_file, st_size, sockVars>>

WritevAgain ==
    /\ conn = "writev" /\ ~gone /\ room = 0
    /\ conn' = "out"
    /\ UNCHANGED <<objVars, bytes_have_send, sockVars>>

unmap == m_file' = "none"

WritevFails ==
    /\ conn = "writev" /\ gone
    /\ unmap /\ conn' = "closed"
    /\ UNCHANGED <<m_write_buf, m_iv, st_size, m_linger, bytes_have_send, sockVars>>

(* What m_iv holds; of a file whose mapping failed the kernel copies none.  *)
Offered == m_write_buf \o (IF Len(m_iv) = 2 /\ m_file # "failed" THEN Body(st_size) ELSE <<>>)

(* Every writev starts at the first byte of m_iv, and bytes_to_send counts  *)
(* m_write_buf only: bytes_to_send <= bytes_have_send from its half on.     *)
Decided == Len(m_write_buf) - bytes_have_send' <= bytes_have_send'

Writev ==
    /\ conn = "writev" /\ ~gone /\ room > 0
    /\ LET temp == IF Len(Offered) < room THEN Len(Offered) ELSE room
       IN  /\ received' = received \o SubSeq(Offered, 1, temp)
           /\ bytes_have_send' = bytes_have_send + temp
           /\ room' = room - temp
           /\ short' = (short \/ temp < Len(m_write_buf) + (IF Len(m_iv) = 2 THEN st_size ELSE 0))
    /\ IF ~Decided THEN UNCHANGED <<conn, m_file, m_write_buf, m_linger>>
       ELSE /\ unmap
            /\ IF m_linger THEN reset /\ conn' = "in"
               ELSE conn' = "closed" /\ UNCHANGED <<m_write_buf, m_linger>>
    /\ UNCHANGED <<m_iv, st_size, gone>>

HttpNext ==
    \/ ClientReads \/ ClientResets \/ AcceptInit \/ Process \/ HangUp
    \/ WriteBegins \/ WritevAgain \/ WritevFails \/ Writev
-----------------------------------------------------------------------------
(* A response as HTTP frames it: the length that it declares is its own.    *)
Framed(r) == \E n \in FileSizes \cup {ErrorSize} :
    r = <<Line("status", 0)>> \o headers(n) \o Body(n)

(* Through requests, errors, closed connections and reuse of the object     *)
(* (299-333, 377-437): writev never sends a file that is unmapped, and when *)
(* write() decides that all is sent, the client has one whole response, in  *)
(* one writev, with as many units as it declares; unless a writev took only *)
(* a part, for then the rest is dropped or the beginning sent twice.        *)
ResponseFramed ==
    Writev =>
        /\ Len(m_iv) = 2 => m_file # "none"
        /\ Decided /\ ~short' => Framed(received')
=============================================================================
