--------------------------------- MODULE Rio ---------------------------------
(***************************************************************************)
(* tiny-web/csapp.c: the readers of the robust I/O package on one          *)
(* connection.  The client sends a stream in pieces of its choice, and     *)
(* ends or resets it when it likes.  A read that is interrupted is tried   *)
(* again at once and changes nothing.                                      *)
(*                                                                         *)
(* A character is a model value or "nl"; "nl" stands for the \r\n that     *)
(* ends a line of a request.                                               *)
(***************************************************************************)
EXTENDS Integers, Sequences, SequencesExt

CONSTANTS Characters,
          Streams,       \* what clients send
          RIO_BUFSIZE

RioAssumption == Streams \subseteq Seq(Characters) /\ RIO_BUFSIZE \in Nat \ {0}

VARIABLES
    stream, coming, unread,   \* the client's: all of it, not yet sent, not yet read
    end,                      \* "open", "eof" or "reset"
    rio_buf,                  \* its length is rio_cnt
    call,                     \* the call in progress, and what it has copied
    ret,                      \* what the last call returned
    taken                     \* history: all that was copied to the caller

rioVars == <<stream, coming, unread, end, rio_buf, call, ret, taken>>

NoCall == [op |-> "none", n |-> 0, got |-> <<>>]
NoRet == [op |-> "none", n |-> 0, text |-> <<>>, how |-> "ok"]

(* Rio_readinitb on a new connection, and the first call on it.             *)
Open(s, first) ==
    /\ stream' = s /\ coming' = s /\ unread' = <<>> /\ end' = "open"
    /\ rio_buf' = <<>> /\ call' = first /\ ret' = NoRet /\ taken' = <<>>

RioInit ==
    /\ stream \in Streams /\ coming = stream /\ unread = <<>> /\ end = "open"
    /\ rio_buf = <<>> /\ call = NoCall /\ ret = NoRet /\ taken = <<>>
-----------------------------------------------------------------------------
(* The client (external)                                                    *)

SendPiece ==
    /\ end = "open"
    /\ \E k \in 1 .. Len(coming) :
          /\ unread' = unread \o SubSeq(coming, 1, k)
          /\ coming' = SubSeq(coming, k + 1, Len(coming))
    /\ UNCHANGED <<stream, end, rio_buf, call, ret, taken>>

EndStream ==
    /\ end = "open" /\ end' \in {"eof", "reset"} /\ coming' = <<>>
    /\ UNCHANGED <<stream, unread, rio_buf, call, ret, taken>>
-----------------------------------------------------------------------------
Calling(op, n) == [op |-> op, n |-> n, got |-> <<>>]

Returns(text, how) ==
    /\ call' = NoCall /\ ret' = [op |-> call.op, n |-> call.n, text |-> text, how |-> how]

(* What one read(fd, buf, n) takes, and what it leaves.                     *)
Piece(n) == SubSeq(unread, 1, IF n < Len(unread) THEN n ELSE Len(unread))
Rest(n) == SubSeq(unread, n + 1, Len(unread))

Buffered == call.op \in {"rio_readlineb", "rio_readnb"}

(* Mutant: the buffer is filled again when one character is left in it.     *)
EmptyEnough == Len(rio_buf) <= 1
Empty == rio_buf = <<>>

(* rio_read fills its buffer, which the functions below then read from.     *)
Refill ==
    /\ Buffered /\ Empty /\ unread # <<>>
    /\ rio_buf' = Piece(RIO_BUFSIZE) /\ unread' = Rest(RIO_BUFSIZE)
    /\ UNCHANGED <<stream, coming, end, call, ret, taken>>

(* read returns 0, or it fails: -1, whatever was copied before.             *)
ReadEnds ==
    /\ call.op # "none" /\ (Buffered => Empty) /\ unread = <<>> /\ end # "open"
    /\ Returns(call.got, end)
    /\ UNCHANGED <<stream, coming, unread, end, rio_buf, taken>>

rio_readlineb ==
    /\ call.op = "rio_readlineb" /\ rio_buf # <<>>
    /\ LET c == Head(rio_buf)
           got == Append(call.got, c)
       IN  /\ rio_buf' = Tail(rio_buf) /\ taken' = Append(taken, c)
           /\ IF c = "nl" \/ Len(got) >= call.n - 1 THEN Returns(got, "ok")
              ELSE call' = [call EXCEPT !.got = got] /\ UNCHANGED ret
    /\ UNCHANGED <<stream, coming, unread, end>>

(* nleft bytes are copied from a buffer, or from the kernel directly.       *)
Copy(from) ==
    LET cnt == IF call.n - Len(call.got) < Len(from) THEN call.n - Len(call.got) ELSE Len(from)
        got == call.got \o SubSeq(from, 1, cnt)
    IN  /\ taken' = taken \o SubSeq(from, 1, cnt)
        /\ IF Len(got) = call.n THEN Returns(got, "ok")
           ELSE call' = [call EXCEPT !.got = got] /\ UNCHANGED ret

rio_readnb ==
    /\ call.op = "rio_readnb" /\ rio_buf # <<>>
    /\ Copy(rio_buf)
    /\ rio_buf' = SubSeq(rio_buf, call.n - Len(call.got) + 1, Len(rio_buf))
    /\ UNCHANGED <<stream, coming, unread, end>>

rio_readn ==
    /\ call.op = "rio_readn" /\ unread # <<>>
    /\ Copy(unread) /\ unread' = Rest(call.n - Len(call.got))
    /\ UNCHANGED <<stream, coming, end, rio_buf>>

ReaderStep == Refill \/ ReadEnds \/ rio_readlineb \/ rio_readnb \/ rio_readn

(* Some program that calls them; rio_readn goes past what is buffered.      *)
AnyCall ==
    /\ call.op = "none"
    /\ \E op \in {"rio_readlineb", "rio_readnb", "rio_readn"}, n \in 2 .. 4 :
          /\ op = "rio_readn" => rio_buf = <<>>
          /\ call' = Calling(op, n)
    /\ UNCHANGED <<stream, coming, unread, end, rio_buf, ret, taken>>

RioNext == SendPiece \/ EndStream \/ ReaderStep \/ AnyCall
-----------------------------------------------------------------------------
(* Whatever the pieces and the sizes of the buffers (726-745, 782-870): the *)
(* callers get the stream in order, each character once, none skipped; a    *)
(* line ends at its first newline, or when the caller's buffer is full, or  *)
(* with the stream; the others return all that was asked for, or the rest.  *)
ReadsStream ==
    /\ IsPrefix(taken \o rio_buf \o unread, stream)
    /\ call.op # "none" => IsSuffix(call.got, taken)
    /\ ret.how = "ok" /\ ret.op \in {"rio_readnb", "rio_readn"} => Len(ret.text) = ret.n
    /\ ret.how = "ok" /\ ret.op = "rio_readlineb" => Last(ret.text) = "nl" \/ Len(ret.text) = ret.n - 1
    /\ ret.op = "rio_readlineb" => \A k \in 1 .. Len(ret.text) - 1 : ret.text[k] # "nl"
    /\ ret.how # "ok" => end = ret.how /\ unread = <<>> /\ rio_buf = <<>>
=============================================================================
