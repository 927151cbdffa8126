------------------------------ MODULE PollServer ------------------------------
(***************************************************************************)
(* chapter_09/05_poll_server.c: a chat server on poll().  A user's text is *)
(* received into his own buffer; every other user gets a pointer to that   *)
(* buffer and is switched from reading to writing until he has sent it.    *)
(* users is indexed by descriptor, fds is packed: the last entry takes the *)
(* place of one that leaves.                                               *)
(*                                                                         *)
(* fds[1..user_counter] is the sequence fds here.  A pass over the results *)
(* of poll is as many steps as it has entries, for clients act meanwhile.  *)
(* A buffer holds the descriptor of the user who wrote the text in it.     *)
(***************************************************************************)
EXTENDS Integers, Sequences, FiniteSets

CONSTANTS FDs,        \* descriptors the kernel can hand out
          USER_LIMIT,
          MaxTexts,   \* bound of the model: texts the users send
          NULL

PollAssumption ==
    USER_LIMIT \in Nat \ {0} /\ MaxTexts \in Nat /\ NULL \notin FDs

VARIABLES
    sock,       \* the kernel's side: open, unread texts, rdhup, err
    waiting,    \* connections that wait for accept
    fds,        \* fd, events ("in" or "out"), revents
    users,      \* write_buf: whose buffer to send; buf: whose text is in it
    i,          \* index of the pass, -1 in poll
    listenIn,   \* POLLIN on the listening socket
    texts,
    dangling    \* history: users who point to the buffer of one who has left

pollVars == <<sock, waiting, fds, users, i, listenIn, texts, dangling>>

ClosedSock == [open |-> FALSE, unread |-> 0, rdhup |-> FALSE, err |-> FALSE]

PollInit ==
    /\ sock = [fd \in FDs |-> ClosedSock] /\ waiting = 0
    /\ fds = <<>> /\ users = [fd \in FDs |-> [write_buf |-> NULL, buf |-> NULL]]
    /\ i = -1 /\ listenIn = FALSE /\ texts = 0 /\ dangling = {}
-----------------------------------------------------------------------------
(* The users (external)                                                     *)

UserConnect ==
    /\ waiting = 0 /\ waiting' = 1
    /\ UNCHANGED <<sock, fds, users, i, listenIn, texts, dangling>>

UserText(fd) ==
    /\ sock[fd].open /\ ~sock[fd].rdhup /\ texts < MaxTexts
    /\ sock' = [sock EXCEPT ![fd].unread = @ + 1] /\ texts' = texts + 1
    /\ UNCHANGED <<waiting, fds, users, i, listenIn, dangling>>

UserLeaves(fd) ==
    /\ sock[fd].open /\ ~sock[fd].rdhup
    /\ \E err \in BOOLEAN :
          sock' = [sock EXCEPT ![fd].rdhup = TRUE, ![fd].err = err]
    /\ UNCHANGED <<waiting, fds, users, i, listenIn, texts, dangling>>
-----------------------------------------------------------------------------
(* What poll reports of an entry; a user who does not read is not writable. *)
Results(e) ==
    LET s == sock[e.fd]
        always == {r \in {"rdhup", "err"} : s[r]}
    IN  IF e.events = "in"
        THEN {always \cup (IF s.unread > 0 \/ s.rdhup THEN {"in"} ELSE {})}
        ELSE {always, always \cup {"out"}}

Poll ==
    /\ i = -1
    /\ \E revents \in [DOMAIN fds -> SUBSET {"in", "out", "rdhup", "err"}] :
          /\ \A k \in DOMAIN fds : revents[k] \in Results(fds[k])
          /\ waiting > 0 \/ \E k \in DOMAIN fds : revents[k] # {}
          /\ fds' = [k \in DOMAIN fds |-> [fds[k] EXCEPT !.revents = revents[k]]]
    /\ listenIn' = (waiting > 0) /\ i' = 0
    /\ UNCHANGED <<sock, waiting, users, texts, dangling>>

(* The index after the current entry, with n users left.                    *)
Following(k, n) == IF k > n THEN -1 ELSE k

NoAccept ==
    /\ i = 0 /\ ~listenIn
    /\ i' = Following(1, Len(fds))
    /\ UNCHANGED <<sock, waiting, fds, users, listenIn, texts, dangling>>

Refuse ==
    /\ i = 0 /\ listenIn /\ Len(fds) >= USER_LIMIT
    /\ waiting' = waiting - 1 /\ i' = Following(1, Len(fds))
    /\ UNCHANGED <<sock, fds, users, listenIn, texts, dangling>>

(* users[fd] keeps what an earlier user of the descriptor left in it; that  *)
(* text is nobody's from now on.                                            *)
Accept(fd) ==
    /\ i = 0 /\ listenIn /\ Len(fds) < USER_LIMIT /\ ~sock[fd].open
    /\ waiting' = waiting - 1
    /\ sock' = [sock EXCEPT ![fd] = [ClosedSock EXCEPT !.open = TRUE]]
    /\ fds' = Append(fds, [fd |-> fd, events |-> "in", revents |-> {}])
    /\ users' = [u \in FDs |-> [users[u] EXCEPT !.buf = IF @ = fd THEN NULL ELSE @]]
    /\ i' = 1
    /\ UNCHANGED <<listenIn, texts, dangling>>

Entry == fds[i]
AtEntry == i > 0

PollErr ==
    /\ AtEntry /\ "err" \in Entry.revents
    /\ sock' = [sock EXCEPT ![Entry.fd].err = FALSE]
    /\ i' = Following(i + 1, Len(fds))
    /\ UNCHANGED <<waiting, fds, users, listenIn, texts, dangling>>

(* fds without the entry that leaves.  Mutant: the last one is not moved.   *)
PackedNot(k) == SubSeq(fds, 1, Len(fds) - 1)
Packed(k) == SubSeq([fds EXCEPT ![k] = fds[Len(fds)]], 1, Len(fds) - 1)

(* The one that leaves gets a copy of the last user's data.                 *)
Remove ==
    LET fd == Entry.fd
        last == fds[Len(fds)].fd
    IN  /\ sock' = [sock EXCEPT ![fd] = ClosedSock]
        /\ users' = [users EXCEPT ![fd] = users[last]]
        /\ fds' = Packed(i)
        /\ i' = Following(i, Len(fds) - 1)
        /\ dangling' = (dangling \cup {u \in FDs : users[u].write_buf = fd}) \ {fd}
        /\ UNCHANGED <<waiting, listenIn, texts>>

PollRdhup == AtEntry /\ "err" \notin Entry.revents /\ "rdhup" \in Entry.revents /\ Remove

(* Who writes next after a text of user fd.  Mutant: the sender, too.       *)
RecipientsAll(fd) == {fds[k].fd : k \in DOMAIN fds}
Recipients(fd) == {fds[k].fd : k \in DOMAIN fds} \ {fd}

PollIn ==
    /\ AtEntry /\ Entry.revents \cap {"err", "rdhup"} = {} /\ "in" \in Entry.revents
    /\ LET fd == Entry.fd
           to == Recipients(fd)
       IN  IF sock[fd].unread = 0 THEN Remove    \* recv returns 0
           ELSE /\ sock' = [sock EXCEPT ![fd].unread = @ - 1]
                /\ users' = [u \in FDs |->
                      [write_buf |-> IF u \in to THEN fd ELSE users[u].write_buf,
                       buf |-> IF u = fd THEN fd ELSE users[u].buf]]
                /\ fds' = [k \in DOMAIN fds |->
                      IF fds[k].fd \in to THEN [fds[k] EXCEPT !.events = "out"] ELSE fds[k]]
                /\ dangling' = dangling \ to
                /\ i' = Following(i + 1, Len(fds))
                /\ UNCHANGED <<waiting, listenIn, texts>>

DoneWriting(e) == [e EXCEPT !.events = "in"]

Sends == AtEntry /\ Entry.revents = {"out"} /\ users[Entry.fd].write_buf # NULL
PollOut ==
    /\ Sends
    /\ users' = [users EXCEPT ![Entry.fd].write_buf = NULL]
    /\ fds' = [fds EXCEPT ![i] = DoneWriting(@)]
    /\ dangling' = dangling \ {Entry.fd}
    /\ i' = Following(i + 1, Len(fds))
    /\ UNCHANGED <<sock, waiting, listenIn, texts>>

(* No event of this entry, or nothing to send.                              *)
Skip ==
    /\ AtEntry
    /\ \/ Entry.revents = {}
       \/ Entry.revents = {"out"} /\ users[Entry.fd].write_buf = NULL
    /\ i' = Following(i + 1, Len(fds))
    /\ UNCHANGED <<sock, waiting, fds, users, listenIn, texts, dangling>>

PollNext ==
    \/ Poll \/ NoAccept \/ Refuse \/ PollErr \/ PollRdhup \/ PollIn \/ PollOut \/ Skip
    \/ UserConnect
    \/ \E fd \in FDs : Accept(fd) \/ UserText(fd) \/ UserLeaves(fd)
-----------------------------------------------------------------------------
(* The packed array and the array by descriptor agree while users come, go  *)
(* and change places (114-119, 130-136, 152-156): the entries are the open  *)
(* descriptors, each once, and a user who is switched to writing has a text *)
(* to send, or he would never be read again (167-171).                      *)
TableMatches ==
    /\ {fds[k].fd : k \in DOMAIN fds} = {fd \in FDs : sock[fd].open}
    /\ \A k, l \in DOMAIN fds : fds[k].fd = fds[l].fd => k = l
    /\ \A k \in DOMAIN fds : fds[k].events = "out" => users[fds[k].fd].write_buf # NULL
    /\ Len(fds) <= USER_LIMIT

(* What a user is sent is the text of the user he points to, and that is    *)
(* somebody else (158-165, 172), unless that user has left: then the copy   *)
(* that Remove makes is another user's text, or his own.                    *)
SendsOthersText ==
    PollOut /\ Entry.fd \notin dangling =>
        LET from == users[Entry.fd].write_buf
        IN  from # Entry.fd /\ users[from].buf = from
SendsTheirText == [][SendsOthersText]_pollVars
=============================================================================
