--------------------------- MODULE EventLoopProofs ---------------------------
(***************************************************************************)
(* Proofs about the servers that are loops over events, each in a part of  *)
(* its own: PollServer, EpollLoops, and the parents of ProcessPool and     *)
(* PoolCgi, for any number of descriptors, users, texts, pieces, children, *)
(* connections and signals.                                                *)
(***************************************************************************)
EXTENDS MCSockets, PoolCgi, TLAPS
-----------------------------------------------------------------------------
(* PollServer                                                               *)


PollSpec == PollInit /\ [][PollNext]_pollVars

Socket == [open : BOOLEAN, unread : Nat, rdhup : BOOLEAN, err : BOOLEAN]
FdEntry == [fd : FDs, events : {"in", "out"},
            revents : SUBSET {"in", "out", "rdhup", "err"}]
User == [write_buf : FDs \cup {NULL}, buf : FDs \cup {NULL}]

PollTypeOK ==
    /\ sock \in [FDs -> Socket] /\ fds \in Seq(FdEntry) /\ users \in [FDs -> User]
    /\ i \in -1 .. Len(fds)

(* TableMatches with its equation of sets taken apart.                      *)
Listed(s, t) == \A k \in DOMAIN t : s[t[k].fd].open
OpenListed(s, t) == \A fd \in FDs : s[fd].open => \E k \in DOMAIN t : t[k].fd = fd
Once(t) == \A k, l \in DOMAIN t : t[k].fd = t[l].fd => k = l
WritersHaveText(t, us) == \A k \in DOMAIN t : t[k].events = "out" => us[t[k].fd].write_buf # NULL

(* An entry that is still to be looked at in this pass and is reported to   *)
(* be writable is switched to writing.                                      *)
ResultsFit == i >= 0 => \A k \in DOMAIN fds : k >= i /\ "out" \in fds[k].revents => fds[k].events = "out"

(* A user who is switched to writing points to another user, who is still   *)
(* there and has his own text in his buffer.                                *)
PointsToText ==
    \A k \in DOMAIN fds : fds[k].events = "out" /\ fds[k].fd \notin dangling =>
        LET from == users[fds[k].fd].write_buf
        IN  /\ from \in FDs /\ from # fds[k].fd
            /\ sock[from].open /\ users[from].buf = from

TableInv ==
    /\ PollTypeOK /\ Listed(sock, fds) /\ OpenListed(sock, fds) /\ Once(fds)
    /\ WritersHaveText(fds, users) /\ Len(fds) <= USER_LIMIT
PInv == TableInv /\ ResultsFit /\ PointsToText

LEMMA Entries ==
  ASSUME PollTypeOK, NEW k \in DOMAIN fds
  PROVE  /\ fds[k] \in FdEntry /\ fds[k].fd \in FDs /\ fds[k].events \in {"in", "out"}
         /\ k \in 1 .. Len(fds) /\ DOMAIN fds = 1 .. Len(fds) /\ Len(fds) \in Nat
<1>1. fds \in Seq(FdEntry)
  BY DEF PollTypeOK
<1>2. fds[k] \in FdEntry /\ DOMAIN fds = 1 .. Len(fds) /\ Len(fds) \in Nat
  BY <1>1
<1> QED
  BY <1>2 DEF FdEntry

LEMMA TableInvMatches == TableInv => TableMatches
<1> SUFFICES ASSUME TableInv PROVE TableMatches
  OBVIOUS
<1>1. \A k \in DOMAIN fds : fds[k].fd \in FDs
  BY Entries DEF TableInv
<1>2. {fds[k].fd : k \in DOMAIN fds} = {fd \in FDs : sock[fd].open}
  BY <1>1 DEF TableInv, Listed, OpenListed
<1> QED
  BY <1>2 DEF TableInv, TableMatches, Once, WritersHaveText

(* What Packed returns: the last entry at place k, the others as they were. *)
LEMMA PackedIs ==
  ASSUME fds \in Seq(FdEntry), NEW k \in DOMAIN fds
  PROVE  /\ Packed(k) \in Seq(FdEntry) /\ Len(Packed(k)) = Len(fds) - 1
         /\ DOMAIN Packed(k) = 1 .. Len(fds) - 1
         /\ \A j \in DOMAIN Packed(k) :
               Packed(k)[j] = IF j = k THEN fds[Len(fds)] ELSE fds[j]
<1> DEFINE s == [fds EXCEPT ![k] = fds[Len(fds)]]
<1>1. DOMAIN fds = 1 .. Len(fds) /\ Len(fds) \in Nat /\ Len(fds) >= 1
  OBVIOUS
<1>2. s \in Seq(FdEntry) /\ Len(s) = Len(fds)
  BY <1>1
<1>3. \A j \in 1 .. Len(fds) : s[j] = IF j = k THEN fds[Len(fds)] ELSE fds[j]
  BY <1>1
<1> HIDE DEF s
<1>4. /\ SubSeq(s, 1, Len(fds) - 1) \in Seq(FdEntry)
      /\ Len(SubSeq(s, 1, Len(fds) - 1)) = Len(fds) - 1
      /\ \A j \in 1 .. Len(fds) - 1 : SubSeq(s, 1, Len(fds) - 1)[j] = s[j]
  BY <1>1, <1>2
<1>5. Packed(k) = SubSeq(s, 1, Len(fds) - 1)
  BY DEF Packed, s
<1> QED
  BY <1>1, <1>3, <1>4, <1>5
-----------------------------------------------------------------------------
(* Steps that leave the arrays and the open descriptors as they are.        *)
LEMMA ArraysKept ==
  ASSUME PInv, UNCHANGED <<fds, users, dangling>>, sock' \in [FDs -> Socket],
         \A fd \in FDs : sock'[fd].open = sock[fd].open,
         i' \in -1 .. Len(fds), (i >= 0 /\ i' >= i) \/ i' = -1
  PROVE  PInv'
<1>1. PollTypeOK'
  BY DEF PInv, TableInv, PollTypeOK
<1>2. \A k \in DOMAIN fds : fds[k].fd \in FDs /\ DOMAIN fds = 1 .. Len(fds)
  BY Entries DEF PInv, TableInv
<1>3. Listed(sock, fds)' /\ OpenListed(sock, fds)'
  BY <1>2 DEF PInv, TableInv, Listed, OpenListed
<1>4. Once(fds)' /\ WritersHaveText(fds, users)' /\ Len(fds') <= USER_LIMIT
  BY DEF PInv, TableInv, Once, WritersHaveText
<1>5. ResultsFit'
  BY <1>2 DEF PInv, TableInv, PollTypeOK, ResultsFit
<1>6. PointsToText'
  BY DEF PInv, PointsToText
<1> QED
  BY <1>1, <1>3, <1>4, <1>5, <1>6 DEF PInv, TableInv

LEMMA KeepingStep ==
  ASSUME PInv,
         \/ NoAccept \/ Refuse \/ PollErr \/ Skip \/ UserConnect
         \/ \E fd \in FDs : UserText(fd) \/ UserLeaves(fd)
         \/ UNCHANGED pollVars
  PROVE  PInv'
<1>1. /\ sock \in [FDs -> Socket] /\ i \in -1 .. Len(fds) /\ Len(fds) \in Nat
      /\ i > 0 => fds[i].fd \in FDs
  <2>1. i > 0 => i \in DOMAIN fds
    BY DEF PInv, TableInv, PollTypeOK
  <2> QED
    BY <2>1, Entries DEF PInv, TableInv, PollTypeOK
<1>2. UNCHANGED <<fds, users, dangling>>
  BY DEF NoAccept, Refuse, PollErr, Skip, UserConnect, UserText, UserLeaves, pollVars
<1>3. i' \in -1 .. Len(fds) /\ ((i >= 0 /\ i' >= i) \/ i' = -1)
  <2>1. CASE i' = i
    BY <1>1, <2>1
  <2>2. CASE i = 0 /\ i' = Following(1, Len(fds))
    BY <1>1, <2>2 DEF Following
  <2>3. CASE i > 0 /\ i' = Following(i + 1, Len(fds))
    BY <1>1, <2>3 DEF Following
  <2> QED
    BY <2>1, <2>2, <2>3
    DEF NoAccept, Refuse, PollErr, Skip, UserConnect, UserText, UserLeaves, pollVars, AtEntry
<1>4. ASSUME NEW fd \in FDs, NEW s \in Socket, sock' = [sock EXCEPT ![fd] = s],
             s.open = sock[fd].open
      PROVE  sock' \in [FDs -> Socket] /\ \A f \in FDs : sock'[f].open = sock[f].open
  BY <1>1, <1>4
<1>5. CASE UNCHANGED sock
  BY <1>1, <1>2, <1>3, <1>5, ArraysKept
<1>6. ASSUME NEW fd \in FDs, UserText(fd) PROVE PInv'
  <2>1. sock[fd] \in Socket /\ sock[fd].unread + 1 \in Nat
    BY <1>1 DEF Socket
  <2>2. [sock[fd] EXCEPT !.unread = @ + 1] \in Socket
    BY <2>1 DEF Socket
  <2>3. sock' = [sock EXCEPT ![fd] = [sock[fd] EXCEPT !.unread = @ + 1]]
    BY <1>1, <1>6 DEF UserText
  <2> QED
    BY <1>2, <1>3, <1>4, <2>1, <2>2, <2>3, ArraysKept DEF Socket
<1>7. ASSUME NEW fd \in FDs, UserLeaves(fd) PROVE PInv'
  <2>1. PICK err \in BOOLEAN : sock' = [sock EXCEPT ![fd].rdhup = TRUE, ![fd].err = err]
    BY <1>7 DEF UserLeaves
  <2>2. sock[fd] \in Socket /\ [sock[fd] EXCEPT !.rdhup = TRUE, !.err = err] \in Socket
    BY <1>1 DEF Socket
  <2>3. sock' = [sock EXCEPT ![fd] = [sock[fd] EXCEPT !.rdhup = TRUE, !.err = err]]
    BY <1>1, <2>1
  <2> QED
    BY <1>2, <1>3, <1>4, <2>2, <2>3, ArraysKept DEF Socket
<1>8. CASE PollErr
  <2>1. fds[i].fd \in FDs
    BY <1>1, <1>8 DEF PollErr, AtEntry
  <2>2. sock[fds[i].fd] \in Socket /\ [sock[fds[i].fd] EXCEPT !.err = FALSE] \in Socket
    BY <1>1, <2>1 DEF Socket
  <2>3. sock' = [sock EXCEPT ![fds[i].fd] = [sock[fds[i].fd] EXCEPT !.err = FALSE]]
    BY <1>1, <1>8 DEF PollErr, Entry
  <2> QED
    BY <1>2, <1>3, <1>4, <2>1, <2>2, <2>3, ArraysKept DEF Socket
<1> QED
  BY <1>5, <1>6, <1>7, <1>8 DEF NoAccept, Refuse, Skip, UserConnect, pollVars

(* poll gives every entry its results.                                      *)
LEMMA PollStep ==
  ASSUME PInv, Poll
  PROVE  PInv'
<1>1. PICK r \in [DOMAIN fds -> SUBSET {"in", "out", "rdhup", "err"}] :
         /\ \A k \in DOMAIN fds : r[k] \in Results(fds[k])
         /\ fds' = [k \in DOMAIN fds |-> [fds[k] EXCEPT !.revents = r[k]]]
  BY DEF Poll
<1>2. UNCHANGED <<sock, users, dangling>> /\ i' = 0
  BY DEF Poll
<1>3. DOMAIN fds = 1 .. Len(fds) /\ Len(fds) \in Nat
  BY DEF PInv, TableInv, PollTypeOK
<1>4. ASSUME NEW k \in DOMAIN fds
      PROVE  /\ fds'[k] \in FdEntry /\ fds'[k].fd = fds[k].fd
             /\ fds'[k].events = fds[k].events
             /\ "out" \in fds'[k].revents => fds'[k].events = "out"
  <2>1. fds[k] \in FdEntry
    BY Entries DEF PInv, TableInv
  <2>2. fds'[k] = [fds[k] EXCEPT !.revents = r[k]]
    BY <1>1
  <2>3. fds'[k].revents = r[k] /\ fds'[k].fd = fds[k].fd /\ fds'[k].events = fds[k].events
    BY <2>1, <2>2 DEF FdEntry
  <2>4. fds'[k] \in FdEntry
    BY <1>1, <2>1, <2>2 DEF FdEntry
  <2>5. fds[k].events = "in" => "out" \notin r[k]
    BY <1>1 DEF Results
  <2> QED
    BY <2>1, <2>3, <2>4, <2>5 DEF FdEntry
<1>5. fds' \in Seq(FdEntry) /\ DOMAIN fds' = DOMAIN fds /\ Len(fds') = Len(fds)
  <2>1. fds' \in [1 .. Len(fds) -> FdEntry]
    BY <1>1, <1>3, <1>4
  <2> QED
    BY <1>3, <2>1
<1>6. PollTypeOK'
  BY <1>2, <1>3, <1>5 DEF PInv, TableInv, PollTypeOK
<1>7. Listed(sock, fds)' /\ OpenListed(sock, fds)'
  BY <1>2, <1>4, <1>5 DEF PInv, TableInv, Listed, OpenListed
<1>8. Once(fds)' /\ WritersHaveText(fds, users)' /\ Len(fds') <= USER_LIMIT
  BY <1>2, <1>4, <1>5 DEF PInv, TableInv, Once, WritersHaveText
<1>9. ResultsFit'
  BY <1>4, <1>5 DEF ResultsFit
<1>10. PointsToText'
  BY <1>2, <1>4, <1>5 DEF PInv, PointsToText
<1> QED
  BY <1>6, <1>7, <1>8, <1>9, <1>10 DEF PInv, TableInv

(* A new user: his entry is the last one, and nobody's text is his.         *)
LEMMA AcceptStep ==
  ASSUME PollAssumption, PInv, NEW fd \in FDs, Accept(fd)
  PROVE  PInv'
<1> DEFINE e == [fd |-> fd, events |-> "in", revents |-> {}]
           n == Len(fds)
<1>1. /\ fds \in Seq(FdEntry) /\ DOMAIN fds = 1 .. n /\ n \in Nat
      /\ sock \in [FDs -> Socket] /\ users \in [FDs -> User] /\ ~sock[fd].open
      /\ USER_LIMIT \in Nat /\ n < USER_LIMIT
  BY DEF PInv, TableInv, PollTypeOK, Accept, PollAssumption
<1>2. /\ sock' = [sock EXCEPT ![fd] = [ClosedSock EXCEPT !.open = TRUE]]
      /\ fds' = Append(fds, e)
      /\ users' = [u \in FDs |-> [users[u] EXCEPT !.buf = IF @ = fd THEN NULL ELSE @]]
      /\ i = 0 /\ i' = 1 /\ dangling' = dangling
  BY DEF Accept
<1>3. e \in FdEntry
  BY DEF FdEntry
<1> HIDE DEF e
<1>4. /\ fds' \in Seq(FdEntry) /\ Len(fds') = n + 1 /\ DOMAIN fds' = 1 .. n + 1
      /\ fds'[n + 1] = e /\ \A k \in 1 .. n : fds'[k] = fds[k]
  BY <1>1, <1>2, <1>3
<1>5. /\ sock' \in [FDs -> Socket] /\ sock'[fd].open
      /\ \A f \in FDs : f # fd => sock'[f] = sock[f]
  <2>1. [ClosedSock EXCEPT !.open = TRUE] \in Socket /\ [ClosedSock EXCEPT !.open = TRUE].open
    BY DEF ClosedSock, Socket
  <2> QED
    BY <1>1, <1>2, <2>1
<1>6. ASSUME NEW u \in FDs
      PROVE  /\ users'[u] \in User /\ users'[u].write_buf = users[u].write_buf
             /\ users'[u].buf = IF users[u].buf = fd THEN NULL ELSE users[u].buf
  <2>1. users[u] \in User
    BY <1>1
  <2>2. users'[u] = [users[u] EXCEPT !.buf = IF @ = fd THEN NULL ELSE @]
    BY <1>2
  <2> QED
    BY <2>1, <2>2 DEF User
<1>7. PollTypeOK'
  <2>1. users' \in [FDs -> User]
    BY <1>2, <1>6
  <2> QED
    BY <1>1, <1>2, <1>4, <1>5, <2>1 DEF PollTypeOK
<1>8. \A k \in 1 .. n : fds[k].fd \in FDs \ {fd}
  BY <1>1, Entries DEF PInv, TableInv, Listed
<1>9. e.fd = fd /\ e.events = "in" /\ e.revents = {}
  BY DEF e
<1>10. \A k \in DOMAIN fds' : k = n + 1 \/ k \in 1 .. n
  BY <1>1, <1>4
<1>11. Listed(sock, fds)'
  BY <1>1, <1>4, <1>5, <1>8, <1>9, <1>10 DEF PInv, TableInv, Listed
<1>12. OpenListed(sock, fds)'
  <2>1. ASSUME NEW f \in FDs, sock'[f].open PROVE \E k \in DOMAIN fds' : fds'[k].fd = f
    <3>1. CASE f = fd
      BY <1>1, <1>4, <1>9, <3>1
    <3>2. CASE f # fd
      <4>1. PICK k \in DOMAIN fds : fds[k].fd = f
        BY <1>5, <2>1, <3>2 DEF PInv, TableInv, OpenListed
      <4> QED
        BY <1>1, <1>4, <4>1
    <3> QED
      BY <3>1, <3>2
  <2> QED
    BY <2>1 DEF OpenListed
<1>13. Once(fds)'
  BY <1>1, <1>4, <1>8, <1>9, <1>10 DEF PInv, TableInv, Once
<1>14. WritersHaveText(fds, users)' /\ Len(fds') <= USER_LIMIT
  BY <1>1, <1>4, <1>6, <1>8, <1>9, <1>10 DEF PInv, TableInv, WritersHaveText
<1>15. ResultsFit'
  BY <1>1, <1>2, <1>4, <1>9, <1>10 DEF PInv, ResultsFit
<1>16. PointsToText'
  <2>1. ASSUME NEW k \in DOMAIN fds', fds'[k].events = "out", fds'[k].fd \notin dangling'
        PROVE  LET from == users'[fds'[k].fd].write_buf
               IN  /\ from \in FDs /\ from # fds'[k].fd
                   /\ sock'[from].open /\ users'[from].buf = from
    <3> DEFINE from == users[fds[k].fd].write_buf
    <3>1. k \in 1 .. n /\ fds'[k] = fds[k]
      BY <1>4, <1>9, <1>10, <2>1
    <3>2. from \in FDs /\ from # fds[k].fd /\ sock[from].open /\ users[from].buf = from
      BY <1>1, <1>2, <2>1, <3>1 DEF PInv, PointsToText
    <3>3. from # fd /\ users'[fds[k].fd].write_buf = from
      BY <1>1, <1>6, <1>8, <3>1, <3>2
    <3> QED
      BY <1>5, <1>6, <3>1, <3>2, <3>3
  <2> QED
    BY <2>1 DEF PointsToText
<1> QED
  BY <1>7, <1>11, <1>12, <1>13, <1>14, <1>15, <1>16 DEF PInv, TableInv

(* A user leaves: the last entry, with its results, takes the place of his, *)
(* which the pass has not gone beyond.                                      *)
LEMMA RemoveStep ==
  ASSUME PollAssumption, PInv, AtEntry, Remove
  PROVE  PInv'
<1> DEFINE n == Len(fds)
           fd == fds[i].fd
           last == fds[n].fd
<1>1. /\ fds \in Seq(FdEntry) /\ DOMAIN fds = 1 .. n /\ n \in Nat /\ i \in 1 .. n
      /\ sock \in [FDs -> Socket] /\ users \in [FDs -> User]
  BY DEF PInv, TableInv, PollTypeOK, AtEntry
<1>2. i \in DOMAIN fds /\ n \in DOMAIN fds
  BY <1>1
<1>3. \A k \in 1 .. n : fds[k] \in FdEntry /\ fds[k].fd \in FDs
  BY <1>1, Entries DEF PInv, TableInv
<1>4. fd \in FDs /\ last \in FDs
  BY <1>2, Entries DEF PInv, TableInv
<1>5. /\ sock' = [sock EXCEPT ![fd] = ClosedSock] /\ users' = [users EXCEPT ![fd] = users[last]]
      /\ fds' = Packed(i) /\ i' = Following(i, n - 1)
      /\ dangling' = (dangling \cup {u \in FDs : users[u].write_buf = fd}) \ {fd}
  BY DEF Remove, Entry
<1>6. /\ fds' \in Seq(FdEntry) /\ Len(fds') = n - 1 /\ DOMAIN fds' = 1 .. n - 1
      /\ \A k \in 1 .. n - 1 : fds'[k] = IF k = i THEN fds[n] ELSE fds[k]
  BY <1>1, <1>2, <1>5, PackedIs
<1> DEFINE was(k) == IF k = i THEN n ELSE k
<1>0. n \in Nat /\ i \in 1 .. n
  BY <1>1
<1>7. \A k \in 1 .. n - 1 : was(k) \in 1 .. n /\ was(k) # i /\ fds'[k] = fds[was(k)]
  <2> SUFFICES ASSUME NEW k \in 1 .. n - 1
               PROVE  was(k) \in 1 .. n /\ was(k) # i /\ fds'[k] = fds[was(k)]
    OBVIOUS
  <2>1. CASE k = i
    BY <1>0, <1>6, <2>1
  <2>2. CASE k # i
    BY <1>0, <1>6, <2>2
  <2> QED
    BY <2>1, <2>2
<1>8. \A k, l \in 1 .. n - 1 : was(k) = was(l) => k = l
  BY <1>1
<1>9. \A k \in 1 .. n : k # i => \E l \in 1 .. n - 1 : was(l) = k
  <2>1. ASSUME NEW k \in 1 .. n, k # i PROVE \E l \in 1 .. n - 1 : was(l) = k
    <3>1. CASE k = n
      <4>1. i \in 1 .. n - 1 /\ was(i) = k
        BY <1>0, <2>1, <3>1
      <4> QED
        BY <4>1
    <3>2. CASE k # n
      <4>1. k \in 1 .. n - 1 /\ was(k) = k
        BY <1>0, <2>1, <3>2
      <4> QED
        BY <4>1
    <3> QED
      BY <3>1, <3>2
  <2> QED
    BY <2>1
<1>10. \A k \in 1 .. n - 1 : was(k) >= k
  BY <1>1
<1> HIDE DEF was
<1>11. \A k \in 1 .. n : k # i => fds[k].fd # fd
  BY <1>1, <1>2 DEF PInv, TableInv, Once
<1>12. /\ sock' \in [FDs -> Socket] /\ sock'[fd].open = FALSE
       /\ \A f \in FDs : f # fd => sock'[f] = sock[f]
  <2>1. ClosedSock \in Socket /\ ClosedSock.open = FALSE
    BY DEF ClosedSock, Socket
  <2> QED
    BY <1>1, <1>4, <1>5, <2>1
<1>13. users' \in [FDs -> User] /\ \A u \in FDs : u # fd => users'[u] = users[u]
  <2>1. users[last] \in User
    BY <1>1, <1>4
  <2> QED
    BY <1>1, <1>4, <1>5, <2>1
<1>14. PollTypeOK'
  BY <1>1, <1>5, <1>6, <1>12, <1>13 DEF PollTypeOK, Following
<1>15. \A k \in 1 .. n - 1 : fds'[k].fd \in FDs /\ fds'[k].fd # fd
  BY <1>3, <1>7, <1>11
<1>16. Listed(sock, fds)'
  BY <1>1, <1>6, <1>7, <1>12, <1>15 DEF PInv, TableInv, Listed
<1>17. OpenListed(sock, fds)'
  <2>1. ASSUME NEW f \in FDs, sock'[f].open PROVE \E k \in DOMAIN fds' : fds'[k].fd = f
    <3>1. f # fd /\ sock[f].open
      BY <1>12, <2>1
    <3>2. PICK k \in DOMAIN fds : fds[k].fd = f
      BY <3>1 DEF PInv, TableInv, OpenListed
    <3>3. PICK l \in 1 .. n - 1 : was(l) = k
      BY <1>1, <1>9, <3>1, <3>2
    <3> QED
      BY <1>6, <1>7, <3>2, <3>3
  <2> QED
    BY <2>1 DEF OpenListed
<1>18. Once(fds)'
  <2>1. ASSUME NEW k \in DOMAIN fds', NEW l \in DOMAIN fds', fds'[k].fd = fds'[l].fd
        PROVE  k = l
    <3>1. was(k) = was(l)
      BY <1>1, <1>6, <1>7, <2>1, SMTT(60) DEF PInv, TableInv, Once
    <3> QED
      BY <1>6, <1>8, <3>1
  <2> QED
    BY <2>1 DEF Once
<1>19. WritersHaveText(fds, users)'
  BY <1>1, <1>6, <1>7, <1>13, <1>15 DEF PInv, TableInv, WritersHaveText
<1>20. Len(fds') <= USER_LIMIT
  BY <1>1, <1>6 DEF PInv, TableInv, PollAssumption
<1>21. ResultsFit'
  <2>1. ASSUME i' >= 0, NEW k \in DOMAIN fds', k >= i', "out" \in fds'[k].revents
        PROVE  fds'[k].events = "out"
    <3>1. i' = i
      BY <1>1, <1>5, <2>1 DEF Following
    <3>2. was(k) \in DOMAIN fds /\ was(k) >= i /\ fds'[k] = fds[was(k)]
      BY <1>1, <1>6, <1>7, <1>10, <2>1, <3>1
    <3> QED
      BY <1>1, <2>1, <3>2 DEF PInv, ResultsFit
  <2> QED
    BY <2>1 DEF ResultsFit
<1>22. PointsToText'
  <2>1. ASSUME NEW k \in DOMAIN fds', fds'[k].events = "out", fds'[k].fd \notin dangling'
        PROVE  LET from == users'[fds'[k].fd].write_buf
               IN  /\ from \in FDs /\ from # fds'[k].fd
                   /\ sock'[from].open /\ users'[from].buf = from
    <3> DEFINE u == fds'[k].fd
               from == users[u].write_buf
    <3>1. u \in FDs /\ u # fd /\ u = fds[was(k)].fd /\ was(k) \in DOMAIN fds
      BY <1>1, <1>6, <1>7, <1>15
    <3>2. u \notin dangling /\ from # fd
      BY <1>5, <2>1, <3>1
    <3>3. from \in FDs /\ from # u /\ sock[from].open /\ users[from].buf = from
      BY <1>6, <1>7, <2>1, <3>1, <3>2 DEF PInv, PointsToText
    <3> QED
      BY <1>12, <1>13, <3>1, <3>2, <3>3
  <2> QED
    BY <2>1 DEF PointsToText
<1> QED
  BY <1>14, <1>16, <1>17, <1>18, <1>19, <1>20, <1>21, <1>22 DEF PInv, TableInv

(* A text arrives: the others are switched to writing it.                   *)
LEMMA TextStep ==
  ASSUME PollAssumption, PInv, PollIn, ~Remove
  PROVE  PInv'
<1> DEFINE n == Len(fds)
           fd == fds[i].fd
           to == Recipients(fd)
<1>1. /\ fds \in Seq(FdEntry) /\ DOMAIN fds = 1 .. n /\ n \in Nat /\ i \in 1 .. n
      /\ sock \in [FDs -> Socket] /\ users \in [FDs -> User]
  BY DEF PInv, TableInv, PollTypeOK, AtEntry, PollIn
<1>2. fd \in FDs /\ sock[fd].open
  <2>1. i \in DOMAIN fds
    BY <1>1
  <2> QED
    BY <2>1, Entries DEF PInv, TableInv, Listed
<1>3. /\ sock[fd].unread # 0
      /\ sock' = [sock EXCEPT ![fd].unread = @ - 1]
      /\ users' = [u \in FDs |-> [write_buf |-> IF u \in to THEN fd ELSE users[u].write_buf,
                                  buf |-> IF u = fd THEN fd ELSE users[u].buf]]
      /\ fds' = [k \in DOMAIN fds |->
                   IF fds[k].fd \in to THEN [fds[k] EXCEPT !.events = "out"] ELSE fds[k]]
      /\ dangling' = dangling \ to
      /\ i' = Following(i + 1, n)
  BY DEF PollIn, Entry
<1>4. fd \notin to /\ \A k \in DOMAIN fds : fds[k].fd # fd => fds[k].fd \in to
  BY DEF Recipients
<1> HIDE DEF to
<1>5. /\ sock' \in [FDs -> Socket] /\ \A f \in FDs : sock'[f].open = sock[f].open
  <2>1. sock[fd] \in Socket /\ sock[fd].unread - 1 \in Nat
    BY <1>1, <1>2, <1>3 DEF Socket
  <2>2. [sock[fd] EXCEPT !.unread = @ - 1] \in Socket
    BY <2>1 DEF Socket
  <2>3. sock' = [sock EXCEPT ![fd] = [sock[fd] EXCEPT !.unread = @ - 1]]
    BY <1>1, <1>2, <1>3
  <2> QED
    BY <1>1, <1>2, <2>1, <2>2, <2>3 DEF Socket
<1>6. users' \in [FDs -> User]
  <2>1. \A u \in FDs : users[u] \in User
    BY <1>1
  <2> QED
    BY <1>2, <1>3, <2>1 DEF User
<1>7. \A u \in FDs : /\ users'[u].write_buf = IF u \in to THEN fd ELSE users[u].write_buf
                     /\ users'[u].buf = IF u = fd THEN fd ELSE users[u].buf
  BY <1>3
<1>8. ASSUME NEW k \in DOMAIN fds
      PROVE  /\ fds'[k] \in FdEntry /\ fds'[k].fd = fds[k].fd /\ fds[k].fd \in FDs
             /\ fds'[k].revents = fds[k].revents
             /\ fds'[k].events = IF fds[k].fd \in to THEN "out" ELSE fds[k].events
  <2>1. fds[k] \in FdEntry /\ fds[k].fd \in FDs
    BY Entries DEF PInv, TableInv
  <2>2. CASE fds[k].fd \in to
    <3>1. fds'[k] = [fds[k] EXCEPT !.events = "out"]
      BY <1>3, <2>2
    <3> QED
      BY <2>1, <2>2, <3>1 DEF FdEntry
  <2>3. CASE fds[k].fd \notin to
    <3>1. fds'[k] = fds[k]
      BY <1>3, <2>3
    <3> QED
      BY <2>1, <2>3, <3>1
  <2> QED
    BY <2>2, <2>3
<1>9. fds' \in Seq(FdEntry) /\ DOMAIN fds' = DOMAIN fds /\ Len(fds') = n
  <2>1. fds' \in [1 .. n -> FdEntry]
    BY <1>1, <1>3, <1>8
  <2> QED
    BY <1>1, <2>1
<1>10. PollTypeOK'
  BY <1>1, <1>3, <1>5, <1>6, <1>9 DEF PollTypeOK, Following
<1>11. Listed(sock, fds)' /\ OpenListed(sock, fds)'
  BY <1>5, <1>8, <1>9 DEF PInv, TableInv, Listed, OpenListed
<1>12. Once(fds)' /\ Len(fds') <= USER_LIMIT
  BY <1>8, <1>9 DEF PInv, TableInv, Once
<1>13. WritersHaveText(fds, users)'
  BY <1>2, <1>7, <1>8, <1>9 DEF PInv, TableInv, WritersHaveText, PollAssumption
<1>14. ResultsFit'
  <2>1. i' >= 0 => i' >= i
    BY <1>1, <1>3 DEF Following
  <2>2. i' \in Int /\ \A k \in DOMAIN fds : k \in Int
    BY <1>1, <1>10 DEF PollTypeOK
  <2>3. ASSUME i' >= 0, NEW k \in DOMAIN fds', k >= i', "out" \in fds'[k].revents
        PROVE  fds'[k].events = "out"
    <3>1. k \in DOMAIN fds /\ k >= i /\ i >= 0
      BY <1>1, <1>9, <2>1, <2>2, <2>3
    <3> QED
      BY <1>8, <2>3, <3>1 DEF PInv, ResultsFit
  <2> QED
    BY <2>3 DEF ResultsFit
<1>15. PointsToText'
  <2>1. ASSUME NEW k \in DOMAIN fds', fds'[k].events = "out", fds'[k].fd \notin dangling'
        PROVE  LET from == users'[fds'[k].fd].write_buf
               IN  /\ from \in FDs /\ from # fds'[k].fd
                   /\ sock'[from].open /\ users'[from].buf = from
    <3> DEFINE u == fds[k].fd
    <3>1. k \in DOMAIN fds /\ u \in FDs /\ fds'[k].fd = u
      BY <1>8, <1>9
    <3>2. CASE u \in to
      BY <1>2, <1>4, <1>5, <1>7, <3>1, <3>2
    <3>3. CASE u \notin to
      <4>1. fds[k].events = "out" /\ u \notin dangling
        BY <1>3, <1>8, <2>1, <3>1, <3>3
      <4>2. LET from == users[u].write_buf
            IN  from \in FDs /\ from # u /\ sock[from].open /\ users[from].buf = from
        BY <3>1, <4>1 DEF PInv, PointsToText
      <4> QED
        BY <1>5, <1>7, <3>1, <3>3, <4>2
    <3> QED
      BY <3>2, <3>3
  <2> QED
    BY <2>1 DEF PointsToText
<1> QED
  BY <1>10, <1>11, <1>12, <1>13, <1>14, <1>15 DEF PInv, TableInv

(* A user has sent the text and is read again.                              *)
LEMMA SentStep ==
  ASSUME PInv, PollOut
  PROVE  PInv'
<1> DEFINE n == Len(fds)
           fd == fds[i].fd
<1>1. /\ fds \in Seq(FdEntry) /\ DOMAIN fds = 1 .. n /\ n \in Nat /\ i \in 1 .. n
      /\ sock \in [FDs -> Socket] /\ users \in [FDs -> User]
  BY DEF PInv, TableInv, PollTypeOK, AtEntry, PollOut, Sends
<1>2. i \in DOMAIN fds /\ fds[i] \in FdEntry /\ fd \in FDs
  <2>1. i \in DOMAIN fds
    BY <1>1
  <2> QED
    BY <2>1, Entries DEF PInv, TableInv
<1>3. /\ users' = [users EXCEPT ![fd].write_buf = NULL]
      /\ fds' = [fds EXCEPT ![i] = [fds[i] EXCEPT !.events = "in"]]
      /\ dangling' = dangling \ {fd}
      /\ i' = Following(i + 1, n) /\ UNCHANGED sock
  BY DEF PollOut, Entry, DoneWriting
<1>4. [fds[i] EXCEPT !.events = "in"] \in FdEntry
  BY <1>2 DEF FdEntry
<1>5. /\ fds' \in Seq(FdEntry) /\ DOMAIN fds' = DOMAIN fds /\ Len(fds') = n
      /\ fds'[i].events = "in" /\ fds'[i].fd = fd
      /\ \A k \in DOMAIN fds : k # i => fds'[k] = fds[k]
  <2>1. fds'[i] = [fds[i] EXCEPT !.events = "in"]
    BY <1>1, <1>2, <1>3
  <2>2. fds'[i].events = "in" /\ fds'[i].fd = fd
    BY <1>2, <2>1 DEF FdEntry
  <2>3. fds' \in Seq(FdEntry) /\ DOMAIN fds' = DOMAIN fds /\ Len(fds') = n
    BY <1>1, <1>2, <1>3, <1>4
  <2> QED
    BY <1>1, <1>3, <2>2, <2>3
<1>6. \A k \in DOMAIN fds : /\ fds'[k].fd = fds[k].fd /\ fds[k].fd \in FDs
                            /\ fds'[k].events = "out" => k # i /\ fds[k].events = "out"
  BY <1>5, Entries DEF PInv, TableInv
<1>7. /\ users' \in [FDs -> User]
      /\ \A u \in FDs : users'[u].buf = users[u].buf /\ (u # fd => users'[u] = users[u])
  <2>1. users[fd] \in User /\ [users[fd] EXCEPT !.write_buf = NULL] \in User
    BY <1>1, <1>2 DEF User
  <2>2. users' = [users EXCEPT ![fd] = [users[fd] EXCEPT !.write_buf = NULL]]
    BY <1>1, <1>2, <1>3
  <2> QED
    BY <1>1, <1>2, <2>1, <2>2 DEF User
<1>8. \A k \in DOMAIN fds : k # i => fds[k].fd # fd
  BY <1>2 DEF PInv, TableInv, Once
<1>9. PollTypeOK'
  BY <1>1, <1>3, <1>5, <1>7 DEF PollTypeOK, Following
<1>10. Listed(sock, fds)' /\ OpenListed(sock, fds)'
  BY <1>3, <1>5, <1>6 DEF PInv, TableInv, Listed, OpenListed
<1>11. Once(fds)' /\ Len(fds') <= USER_LIMIT
  BY <1>5, <1>6 DEF PInv, TableInv, Once
<1>12. WritersHaveText(fds, users)'
  BY <1>5, <1>6, <1>7, <1>8 DEF PInv, TableInv, WritersHaveText
<1>13. ResultsFit'
  <2>1. i' >= 0 => i' > i
    BY <1>1, <1>3 DEF Following
  <2>2. ASSUME i' >= 0, NEW k \in DOMAIN fds', k >= i', "out" \in fds'[k].revents
        PROVE  fds'[k].events = "out"
    <3>1. k \in DOMAIN fds /\ k # i /\ k >= i /\ i >= 0
      BY <1>1, <1>5, <1>9, <2>1, <2>2 DEF PollTypeOK
    <3> QED
      BY <1>5, <2>2, <3>1 DEF PInv, ResultsFit
  <2> QED
    BY <2>2 DEF ResultsFit
<1>14. PointsToText'
  <2>1. ASSUME NEW k \in DOMAIN fds', fds'[k].events = "out", fds'[k].fd \notin dangling'
        PROVE  LET from == users'[fds'[k].fd].write_buf
               IN  /\ from \in FDs /\ from # fds'[k].fd
                   /\ sock'[from].open /\ users'[from].buf = from
    <3> DEFINE u == fds[k].fd
    <3>1. /\ k \in DOMAIN fds /\ u \in FDs /\ fds'[k].fd = u /\ u # fd
          /\ fds[k].events = "out" /\ u \notin dangling
      BY <1>3, <1>5, <1>6, <1>8, <2>1
    <3>2. LET from == users[u].write_buf
          IN  from \in FDs /\ from # u /\ sock[from].open /\ users[from].buf = from
      BY <3>1 DEF PInv, PointsToText
    <3> QED
      BY <1>3, <1>7, <3>1, <3>2
  <2> QED
    BY <2>1 DEF PointsToText
<1> QED
  BY <1>9, <1>10, <1>11, <1>12, <1>13, <1>14 DEF PInv, TableInv
-----------------------------------------------------------------------------
LEMMA InitPInv == PollAssumption /\ PollInit => PInv
<1> SUFFICES ASSUME PollAssumption, PollInit PROVE PInv
  OBVIOUS
<1>1. PollTypeOK
  <2>1. ClosedSock \in Socket
    BY DEF ClosedSock, Socket
  <2>2. users \in [FDs -> User]
    BY DEF PollInit, User
  <2> QED
    BY <2>1, <2>2 DEF PollInit, PollTypeOK
<1>2. DOMAIN fds = {} /\ Len(fds) = 0 /\ \A fd \in FDs : ~sock[fd].open
  BY DEF PollInit, ClosedSock
<1>3. TableInv
  BY <1>1, <1>2
  DEF TableInv, Listed, OpenListed, Once, WritersHaveText, PollAssumption
<1> QED
  BY <1>2, <1>3 DEF PInv, ResultsFit, PointsToText

LEMMA Inductive ==
  ASSUME PollAssumption, PInv, [PollNext]_pollVars
  PROVE  PInv'
<1>1. CASE PollRdhup
  BY <1>1, RemoveStep DEF PollRdhup
<1>2. CASE PollIn
  <2>1. AtEntry
    BY <1>2 DEF PollIn
  <2> QED
    BY <1>2, <2>1, RemoveStep, TextStep
<1> QED
  BY <1>1, <1>2, KeepingStep, PollStep, AcceptStep, SentStep DEF PollNext

(* fds and users describe the same users in every pass (114-119, 130-136,   *)
(* 152-156): each open descriptor has one entry, whatever entries were      *)
(* moved, and who is switched to writing has something to write.            *)
THEOREM Table == ASSUME PollAssumption PROVE PollSpec => []TableMatches
<1>1. PollInit => PInv
  BY InitPInv
<1>2. PInv /\ [PollNext]_pollVars => PInv'
  BY Inductive
<1>3. PInv => TableMatches
  BY TableInvMatches DEF PInv
<1> QED
  BY <1>1, <1>2, <1>3, PTL DEF PollSpec

(* A user is sent somebody else's text, and one that its writer has not     *)
(* overwritten by another's (158-165, 172), unless the writer has left.     *)
THEOREM OthersText == ASSUME PollAssumption PROVE PollSpec => SendsTheirText
<1>1. PollInit => PInv
  BY InitPInv
<1>2. PInv /\ [PollNext]_pollVars => PInv'
  BY Inductive
<1>3. PInv /\ [PollNext]_pollVars => [SendsOthersText]_pollVars
  <2> SUFFICES ASSUME PInv, PollOut, Entry.fd \notin dangling
               PROVE  LET from == users[Entry.fd].write_buf
                      IN  from # Entry.fd /\ users[from].buf = from
    BY DEF SendsOthersText
  <2>1. i \in DOMAIN fds /\ i \in Int /\ i >= 0
    BY DEF PInv, TableInv, PollTypeOK, PollOut, Sends, AtEntry
  <2>2. "out" \in fds[i].revents
    BY DEF PollOut, Sends, Entry
  <2>3. fds[i].events = "out"
    BY <2>1, <2>2 DEF PInv, ResultsFit
  <2> QED
    BY <2>1, <2>3 DEF PInv, PointsToText, Entry
<1> QED
  BY <1>1, <1>2, <1>3, PTL DEF PollSpec, SendsTheirText

-----------------------------------------------------------------------------
(* EpollLoops                                                               *)
LoopSpec == L!LoopInit /\ [][L!LoopNext]_L!loopVars

Connection == [open : BOOLEAN, unread : Nat, eof : BOOLEAN, edge : BOOLEAN, out : Nat]

(* Of two connections that wait together, the second came while the edge of *)
(* the first was pending; it is the third conjunct that NothingForgotten    *)
(* needs when one of them is accepted.                                      *)
LoopInv ==
    /\ conn \in [FDs -> Connection] /\ loopBacklog \in Nat /\ merged \in Nat
    /\ NothingForgotten

Expected == loopBacklog <= merged \/ (loopEdge /\ loopBacklog = merged + 1)

Noticed(fd) == mode = "et" /\ conn[fd].open /\ (conn[fd].unread > 0 \/ conn[fd].eof)
                 => conn[fd].edge \/ reading = fd

LEMMA LoopInvIs ==
  LoopInv <=> /\ conn \in [FDs -> Connection] /\ loopBacklog \in Nat /\ merged \in Nat
              /\ \A fd \in FDs : Noticed(fd)
              /\ mode # "echo" => Expected
BY DEF LoopInv, NothingForgotten, L!NothingForgotten, Noticed, Expected

(* A step at one connection: the others are noticed as before.              *)
LEMMA OneConnection ==
  ASSUME LoopInv, NEW fd \in FDs, NEW r \in Connection, conn' = [conn EXCEPT ![fd] = r],
         mode' = mode, \A g \in FDs : reading = g => reading' = g \/ g = fd,
         mode = "et" /\ r.open /\ (r.unread > 0 \/ r.eof) => r.edge \/ reading' = fd
  PROVE  conn' \in [FDs -> Connection] /\ \A g \in FDs : Noticed(g)'
<1>1. conn \in [FDs -> Connection] /\ \A g \in FDs : Noticed(g)
  BY LoopInvIs
<1>2. conn' \in [FDs -> Connection] /\ conn'[fd] = r /\ \A g \in FDs : g # fd => conn'[g] = conn[g]
  BY <1>1
<1>3. Noticed(fd)'
  BY <1>2 DEF Noticed
<1>4. ASSUME NEW g \in FDs, g # fd PROVE Noticed(g)'
  <2>1. conn'[g] = conn[g] /\ Noticed(g)
    BY <1>1, <1>2, <1>4
  <2> QED
    BY <1>4, <2>1 DEF Noticed
<1> QED
  BY <1>2, <1>3, <1>4

(* The invariant after a step that leaves the listening socket alone.       *)
LEMMA ListenKept ==
  ASSUME LoopInv, mode' = mode, loopBacklog' = loopBacklog, loopEdge' = loopEdge, merged' = merged,
         conn' \in [FDs -> Connection], \A g \in FDs : Noticed(g)'
  PROVE  LoopInv'
BY DEF LoopInv, NothingForgotten, L!NothingForgotten, Noticed

LEMMA ClientStep ==
  ASSUME LoopInv, NEW fd \in FDs, L!Data(fd) \/ L!Hangup(fd) \/ L!ReadEcho(fd)
  PROVE  LoopInv'
<1>1. /\ mode' = mode /\ loopBacklog' = loopBacklog /\ loopEdge' = loopEdge
      /\ merged' = merged /\ reading' = reading
  BY DEF L!Data, L!Hangup, L!ReadEcho
<1>2. conn \in [FDs -> Connection] /\ conn[fd] \in Connection /\ Noticed(fd)
  BY LoopInvIs
<1>3. PICK r \in Connection :
        /\ conn' = [conn EXCEPT ![fd] = r]
        /\ r.edge \/ r = [conn[fd] EXCEPT !.out = @ - 1]
  <2>1. CASE L!Data(fd)
    <3> DEFINE u == conn[fd].unread + 1
               q == [conn[fd] EXCEPT !.unread = u, !.edge = TRUE]
    <3>1. u \in Nat
      BY <1>2 DEF Connection
    <3>2. conn' = [conn EXCEPT ![fd] = q]
      BY <1>2, <2>1 DEF L!Data
    <3> HIDE DEF u
    <3>3. q \in Connection /\ q.edge
      BY <1>2, <3>1 DEF Connection
    <3> QED
      BY <3>2, <3>3
  <2>2. CASE L!Hangup(fd)
    <3>1. [conn[fd] EXCEPT !.eof = TRUE, !.edge = TRUE] \in Connection
      BY <1>2 DEF Connection
    <3> QED
      BY <1>2, <2>2, <3>1 DEF L!Hangup, Connection
  <2>3. CASE L!ReadEcho(fd)
    <3>1. [conn[fd] EXCEPT !.out = @ - 1] \in Connection
      BY <1>2, <2>3 DEF L!ReadEcho, Connection
    <3> QED
      BY <1>2, <2>3, <3>1 DEF L!ReadEcho, Connection
  <2> QED
    BY <2>1, <2>2, <2>3
<1>4. mode = "et" /\ r.open /\ (r.unread > 0 \/ r.eof) => r.edge \/ reading' = fd
  BY <1>1, <1>2, <1>3 DEF Noticed, Connection
<1>5. conn' \in [FDs -> Connection] /\ \A g \in FDs : Noticed(g)'
  BY <1>1, <1>3, <1>4, OneConnection
<1> QED
  BY <1>1, <1>5, ListenKept

LEMMA NoConnIs == L!NoConn \in Connection /\ ~L!NoConn.open /\ L!NoConn.unread = 0 /\ ~L!NoConn.eof
BY DEF L!NoConn, Connection

LEMMA LoopAcceptStep ==
  ASSUME LoopInv, NEW fd \in FDs, L!LoopAccept(fd) \/ L!EchoAccept(fd)
  PROVE  LoopInv'
<1> DEFINE r == [L!NoConn EXCEPT !.open = TRUE]
<1>1. /\ L!AcceptOne(fd) /\ mode' = mode /\ merged' = merged /\ reading' = reading
      /\ loopBacklog > 0 /\ loopBacklog' = loopBacklog - 1 /\ conn' = [conn EXCEPT ![fd] = r]
  BY DEF L!LoopAccept, L!EchoAccept, L!AcceptOne
<1>2. r \in Connection /\ r.unread = 0 /\ ~r.eof
  BY DEF L!NoConn, Connection
<1>3. loopBacklog \in Nat /\ merged \in Nat /\ (mode # "echo" => loopBacklog <= merged + 1)
  BY LoopInvIs DEF Expected
<1> HIDE DEF r
<1>4. conn' \in [FDs -> Connection] /\ \A g \in FDs : Noticed(g)'
  <2>1. ~(r.unread > 0)
    BY <1>2
  <2>2. \A g \in FDs : reading = g => reading' = g \/ g = fd
    BY <1>1
  <2> QED
    BY <1>1, <1>2, <2>1, <2>2, OneConnection
<1>5. loopBacklog' \in Nat /\ merged' \in Nat /\ (mode' # "echo" => loopBacklog' <= merged')
  BY <1>1, <1>3
<1>6. mode' # "echo" => Expected'
  BY <1>5 DEF Expected
<1> QED
  BY <1>4, <1>5, <1>6 DEF LoopInv, NothingForgotten, L!NothingForgotten, Noticed, Expected

LEMMA EventStep ==
  ASSUME L!LoopAssumption, LoopInv, NEW fd \in FDs, L!Lt(fd) \/ L!EtEvent(fd) \/ L!EchoTcp(fd)
  PROVE  LoopInv'
<1>1. /\ mode' = mode /\ loopBacklog' = loopBacklog /\ loopEdge' = loopEdge /\ merged' = merged
      /\ reading = NULL /\ NULL \notin FDs
      /\ \/ mode # "et" /\ reading' = reading
         \/ mode = "et" /\ reading' = fd
  BY DEF L!Lt, L!EtEvent, L!EchoTcp, L!InWait, L!LoopAssumption
<1>2. conn \in [FDs -> Connection] /\ conn[fd] \in Connection
  BY LoopInvIs
<1>3. PICK r \in Connection : conn' = [conn EXCEPT ![fd] = r]
  <2>1. CASE L!Lt(fd) /\ conn[fd].unread > 0
    <3>1. [conn[fd] EXCEPT !.unread = @ - 1] \in Connection
      BY <1>2, <2>1 DEF Connection
    <3> QED
      BY <1>2, <2>1, <3>1, NoConnIs DEF L!Lt
  <2>2. CASE L!Lt(fd) /\ ~(conn[fd].unread > 0)
    BY <2>2, NoConnIs DEF L!Lt
  <2>3. CASE L!EtEvent(fd)
    <3>1. [conn[fd] EXCEPT !.edge = FALSE] \in Connection
      BY <1>2 DEF Connection
    <3> QED
      BY <1>2, <2>3, <3>1 DEF L!EtEvent
  <2>4. CASE L!EchoTcp(fd) /\ conn[fd].unread > 0
    <3> DEFINE o == IF conn[fd].out < Room THEN conn[fd].out + 1 ELSE conn[fd].out
               r == [conn[fd] EXCEPT !.unread = @ - 1, !.out = o]
    <3>1. o \in Nat
      BY <1>2 DEF Connection
    <3>2. conn[fd].unread - 1 \in Nat
      BY <1>2, <2>4 DEF Connection
    <3> HIDE DEF o
    <3>3. r \in Connection
      BY <1>2, <3>1, <3>2 DEF Connection
    <3>4. conn' = [conn EXCEPT ![fd] = r]
      <4>1. conn[fd].unread # 0
        BY <2>4
      <4>2. conn' = [conn EXCEPT ![fd].unread = @ - 1,
                                 ![fd].out = IF @ < Room THEN @ + 1 ELSE @]
        BY <2>4, <4>1 DEF L!EchoTcp
      <4> QED
        BY <1>2, <4>2 DEF o, Connection
    <3> QED
      BY <3>3, <3>4
  <2>5. CASE L!EchoTcp(fd) /\ ~(conn[fd].unread > 0)
    BY <2>5, NoConnIs DEF L!EchoTcp
  <2> QED
    BY <2>1, <2>2, <2>3, <2>4, <2>5
<1>4. conn' \in [FDs -> Connection] /\ \A g \in FDs : Noticed(g)'
  BY <1>1, <1>3, OneConnection
<1> QED
  BY <1>1, <1>4, ListenKept

LEMMA EtRecvStep ==
  ASSUME LoopInv, L!EtRecv
  PROVE  LoopInv'
<1>1. /\ mode' = mode /\ loopBacklog' = loopBacklog /\ loopEdge' = loopEdge /\ merged' = merged
      /\ reading # NULL
  BY DEF L!EtRecv
<1>2. conn \in [FDs -> Connection] /\ \A g \in FDs : Noticed(g)
  BY LoopInvIs
<1>3. CASE reading \in FDs
  <2>1. conn[reading] \in Connection
    BY <1>2, <1>3
  <2>2. CASE conn[reading].unread > 0
    <3>1. [conn[reading] EXCEPT !.unread = @ - 1] \in Connection
      BY <2>1, <2>2 DEF Connection
    <3>2. conn' = [conn EXCEPT ![reading] = [conn[reading] EXCEPT !.unread = @ - 1]] /\ reading' = reading
      BY <2>1, <2>2 DEF L!EtRecv
    <3>3. conn' \in [FDs -> Connection] /\ \A g \in FDs : Noticed(g)'
      BY <1>1, <1>3, <3>1, <3>2, OneConnection
    <3> QED
      BY <1>1, <3>3, ListenKept
  <2>3. CASE ~(conn[reading].unread > 0) /\ conn[reading].eof
    <3>1. conn' = [conn EXCEPT ![reading] = L!NoConn] /\ reading' = reading
      BY <2>1, <2>3 DEF L!EtRecv
    <3>2. conn' \in [FDs -> Connection] /\ \A g \in FDs : Noticed(g)'
      BY <1>1, <1>3, <3>1, NoConnIs, OneConnection
    <3> QED
      BY <1>1, <3>2, ListenKept
  <2>4. CASE ~(conn[reading].unread > 0) /\ ~conn[reading].eof
    <3>1. conn' = conn /\ reading' = NULL
      BY <2>1, <2>4 DEF L!EtRecv
    <3>2. \A g \in FDs : Noticed(g)'
      BY <1>1, <1>2, <2>4, <3>1 DEF Noticed
    <3> QED
      BY <1>1, <1>2, <3>1, <3>2, ListenKept
  <2> QED
    BY <2>2, <2>3, <2>4
<1>4. CASE reading \notin FDs
  <2>1. /\ conn' \in [FDs -> Connection]
        /\ \A g \in FDs : conn'[g] = conn[g]
    BY <1>2, <1>4 DEF L!EtRecv
  <2>2. \A g \in FDs : Noticed(g)'
    BY <1>1, <1>2, <1>4, <2>1 DEF Noticed
  <2> QED
    BY <1>1, <2>1, <2>2, ListenKept
<1> QED
  BY <1>3, <1>4

LEMMA LoopStep ==
  ASSUME L!LoopAssumption, LoopInv, [L!LoopNext]_L!loopVars
  PROVE  LoopInv'
<1>1. CASE L!Connect
  <2>1. /\ mode' = mode /\ conn' = conn /\ reading' = reading /\ loopBacklog' = loopBacklog + 1
        /\ loopEdge' = TRUE
        /\ merged' = IF mode # "echo" /\ loopEdge THEN merged + 1 ELSE merged
    BY <1>1 DEF L!Connect
  <2>2. /\ conn \in [FDs -> Connection] /\ loopBacklog \in Nat /\ merged \in Nat
        /\ \A g \in FDs : Noticed(g)
        /\ mode # "echo" => Expected
    BY LoopInvIs
  <2>3. \A g \in FDs : Noticed(g)'
    BY <2>1, <2>2 DEF Noticed
  <2>4. mode' # "echo" => loopBacklog' <= merged' \/ loopBacklog' = merged' + 1
    BY <2>1, <2>2 DEF Expected
  <2>5. conn' \in [FDs -> Connection] /\ loopBacklog' \in Nat /\ merged' \in Nat
    BY <2>1, <2>2
  <2>6. NothingForgotten'
    BY <2>1, <2>3, <2>4 DEF NothingForgotten, L!NothingForgotten, Noticed
  <2> QED
    BY <2>5, <2>6 DEF LoopInv
<1>2. CASE L!Datagram \/ L!EchoUdp \/ UNCHANGED L!loopVars
  BY <1>2 DEF L!Datagram, L!EchoUdp, L!loopVars, LoopInv, NothingForgotten, L!NothingForgotten
<1> QED
  BY <1>1, <1>2, EtRecvStep, ClientStep, LoopAcceptStep, EventStep DEF L!LoopNext

(* 02_epoll.c: when et waits in epoll_wait, every connection with data or an*)
(* end of stream is on the ready list (78-93), and no more connections wait *)
(* for accept unnoticed than came on another's edge (46-50).                *)
THEOREM NothingWaits == ASSUME L!LoopAssumption PROVE LoopSpec => []NothingForgotten
<1>1. L!LoopInit => LoopInv
  BY NoConnIs DEF L!LoopInit, LoopInv, NothingForgotten, L!NothingForgotten
<1>2. LoopInv /\ [L!LoopNext]_L!loopVars => LoopInv'
  BY LoopStep
<1>3. LoopInv => NothingForgotten
  BY DEF LoopInv
<1> QED
  BY <1>1, <1>2, <1>3, PTL DEF LoopSpec

-----------------------------------------------------------------------------
(* ProcessPool and PoolCgi                                                  *)


PoolSpec == PoolInit /\ [][PoolNext]_poolVars
CgiSpec == PoolInit /\ CgiInit /\ [][CgiNext]_<<poolVars, cgiVars>>

(* "wait" is a place of the pool's children, the last three are of the CGI  *)
(* server's.                                                                *)
ProcessState == [pc : {"setup", "wait", "zombie", "reaped", "test", "enter", "blocked"},
                 stop : BOOLEAN, term : BOOLEAN]
ChildType == child \in [Children -> ProcessState]
JInv == ChildType /\ m_pid \in [Children -> BOOLEAN] /\ EndsAfterChildren

LEMMA InitJInv == PoolInit => JInv
<1> SUFFICES ASSUME PoolInit PROVE JInv
  OBVIOUS
<1>1. [pc |-> "setup", stop |-> FALSE, term |-> FALSE] \in ProcessState
  BY DEF ProcessState
<1>2. ChildType /\ m_pid \in [Children -> BOOLEAN]
  BY <1>1 DEF PoolInit, ChildType
<1>3. EndsAfterChildren
  BY DEF PoolInit, EndsAfterChildren
<1> QED
  BY <1>2, <1>3 DEF JInv

(* A child takes a step of its own, or a signal: nobody is reaped by it.    *)
LEMMA NobodyReaped ==
  ASSUME JInv, UNCHANGED m_pid, child' \in [Children -> ProcessState],
         \A kid \in Children : child'[kid].pc = "reaped" <=> child[kid].pc = "reaped",
         parent' \in {"stopping", "gone"} =>
            parent \in {"stopping", "gone"} \/ \A kid \in Children : ~m_pid[kid]
  PROVE  JInv'
<1>1. ASSUME NEW kid \in Children PROVE m_pid'[kid] = (child'[kid].pc # "reaped")
  BY DEF JInv, EndsAfterChildren
<1>2. ASSUME parent' \in {"stopping", "gone"}, NEW kid \in Children PROVE child'[kid].pc = "reaped"
  BY <1>2 DEF JInv, EndsAfterChildren
<1> QED
  BY <1>1, <1>2 DEF JInv, ChildType, EndsAfterChildren

(* One child is given a new state.                                          *)
LEMMA OneChild ==
  ASSUME JInv, UNCHANGED <<m_pid, parent>>, NEW kid \in Children, NEW c \in ProcessState,
         child' = [child EXCEPT ![kid] = c], child[kid].pc # "reaped", c.pc # "reaped"
  PROVE  JInv'
<1>1. child' \in [Children -> ProcessState]
  BY DEF JInv, ChildType
<1>2. \A j \in Children : child'[j].pc = "reaped" <=> child[j].pc = "reaped"
  BY DEF JInv, ChildType
<1> QED
  BY <1>1, <1>2, NobodyReaped

LEMMA ChildIs == ASSUME JInv, NEW kid \in Children PROVE child[kid] \in ProcessState
BY DEF JInv, ChildType

LEMMA ChildState ==
  ASSUME JInv, NEW kid \in Children
  PROVE  /\ \A pc \in {"setup", "wait", "zombie", "reaped", "test", "enter", "blocked"} :
               /\ [child[kid] EXCEPT !.pc = pc] \in ProcessState
               /\ [child[kid] EXCEPT !.pc = pc].pc = pc
         /\ [child[kid] EXCEPT !.pc = "test", !.stop = TRUE] \in ProcessState
         /\ [child[kid] EXCEPT !.pc = "test", !.stop = TRUE].pc = "test"
<1>1. child[kid] \in ProcessState
  BY ChildIs
<1> QED
  BY <1>1 DEF ProcessState

LEMMA DiesStep ==
  ASSUME JInv, NEW kid \in Children, ~Ended(kid), Dies(kid)
  PROVE  JInv'
<1>1. [pc |-> "zombie", stop |-> FALSE, term |-> FALSE] \in ProcessState
  BY DEF ProcessState
<1>2. UNCHANGED <<m_pid, parent>>
  BY DEF Dies, parentVars
<1>3. child' = [child EXCEPT ![kid] = [pc |-> "zombie", stop |-> FALSE, term |-> FALSE]]
  BY DEF Dies
<1> QED
  BY <1>1, <1>2, <1>3, OneChild DEF Ended

LEMMA WaitpidStep ==
  ASSUME JInv, NEW kid \in Children, Waitpid(kid)
  PROVE  JInv'
<1>1. /\ child' = [child EXCEPT ![kid] = [child[kid] EXCEPT !.pc = "reaped"]]
      /\ m_pid' = [m_pid EXCEPT ![kid] = FALSE] /\ UNCHANGED parent /\ child[kid].pc = "zombie"
  BY DEF Waitpid, JInv, ChildType
<1>2. ChildType' /\ m_pid' \in [Children -> BOOLEAN]
  BY <1>1, ChildState DEF JInv, ChildType
<1>3. /\ child'[kid].pc = "reaped" /\ m_pid'[kid] = FALSE
      /\ \A j \in Children : j # kid => child'[j] = child[j] /\ m_pid'[j] = m_pid[j]
  <2>1. [child[kid] EXCEPT !.pc = "reaped"].pc = "reaped"
    BY ChildState
  <2>2. child'[kid] = [child[kid] EXCEPT !.pc = "reaped"]
    BY <1>1 DEF JInv, ChildType
  <2>3. m_pid'[kid] = FALSE
    BY <1>1 DEF JInv
  <2>4. \A j \in Children : j # kid => child'[j] = child[j] /\ m_pid'[j] = m_pid[j]
    BY <1>1 DEF JInv, ChildType
  <2> QED
    BY <2>1, <2>2, <2>3, <2>4
<1>4. ASSUME NEW j \in Children PROVE m_pid'[j] = (child'[j].pc # "reaped")
  BY <1>3 DEF JInv, EndsAfterChildren
<1>5. ASSUME parent' \in {"stopping", "gone"}, NEW j \in Children PROVE child'[j].pc = "reaped"
  BY <1>1, <1>3, <1>5 DEF JInv, EndsAfterChildren
<1> QED
  BY <1>2, <1>4, <1>5 DEF JInv, EndsAfterChildren

(* waitpid finds nobody any more: m_stop is set when m_pid is -1 for all.   *)
LEMMA WaitpidNoneStep ==
  ASSUME JInv, WaitpidNone
  PROVE  JInv'
<1>1. UNCHANGED <<child, m_pid>>
  BY DEF WaitpidNone
<1>2. parent' \in {"stopping", "gone"} => \A kid \in Children : ~m_pid[kid]
  BY DEF WaitpidNone, AllJoined
<1> QED
  BY <1>1, <1>2, NobodyReaped DEF JInv, ChildType

(* The steps that the pool and the CGI server share.                        *)
LEMMA SharedStep ==
  ASSUME JInv, \/ Connect \/ Terminate \/ KillParent \/ Setup \/ RecvSignals \/ Exit
               \/ UNCHANGED poolVars
  PROVE  JInv'
<1>1. UNCHANGED <<child, m_pid>>
  BY DEF Connect, Terminate, KillParent, Setup, RecvSignals, Exit, poolVars, parentVars
<1>2. parent' \in {"stopping", "gone"} => parent \in {"stopping", "gone"}
  BY DEF Connect, Terminate, KillParent, Setup, RecvSignals, Exit, poolVars, parentVars
<1> QED
  BY <1>1, <1>2, NobodyReaped DEF JInv, ChildType

LEMMA PoolStep ==
  ASSUME JInv, [PoolNext]_poolVars
  PROVE  JInv'
<1>1. CASE Announce
  <2>1. UNCHANGED <<child, m_pid>>
    BY <1>1 DEF Announce
  <2>2. parent' = parent \/ \A kid \in Children : ~m_pid[kid]
    BY <1>1 DEF Announce
  <2> QED
    BY <2>1, <2>2, NobodyReaped DEF JInv, ChildType
<1>2. CASE SigTerm
  <2>1. UNCHANGED <<m_pid, parent>>
    BY <1>2 DEF SigTerm
  <2>2. ASSUME NEW kid \in Children
        PROVE  child'[kid] \in ProcessState /\ child'[kid].pc = child[kid].pc
    <3>1. child'[kid] \in {child[kid], [child[kid] EXCEPT !.term = TRUE]}
      BY <1>2 DEF SigTerm
    <3>2. child[kid] \in ProcessState
      BY ChildIs
    <3> QED
      BY <3>1, <3>2 DEF ProcessState
  <2>3. child' \in [Children -> ProcessState]
    BY <1>2, <2>2 DEF SigTerm
  <2> QED
    BY <2>1, <2>2, <2>3, NobodyReaped
<1>3. ASSUME NEW kid \in Children, Crash(kid) \/ Stop(kid) PROVE JInv'
  BY <1>3, DiesStep DEF Crash, Stop, Die
<1>4. ASSUME NEW kid \in Children, ChildSetup(kid) PROVE JInv'
  <2>1. /\ child' = [child EXCEPT ![kid] = [child[kid] EXCEPT !.pc = "wait"]]
        /\ child[kid].pc = "setup" /\ UNCHANGED <<m_pid, parent>>
    BY <1>4 DEF ChildSetup, parentVars
  <2>2. [child[kid] EXCEPT !.pc = "wait"] \in ProcessState
    BY ChildState
  <2>3. [child[kid] EXCEPT !.pc = "wait"].pc = "wait"
    BY ChildState
  <2> QED
    BY <2>1, <2>2, <2>3, OneChild
<1>5. ASSUME NEW kid \in Children, ChildAccept(kid) PROVE JInv'
  <2>1. UNCHANGED <<child, m_pid, parent>>
    BY <1>5 DEF ChildAccept, parentVars
  <2> QED
    BY <2>1, NobodyReaped DEF JInv, ChildType
<1> QED
  BY <1>1, <1>2, <1>3, <1>4, <1>5, SharedStep, WaitpidStep, WaitpidNoneStep
  DEF PoolNext, Parent, Child

(* The pool's parent ends only after it has reaped every child (311-316),   *)
(* and m_pid is -1 exactly for those (305-307), however many children end   *)
(* at once and whoever ends them.                                           *)
THEOREM PoolEnds == PoolSpec => []EndsAfterChildren
<1>1. JInv /\ [PoolNext]_poolVars => JInv'
  BY PoolStep
<1>2. JInv => EndsAfterChildren
  BY DEF JInv
<1> QED
  BY InitJInv, <1>1, <1>2, PTL DEF PoolSpec
-----------------------------------------------------------------------------
LEMMA CgiStep ==
  ASSUME JInv, [CgiNext]_<<poolVars, cgiVars>>
  PROVE  JInv'
<1>1. CASE CgiKillParent
  <2>1. UNCHANGED <<child, m_pid>> /\ parent' = "killed"
    BY <1>1 DEF CgiKillParent
  <2> QED
    BY <2>1, NobodyReaped DEF JInv, ChildType
<1>2. CASE CgiAnnounce
  <2>1. UNCHANGED <<child, m_pid, parent>>
    BY <1>2 DEF CgiAnnounce
  <2> QED
    BY <2>1, NobodyReaped DEF JInv, ChildType
<1>3. CASE CgiSigTerm
  <2>1. UNCHANGED <<m_pid, parent>>
    BY <1>3 DEF CgiSigTerm
  <2>2. ASSUME NEW kid \in Children
        PROVE  child'[kid] \in ProcessState /\ (child'[kid].pc = "reaped" <=> child[kid].pc = "reaped")
    <3>1. child'[kid] = CgiKilled(child[kid])
      BY <1>3 DEF CgiSigTerm
    <3>2. child[kid] \in ProcessState
      BY ChildIs
    <3> QED
      BY <3>1, <3>2 DEF CgiKilled, ProcessState
  <2>3. child' \in [Children -> ProcessState]
    BY <1>3, <2>2 DEF CgiSigTerm
  <2> QED
    BY <2>1, <2>2, <2>3, NobodyReaped
<1>4. ASSUME NEW kid \in Children, CgiCrash(kid) \/ CgiStop(kid) PROVE JInv'
  <2>1. ~Ended(kid) /\ Dies(kid)
    BY <1>4 DEF CgiCrash, CgiStop, CgiDie, Ended
  <2> QED
    BY <2>1, DiesStep
<1>5. ASSUME NEW kid \in Children, NEW c \in ProcessState, child[kid].pc # "reaped",
             child' = child \/ child' = [child EXCEPT ![kid] = c], c.pc # "reaped",
             UNCHANGED <<m_pid, parent>>
      PROVE  JInv'
  <2>1. CASE child' = child
    BY <1>5, <2>1, NobodyReaped DEF JInv, ChildType
  <2> QED
    BY <1>5, <2>1, OneChild
<1>6. ASSUME NEW kid \in Children, NEW from \in {"setup", "test", "enter"},
             NEW to \in {"test", "enter", "blocked"}, Goto(kid, from, to)
      PROVE  JInv'
  <2>1. /\ child' = [child EXCEPT ![kid] = [child[kid] EXCEPT !.pc = to]]
        /\ child[kid].pc # "reaped" /\ UNCHANGED <<m_pid, parent>>
    BY <1>6 DEF Goto, parentVars
  <2>2. [child[kid] EXCEPT !.pc = to] \in ProcessState /\ [child[kid] EXCEPT !.pc = to].pc = to
    BY ChildState
  <2> QED
    BY <1>5, <2>1, <2>2
<1>7. ASSUME NEW kid \in Children, CgiChildSetup(kid) \/ GoOn(kid) \/ EnterWait(kid) PROVE JInv'
  BY <1>6, <1>7 DEF CgiChildSetup, GoOn, EnterWait
<1>8. ASSUME NEW kid \in Children, CgiAccept(kid) \/ Serve(kid) PROVE JInv'
  <2>1. /\ child' = [child EXCEPT ![kid] = [child[kid] EXCEPT !.pc = "test"]]
        /\ child[kid].pc # "reaped" /\ UNCHANGED <<m_pid, parent>>
    BY <1>8 DEF CgiAccept, Serve, parentVars
  <2>2. /\ [child[kid] EXCEPT !.pc = "test"] \in ProcessState
        /\ [child[kid] EXCEPT !.pc = "test"].pc = "test"
    BY ChildState
  <2> QED
    BY <1>5, <2>1, <2>2
<1>9. ASSUME NEW kid \in Children, PipeEnd(kid) PROVE JInv'
  <2>1. /\ child' = [child EXCEPT ![kid] = [child[kid] EXCEPT !.pc = "test", !.stop = TRUE]]
        /\ child[kid].pc # "reaped" /\ UNCHANGED <<m_pid, parent>>
    BY <1>9 DEF PipeEnd, parentVars, JInv, ChildType
  <2>2. /\ [child[kid] EXCEPT !.pc = "test", !.stop = TRUE] \in ProcessState
        /\ [child[kid] EXCEPT !.pc = "test", !.stop = TRUE].pc = "test"
    BY ChildState
  <2> QED
    BY <1>5, <2>1, <2>2
<1>10. ASSUME NEW kid \in Children, ScriptEnds(kid) PROVE JInv'
  <2>1. /\ child' = child \/ (child[kid].pc = "blocked"
                              /\ child' = [child EXCEPT ![kid] = [child[kid] EXCEPT !.pc = "test"]])
        /\ UNCHANGED <<m_pid, parent>>
    BY <1>10 DEF ScriptEnds, parentVars
  <2>2. /\ [child[kid] EXCEPT !.pc = "test"] \in ProcessState
        /\ [child[kid] EXCEPT !.pc = "test"].pc = "test"
    BY ChildState
  <2>3. CASE child' = child
    BY <2>1, <2>3, NobodyReaped DEF JInv, ChildType
  <2> QED
    BY <1>5, <2>1, <2>2, <2>3
<1> QED
  BY <1>1, <1>2, <1>3, <1>4, <1>7, <1>8, <1>9, <1>10, SharedStep, WaitpidStep, WaitpidNoneStep
  DEF CgiNext, CgiParent, CgiChild, CgiSetup, CgiWaitpid, CgiWaitpidNone

(* The CGI server's parent, too, ends only after it has reaped every child  *)
(* (292-298), although it announces connections and SIGTERM to children     *)
(* without looking whether they are there.                                  *)
THEOREM CgiEnds == CgiSpec => []EndsAfterChildren
<1>1. JInv /\ [CgiNext]_<<poolVars, cgiVars>> => JInv'
  BY CgiStep
<1>2. JInv => EndsAfterChildren
  BY DEF JInv
<1> QED
  BY InitJInv, <1>1, <1>2, PTL DEF CgiSpec
=============================================================================
