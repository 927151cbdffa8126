------------------------------- MODULE IoProofs -------------------------------
(***************************************************************************)
(* Proofs about what comes in from a socket, in pieces of any size: the    *)
(* two parsers of HttpParser say of a request what it is, and the readers  *)
(* of Rio, also as Tiny calls them, lose and repeat no character.          *)
(***************************************************************************)
EXTENDS HttpParser, MCIo, SequenceTheorems, FiniteSetTheorems, TLAPS

(* Positions of the input w count from 1 below.                             *)

(* The first s tokens are whole lines and hold nothing malformed.           *)
Lines(w, s) ==
    /\ s > 0 => w[s] = "LF"
    /\ \A k \in 1 .. s : w[k] = "CR" => k < s /\ w[k + 1] = "LF"
    /\ \A k \in 1 .. s : w[k] = "LF" => k > 1 /\ w[k - 1] = "CR"

(* The text from s to c is all of one line.                                 *)
Free(w, s, c) == \A k \in s + 1 .. c : w[k] \notin {"CR", "LF"}

(* Why parse_line stops at c without a line: it needs more, or cannot go on.*)
Stuck(w, c, n) == c = n \/ (c + 1 = n /\ w[n] = "CR")
BadAt(w, c, n) ==
    /\ c < n
    /\ \/ w[c + 1] = "CR" /\ c + 1 < n /\ w[c + 2] # "LF"
       \/ w[c + 1] = "LF" /\ (c = 0 \/ w[c] # "CR")

(* What the lines before s are.                                             *)
RightFirst(w, s) == s >= 3 /\ w[1] = "GET" /\ w[2] = "CR"
NoBlank(w, s) == \A k \in 3 .. s : w[k] = "CR" => w[k - 2] # "CR"
Lengthy(w, s) == \E k \in 1 .. s - 2 : w[k] = "CR" /\ w[k + 2] = "length"
Lingers(w, s) == \E k \in 1 .. s - 3 : w[k] = "CR" /\ w[k + 2] = "keep-alive" /\ w[k + 3] = "CR"

Header(w, s) == Lines(w, s) /\ RightFirst(w, s) /\ NoBlank(w, s)

Noted(w, s, p) == /\ p.m_linger <=> Lingers(w, s)
                  /\ p.m_content_length # 0 <=> Lengthy(w, s)

(* The head ends with the empty line after the first b tokens.              *)
HeadAt(w, b) == Header(w, b) /\ Lines(w, b + 2) /\ w[b + 1] = "CR"

(* The first line ends before at and is not a request line.                 *)
WrongFirst(w, n) ==
    \E at \in 2 .. n : /\ Lines(w, at) /\ Free(w, 0, at - 2) /\ w[at - 1] = "CR"
                       /\ SubSeq(w, 1, at - 2) # <<"GET">>

Scanned(w, g, p) ==
    /\ Lines(w, p.start_line) /\ Free(w, p.start_line, p.checked_idx)
    /\ p.check_state = "requestline" => p.start_line = 0 /\ ~p.m_linger /\ p.m_content_length = 0
    /\ p.check_state = "header" =>
         Header(w, p.start_line) /\ (g = "conn" => Noted(w, p.start_line, p))

InBody(w, g, p) ==
    /\ g = "conn" /\ p.m_content_length = ContentLength
    /\ \E b \in 0 .. Len(w) : /\ HeadAt(w, b) /\ Noted(w, b, p) /\ b + 2 <= p.checked_idx
                              /\ ~p.partial => p.checked_idx = b + 2

Going(w, g, p) == IF p.check_state = "content" THEN InBody(w, g, p) ELSE Scanned(w, g, p)

Waits(w, g, p) ==
    IF p.check_state = "content" THEN p.partial
    ELSE \/ Stuck(w, p.checked_idx, p.read_idx)
         \/ g = "conn" /\ BadAt(w, p.checked_idx, p.read_idx)

Refused(w, g, p) ==
    \/ WrongFirst(w, p.read_idx)
    \/ /\ g = "prog" /\ p.check_state # "content" /\ Scanned(w, g, p)
       /\ BadAt(w, p.checked_idx, p.read_idx)

Complete(w, g, p) ==
    \E b \in 0 .. Len(w) :
       /\ HeadAt(w, b) /\ b + 2 <= p.read_idx
       /\ g = "conn" => /\ Noted(w, b, p)
                        /\ p.m_content_length # 0 => p.read_idx >= b + 2 + ContentLength

ParseInvOf(w, g, p) ==
    /\ p.pc # "done" => Going(w, g, p) /\ p.result = "NO_REQUEST"
    /\ p.pc = "done" => p.result # "NO_REQUEST"
    /\ p.pc = "recv" => Waits(w, g, p)
    /\ p.result = "BAD_REQUEST" => Refused(w, g, p)
    /\ p.result = "GET_REQUEST" => Complete(w, g, p)

ParseInv == TypeOK /\ ParseInvOf(input, program, parser)
-----------------------------------------------------------------------------
(* The least element of a set of numbers, and the pieces of a sequence.     *)
LEMMA MinIs ==
  ASSUME NEW S, IsFiniteSet(S), S \subseteq Nat, S # {}
  PROVE  Min(S) \in S /\ \A x \in S : Min(S) <= x
<1> DEFINE Below(x) == {y \in S : y < x}
           B == {Below(x) : x \in S}
<1>1. IsWellFoundedOn(StrictSubsetOrdering(S), FiniteSubsetsOf(S))
  BY FS_StrictSubsetOrderingWellFounded
<1>2. B \subseteq FiniteSubsetsOf(S) /\ B # {}
  <2>1. \A x \in S : Below(x) \in SUBSET S
    OBVIOUS
  <2>2. FiniteSubsetsOf(S) = SUBSET S
    BY FS_FiniteSubsetsOfFinite
  <2>3. PICK x \in S : TRUE
    OBVIOUS
  <2>4. Below(x) \in B
    OBVIOUS
  <2>5. \A U \in B : U \in SUBSET S
    BY <2>1
  <2> HIDE DEF B
  <2> QED
    BY <2>2, <2>4, <2>5
<1>3. PICK T \in B : \A U \in B : <<U, T>> \notin StrictSubsetOrdering(S)
  BY <1>1, <1>2, WFMin
<1>4. PICK x \in S : T = Below(x)
  OBVIOUS
<1>5. ASSUME NEW y \in S, y < x PROVE FALSE
  <2>1. Below(y) \subseteq T /\ y \in T /\ y \notin Below(y)
    <3>1. y \in Nat /\ x \in Nat /\ ~(y < y)
      OBVIOUS
    <3>2. \A z \in S : z < y => z < x
      BY <1>5, <3>1
    <3> QED
      BY <1>4, <1>5, <3>1, <3>2
  <2>2. Below(y) \in B /\ Below(y) # T /\ Below(y) \in SUBSET S /\ T \in SUBSET S
    BY <2>1, <1>4
  <2> HIDE DEF Below, B
  <2>3. <<Below(y), T>> \in StrictSubsetOrdering(S)
    BY <2>1, <2>2 DEF StrictSubsetOrdering
  <2> QED
    BY <1>3, <2>2, <2>3
<1>6. \A y \in S : x <= y
  BY <1>5
<1> QED
  BY <1>6 DEF Min

LEMMA MinOf ==
  ASSUME NEW S, S \subseteq Nat, NEW b \in S, \A x \in S : b <= x
  PROVE  Min(S) = b
<1>1. \A x \in S : (\A y \in S : x <= y) => x = b
  OBVIOUS
<1> QED
  BY <1>1 DEF Min

LEMMA TextIs ==
  ASSUME input \in Seq(Tokens), NEW s \in Nat, NEW at \in s + 2 .. Len(input)
  PROVE  LET text == SubSeq(input, s + 1, at - 2)
         IN  /\ text = <<>> <=> at = s + 2
             /\ \A t : text = <<t>> <=> at = s + 3 /\ input[s + 1] = t
             /\ text # <<>> => text[1] = input[s + 1]
<1> DEFINE text == SubSeq(input, s + 1, at - 2)
<1>1. /\ Len(text) = at - 2 - s /\ text \in Seq(Tokens)
      /\ \A k \in 1 .. at - 2 - s : text[k] = input[s + k]
  <2>1. \A k \in s + 1 .. at - 2 : input[k] \in Tokens
    OBVIOUS
  <2>2. /\ text \in Seq(Tokens)
        /\ Len(text) = IF s + 1 <= at - 2 THEN at - 2 - (s + 1) + 1 ELSE 0
        /\ \A k \in 1 .. at - 2 - (s + 1) + 1 : text[k] = input[s + 1 + k - 1]
    BY <2>1, SubSeqProperties
  <2> HIDE DEF text
  <2>3. \A k \in Nat : s + 1 + k - 1 = s + k
    OBVIOUS
  <2> QED
    BY <2>2, <2>3
<1> HIDE DEF text
<1>2. text = <<>> <=> at = s + 2
  BY <1>1
<1>3. text # <<>> => text[1] = input[s + 1]
  BY <1>1, <1>2
<1>4. ASSUME NEW t PROVE text = <<t>> <=> at = s + 3 /\ input[s + 1] = t
  <2>1. text = <<t>> => Len(text) = 1 /\ text[1] = t
    OBVIOUS
  <2>2. Len(text) = 1 => text = <<text[1]>>
    <3>1. ASSUME Len(text) = 1 PROVE text = <<text[1]>>
      <4> DEFINE u == <<text[1]>>
      <4>1. text[1] \in Tokens /\ text \in Seq(Tokens)
        <5>1. text \in Seq(Tokens)
          BY <1>1
        <5>2. 1 \in 1 .. Len(text)
          BY <3>1
        <5> QED
          BY <5>1, <5>2
      <4>2. u \in Seq(Tokens) /\ Len(u) = 1 /\ u[1] = text[1]
        BY <4>1
      <4> HIDE DEF u
      <4>3. \A k \in 1 .. Len(text) : text[k] = u[k]
        BY <3>1, <4>2
      <4>4. text = u
        BY <3>1, <4>1, <4>2, <4>3, SeqEqual
      <4> QED
        BY <4>4 DEF u
    <3> QED
      BY <3>1
  <2> QED
    BY <1>1, <2>1, <2>2
<1> QED
  BY <1>2, <1>3, <1>4 DEF text
-----------------------------------------------------------------------------
(* parse_line, from a place up to which it has scanned.                     *)
LineAt(w, s, c, n, line) ==
    \/ /\ line.status = "OPEN" /\ line.at \in c .. n
       /\ Free(w, s, line.at) /\ Stuck(w, line.at, n)
    \/ /\ line.status = "OK" /\ line.at \in c + 2 .. n
       /\ Lines(w, line.at) /\ Free(w, s, line.at - 2) /\ w[line.at - 1] = "CR"
    \/ /\ line.status = "BAD" /\ line.at \in c .. n - 1
       /\ Free(w, s, line.at) /\ BadAt(w, line.at, n)

LEMMA EndsOfLine ==
  ASSUME NEW c \in Nat, NEW n \in Nat,
         NEW ends, ends = {i \in c .. n - 1 : Char(i) \in {"CR", "LF"}}, ends # {}
  PROVE  Min(ends) \in ends /\ \A i \in ends : Min(ends) <= i
<1>1. IsFiniteSet(c .. n - 1) /\ ends \subseteq c .. n - 1 /\ ends \subseteq Nat
  BY FS_Interval
<1>2. IsFiniteSet(ends)
  BY <1>1, FS_Subset
<1> QED
  BY <1>1, <1>2, MinIs

LEMMA WholeGrows ==
  ASSUME NEW w, NEW s \in Nat, NEW at \in Nat, at >= s + 2,
         Lines(w, s), Free(w, s, at - 2), w[at - 1] = "CR", w[at] = "LF"
  PROVE  Lines(w, at)
<1>1. ASSUME NEW k \in 1 .. at
      PROVE  k \in 1 .. s \/ k \in s + 1 .. at - 2 \/ k = at - 1 \/ k = at
  OBVIOUS
<1>2. ASSUME NEW k \in 1 .. at, w[k] = "CR" PROVE k < at /\ w[k + 1] = "LF"
  BY <1>1, <1>2 DEF Lines, Free
<1>3. ASSUME NEW k \in 1 .. at, w[k] = "LF" PROVE k > 1 /\ w[k - 1] = "CR"
  BY <1>1, <1>3 DEF Lines, Free
<1> QED
  BY <1>2, <1>3 DEF Lines

LEMMA ParseLine ==
  ASSUME NEW p \in Parsers, Indices(p), input \in Seq(Tokens),
         Lines(input, p.start_line), Free(input, p.start_line, p.checked_idx)
  PROVE  LineAt(input, p.start_line, p.checked_idx, p.read_idx, parse_line(p))
<1> DEFINE s == p.start_line
           c == p.checked_idx
           n == p.read_idx
           ends == {i \in c .. n - 1 : Char(i) \in {"CR", "LF"}}
           i == Min(ends)
           line == parse_line(p)
<1>1. s \in Nat /\ c \in Nat /\ n \in Nat /\ Len(input) \in Nat /\ s <= c /\ c <= n /\ n <= Len(input)
  BY DEF Parsers, Indices
<1>2. line = IF ends = {} THEN [status |-> "OPEN", at |-> n]
             ELSE IF Char(i) = "CR" /\ i + 1 = n THEN [status |-> "OPEN", at |-> i]
             ELSE IF Char(i) = "CR" /\ Char(i + 1) = "LF" THEN [status |-> "OK", at |-> i + 2]
             ELSE IF Char(i) = "LF" /\ i > 1 /\ Char(i - 1) = "CR"
               THEN [status |-> "OK", at |-> i + 1]
             ELSE [status |-> "BAD", at |-> i]
  BY DEF parse_line
<1>3. Lines(input, s) /\ Free(input, s, c)
  OBVIOUS
<1> SUFFICES LineAt(input, s, c, n, line)
  OBVIOUS
<1> HIDE DEF line, s, c, n
<1>4. CASE ends = {}
  <2>1. line.status = "OPEN" /\ line.at = n
    BY <1>2, <1>4
  <2>2. ASSUME NEW k \in s + 1 .. n PROVE input[k] \notin {"CR", "LF"}
    <3>1. CASE k <= c
      BY <1>1, <1>3, <3>1 DEF Free
    <3>2. CASE k > c
      <4>1. k - 1 \in c .. n - 1 /\ k - 1 + 1 = k
        BY <1>1, <3>2
      <4> QED
        BY <4>1, <1>4 DEF Char
    <3> QED
      BY <1>1, <3>1, <3>2
  <2> QED
    BY <1>1, <2>1, <2>2 DEF LineAt, Free, Stuck
<1>5. CASE ends # {}
  <2>1. i \in ends /\ \A x \in ends : i <= x
    BY <1>1, <1>5, EndsOfLine
  <2>2. i \in c .. n - 1 /\ input[i + 1] \in {"CR", "LF"}
    BY <2>1 DEF Char
  <2>3. Free(input, s, i)
    <3>1. ASSUME NEW k \in s + 1 .. i PROVE input[k] \notin {"CR", "LF"}
      <4>1. CASE k <= c
        BY <1>1, <1>3, <2>2, <4>1 DEF Free
      <4>2. CASE k > c
        <5>1. k - 1 \in c .. n - 1 /\ k - 1 + 1 = k /\ ~(i <= k - 1)
          BY <1>1, <2>2, <4>2
        <5> QED
          BY <5>1, <2>1 DEF Char
      <4> QED
        BY <1>1, <2>2, <4>1, <4>2
    <3> QED
      BY <3>1 DEF Free
  <2> DEFINE m == i
  <2>4. line = IF input[m + 1] = "CR" /\ m + 1 = n THEN [status |-> "OPEN", at |-> m]
               ELSE IF input[m + 1] = "CR" /\ input[m + 1 + 1] = "LF" THEN [status |-> "OK", at |-> m + 2]
               ELSE IF input[m + 1] = "LF" /\ m > 1 /\ input[m - 1 + 1] = "CR"
                 THEN [status |-> "OK", at |-> m + 1]
               ELSE [status |-> "BAD", at |-> m]
    BY <1>2, <1>5 DEF Char
  <2>5. m \in c .. n - 1 /\ input[m + 1] \in {"CR", "LF"} /\ Free(input, s, m)
    BY <2>2, <2>3
  <2> HIDE DEF m, i, ends
  <2>6. m + 1 + 1 = m + 2 /\ m - 1 + 1 = m /\ m \in Nat /\ m >= s /\ m < n
    BY <2>5, <1>1
  <2>7. m = 0 \/ input[m] # "CR"
    <3>1. CASE m > s
      BY <1>1, <2>5, <2>6, <3>1 DEF Free
    <3>2. CASE m = s
      BY <1>1, <1>3, <2>6, <3>2 DEF Lines
    <3> QED
      BY <1>1, <2>6, <3>1, <3>2
  <2>8. CASE input[m + 1] = "CR" /\ m + 1 = n
    <3>1. line.status = "OPEN" /\ line.at = m
      BY <2>4, <2>8
    <3> QED
      BY <1>1, <2>5, <2>8, <3>1 DEF LineAt, Stuck
  <2>9. CASE input[m + 1] = "CR" /\ m + 1 # n /\ input[m + 2] = "LF"
    <3>1. line.status = "OK" /\ line.at = m + 2
      BY <2>4, <2>6, <2>9
    <3>2. m + 2 - 2 = m /\ m + 2 - 1 = m + 1 /\ m + 2 \in c + 2 .. n /\ m + 2 \in Nat /\ m + 2 >= s + 2
      BY <1>1, <2>5, <2>6, <2>9
    <3>3. Lines(input, m + 2)
      BY <1>1, <1>3, <2>5, <2>9, <3>2, WholeGrows
    <3> QED
      BY <2>5, <2>9, <3>1, <3>2, <3>3 DEF LineAt
  <2>10. CASE ~(input[m + 1] = "CR" /\ m + 1 = n) /\ ~(input[m + 1] = "CR" /\ input[m + 2] = "LF")
    <3>1. ~(input[m + 1] = "LF" /\ m > 1 /\ input[m - 1 + 1] = "CR")
      BY <2>6, <2>7
    <3>2. line.status = "BAD" /\ line.at = m
      BY <2>4, <2>6, <2>10, <3>1
    <3>3. BadAt(input, m, n)
      BY <1>1, <2>5, <2>6, <2>7, <2>10 DEF BadAt
    <3> QED
      BY <1>1, <2>5, <3>2, <3>3 DEF LineAt
  <2> QED
    BY <2>8, <2>9, <2>10
<1> QED
  BY <1>4, <1>5

(* Wherever it starts from, it moves forward and not past what was read.    *)
LEMMA ParseLineRange ==
  ASSUME NEW p \in Parsers, Indices(p), input \in Seq(Tokens)
  PROVE  parse_line(p).status \in {"OPEN", "OK", "BAD"}
         /\ parse_line(p).at \in p.checked_idx .. p.read_idx
<1> DEFINE c == p.checked_idx
           n == p.read_idx
           ends == {i \in c .. n - 1 : Char(i) \in {"CR", "LF"}}
           i == Min(ends)
<1>1. c \in Nat /\ n \in Nat /\ c <= n
  BY DEF Parsers, Indices
<1>2. parse_line(p) =
          IF ends = {} THEN [status |-> "OPEN", at |-> n]
          ELSE IF Char(i) = "CR" /\ i + 1 = n THEN [status |-> "OPEN", at |-> i]
          ELSE IF Char(i) = "CR" /\ Char(i + 1) = "LF" THEN [status |-> "OK", at |-> i + 2]
          ELSE IF Char(i) = "LF" /\ i > 1 /\ Char(i - 1) = "CR"
            THEN [status |-> "OK", at |-> i + 1]
          ELSE [status |-> "BAD", at |-> i]
  BY DEF parse_line
<1>3. ends # {} => i \in c .. n - 1
  BY <1>1, EndsOfLine
<1> HIDE DEF c, n, ends, i
<1>4. ends # {} => i \in Nat /\ i \in c .. n /\ (i + 1 # n => i + 2 \in c .. n) /\ i + 1 \in c .. n
  BY <1>1, <1>3
<1> QED
  BY <1>1, <1>2, <1>4 DEF c, n
-----------------------------------------------------------------------------
(* The reference, at the places where the parsers come to a verdict.        *)

LEMMA EndsBelow ==
  ASSUME NEW n \in Nat, NEW s \in 0 .. n, Lines(input, s)
  PROVE  /\ \A j \in Malformed(n) : j >= s
         /\ \A i \in 0 .. s - 1 : i \in Ends(n) <=> input[i + 1] = "CR"
         /\ Ends(n) \subseteq Nat
<1>1. ASSUME NEW j \in Malformed(n), j < s PROVE FALSE
  <2>1. /\ j \in 0 .. n - 1 /\ j + 1 \in 1 .. s /\ j + 1 + 1 = j + 2 /\ j - 1 + 1 = j
        /\ \/ input[j + 1] = "CR" /\ j + 1 < n /\ input[j + 1 + 1] # "LF"
           \/ input[j + 1] = "LF" /\ (j = 0 \/ input[j - 1 + 1] # "CR")
    BY <1>1 DEF Malformed, Char
  <2>2. input[j + 1] = "LF" => j + 1 > 1 /\ input[j + 1 - 1] = "CR"
    BY <2>1 DEF Lines
  <2>3. input[j + 1] = "CR" => input[j + 1 + 1] = "LF"
    BY <2>1 DEF Lines
  <2>4. j + 1 - 1 = j /\ j \in Nat
    BY <2>1
  <2> QED
    BY <2>1, <2>2, <2>3, <2>4
<1>2. \A j \in Malformed(n) : j >= s
  <2>1. \A j \in Malformed(n) : j \in Nat
    BY DEF Malformed
  <2> QED
    BY <1>1, <2>1
<1>3. ASSUME NEW i \in 0 .. s - 1 PROVE i \in Ends(n) <=> input[i + 1] = "CR"
  <2>1. i \in Ends(n) => input[i + 1] = "CR"
    BY DEF Ends, CRLFs, Char
  <2>2. ASSUME input[i + 1] = "CR" PROVE i \in Ends(n)
    <3>1. i + 1 \in 1 .. s
      OBVIOUS
    <3>2. i + 1 < s /\ input[i + 1 + 1] = "LF"
      BY <2>2, <3>1 DEF Lines
    <3>3. i \in 0 .. n - 2
      BY <3>2
    <3>4. i \in CRLFs(n)
      BY <2>2, <3>2, <3>3 DEF CRLFs, Char
    <3>5. \A j \in Malformed(n) : j \in Nat
      BY DEF Malformed
    <3>6. \A j \in Malformed(n) : i < j
      BY <1>2, <3>2, <3>5
    <3> QED
      BY <3>4, <3>6 DEF Ends
  <2> QED
    BY <2>1, <2>2
<1>4. Ends(n) \subseteq Nat
  BY DEF Ends, CRLFs
<1> QED
  BY <1>2, <1>3, <1>4

(* The lines that count before a place where parse_line waits or is stuck.  *)
LEMMA EndsAre ==
  ASSUME NEW n \in Nat, NEW s \in 0 .. n, NEW c \in s .. n, Lines(input, s), Free(input, s, c),
         Stuck(input, c, n) \/ BadAt(input, c, n)
  PROVE  /\ \A i \in Ends(n) : i \in 0 .. s - 1 /\ input[i + 1] = "CR"
         /\ Stuck(input, c, n) => Malformed(n) = {}
         /\ BadAt(input, c, n) => Malformed(n) # {}
<1>1. \A k \in s + 1 .. c : input[k] \notin {"CR", "LF"}
  BY DEF Free
<1>2. ASSUME BadAt(input, c, n) PROVE c \in Malformed(n)
  <2>1. c \in 0 .. n - 1 /\ c + 1 + 1 = c + 2 /\ c - 1 + 1 = c
    BY <1>2 DEF BadAt
  <2> QED
    BY <1>2, <2>1 DEF BadAt, Malformed, Char
<1>3. ASSUME NEW i \in Ends(n) PROVE i \in 0 .. s - 1 /\ input[i + 1] = "CR"
  <2>1. i \in 0 .. n - 2 /\ input[i + 1] = "CR" /\ input[i + 2] = "LF"
    <3>1. i \in 0 .. n - 2 /\ input[i + 1] = "CR" /\ input[i + 1 + 1] = "LF"
      BY DEF Ends, CRLFs, Char
    <3>2. i + 1 + 1 = i + 2
      BY <3>1
    <3> QED
      BY <3>1, <3>2
  <2>2. i < c
    <3>1. CASE Stuck(input, c, n)
      BY <2>1, <3>1 DEF Stuck
    <3>2. CASE BadAt(input, c, n)
      BY <1>2, <3>2 DEF Ends
    <3> QED
      BY <3>1, <3>2
  <2>3. ~(i >= s)
    <3>1. i >= s => i + 1 \in s + 1 .. c
      BY <2>1, <2>2
    <3> QED
      BY <1>1, <2>1, <3>1
  <2> QED
    BY <2>1, <2>3
<1>4. ASSUME Stuck(input, c, n), NEW j \in Malformed(n) PROVE FALSE
  <2>1. /\ j \in 0 .. n - 1 /\ j >= s
    BY EndsBelow DEF Malformed
  <2>2. \/ input[j + 1] = "CR" /\ j + 1 < n
        \/ input[j + 1] = "LF"
    BY DEF Malformed, Char
  <2>3. CASE j < c
    <3>1. j + 1 \in s + 1 .. c
      BY <2>1, <2>3
    <3> QED
      BY <1>1, <2>2, <3>1
  <2>4. CASE j >= c
    BY <1>4, <2>1, <2>2, <2>4 DEF Stuck
  <2> QED
    BY <2>1, <2>3, <2>4
<1> QED
  BY <1>2, <1>3, <1>4

LEMMA RightFirstIs ==
  ASSUME input \in Seq(Tokens), NEW n \in 0 .. Len(input), NEW s \in 0 .. n,
         Lines(input, s), RightFirst(input, s)
  PROVE  Ends(n) # {} /\ FirstLine(n) = <<"GET">>
<1>1. 1 \in 0 .. s - 1 /\ 0 \in 0 .. s - 1 /\ 1 + 1 = 2 /\ 0 + 1 = 1
  BY DEF RightFirst
<1>2. 1 \in Ends(n) /\ 0 \notin Ends(n) /\ Ends(n) \subseteq Nat
  BY <1>1, EndsBelow DEF RightFirst
<1>3. \A x \in Ends(n) : 1 <= x
  BY <1>2
<1>4. Min(Ends(n)) = 1
  BY <1>2, <1>3, MinOf
<1>5. 0 \in Nat /\ 3 \in 0 + 2 .. Len(input) /\ 3 - 2 = 1 /\ 0 + 1 = 1 /\ 0 + 3 = 3
  BY DEF RightFirst
<1>6. SubSeq(input, 0 + 1, 3 - 2) = <<"GET">>
  BY <1>5, TextIs DEF RightFirst
<1> QED
  BY <1>2, <1>4, <1>5, <1>6 DEF FirstLine

LEMMA WrongFirstIs ==
  ASSUME input \in Seq(Tokens), NEW n \in 0 .. Len(input), WrongFirst(input, n)
  PROVE  HeadOf(n) = "BAD_REQUEST"
<1>1. PICK at \in 2 .. n : /\ Lines(input, at) /\ Free(input, 0, at - 2) /\ input[at - 1] = "CR"
                           /\ SubSeq(input, 1, at - 2) # <<"GET">>
  BY DEF WrongFirst
<1>2. at \in 0 .. n /\ at - 2 \in 0 .. at - 1 /\ at - 2 + 1 = at - 1 /\ n \in Nat
  OBVIOUS
<1>3. at - 2 \in Ends(n) /\ Ends(n) \subseteq Nat
  BY <1>1, <1>2, EndsBelow
<1>4. ASSUME NEW i \in Ends(n), i < at - 2 PROVE FALSE
  <2>1. i \in 0 .. at - 1 /\ i + 1 \in 0 + 1 .. at - 2
    BY <1>2, <1>3, <1>4
  <2>2. input[i + 1] = "CR"
    BY <1>1, <1>2, <2>1, EndsBelow
  <2> QED
    BY <1>1, <2>1, <2>2 DEF Free
<1>5. \A i \in Ends(n) : at - 2 <= i
  BY <1>2, <1>3, <1>4
<1>6. Min(Ends(n)) = at - 2
  BY <1>3, <1>5, MinOf
<1> QED
  BY <1>1, <1>3, <1>6 DEF HeadOf, FirstLine

(* No line of the head has ended, or it goes on.                            *)
LEMMA OpenIs ==
  ASSUME input \in Seq(Tokens), NEW n \in 0 .. Len(input), NEW s \in 0 .. n, NEW c \in s .. n,
         Lines(input, s), Free(input, s, c),
         s = 0 \/ (RightFirst(input, s) /\ NoBlank(input, s))
  PROVE  /\ Stuck(input, c, n) => HeadOf(n) = "NO_REQUEST"
         /\ BadAt(input, c, n) => HeadOf(n) = "MALFORMED"
<1>1. SUFFICES ASSUME Stuck(input, c, n) \/ BadAt(input, c, n)
               PROVE  /\ Ends(n) # {} => FirstLine(n) = <<"GET">>
                      /\ Blank(n) = {}
  BY EndsAre DEF HeadOf
<1>2. \A i \in Ends(n) : i \in 0 .. s - 1 /\ input[i + 1] = "CR"
  BY <1>1, EndsAre
<1>3. CASE s = 0
  <2>1. Ends(n) = {}
    BY <1>2, <1>3
  <2> QED
    BY <2>1 DEF Blank
<1>4. CASE RightFirst(input, s) /\ NoBlank(input, s)
  <2>1. ASSUME NEW i \in Blank(n) PROVE FALSE
    <3>1. i \in Ends(n) /\ i - 2 \in Ends(n)
      BY DEF Blank
    <3>2. i \in 0 .. s - 1 /\ input[i + 1] = "CR" /\ i - 2 \in 0 .. s - 1 /\ input[i - 2 + 1] = "CR"
      BY <1>2, <3>1
    <3>3. i + 1 \in 3 .. s /\ i + 1 - 2 = i - 2 + 1
      BY <3>2
    <3> QED
      BY <1>4, <3>2, <3>3 DEF NoBlank
  <2> QED
    BY <1>4, <2>1, RightFirstIs
<1> QED
  BY <1>3, <1>4

LEMMA HeadIs ==
  ASSUME input \in Seq(Tokens), NEW n \in 0 .. Len(input), NEW b \in Nat, b + 2 <= n,
         HeadAt(input, b)
  PROVE  /\ HeadOf(n) = "GET_REQUEST" /\ Min(Blank(n)) = b
         /\ HasLength(n) <=> Lengthy(input, b)
         /\ KeepsAlive(n) <=> Lingers(input, b)
<1>1. /\ Lines(input, b) /\ Lines(input, b + 2) /\ RightFirst(input, b) /\ NoBlank(input, b)
      /\ input[b + 1] = "CR" /\ b >= 3 /\ n \in Nat
  BY DEF HeadAt, Header, RightFirst
<1>2. b \in 0 .. n /\ b + 2 \in 0 .. n
  BY <1>1
<1>3. Ends(n) # {} /\ FirstLine(n) = <<"GET">>
  BY <1>1, <1>2, RightFirstIs
<1>4. \A i \in 0 .. b + 1 : i \in Ends(n) <=> input[i + 1] = "CR"
  <2>1. b + 2 - 1 = b + 1
    OBVIOUS
  <2> QED
    BY <1>1, <1>2, <2>1, EndsBelow
<1>5. Ends(n) \subseteq Nat
  BY <1>1, <1>2, EndsBelow
<1>6. input[b] = "LF" /\ input[b - 1] = "CR"
  <2>1. b \in 1 .. b /\ b > 0
    BY <1>1
  <2> QED
    BY <1>1, <2>1 DEF Lines
<1>7. b \in Blank(n)
  <2>1. b \in 0 .. b + 1 /\ b - 2 \in 0 .. b + 1 /\ b - 2 + 1 = b - 1
    BY <1>1
  <2> QED
    BY <1>1, <1>4, <1>6, <2>1 DEF Blank
<1>8. ASSUME NEW i \in Blank(n), i < b PROVE FALSE
  <2>1. i \in Ends(n) /\ i - 2 \in Ends(n) /\ i \in Nat /\ i - 2 \in Nat
    BY <1>5 DEF Blank
  <2>2. i \in 0 .. b + 1 /\ i - 2 \in 0 .. b + 1
    BY <1>8, <2>1
  <2>3. input[i + 1] = "CR" /\ input[i - 2 + 1] = "CR"
    BY <1>4, <2>1, <2>2
  <2>4. i + 1 \in 3 .. b /\ i + 1 - 2 = i - 2 + 1
    BY <1>8, <2>1
  <2>5. \A k \in 3 .. b : input[k] = "CR" => input[k - 2] # "CR"
    BY <1>1 DEF NoBlank
  <2>6. input[i + 1 - 2] # "CR"
    BY <2>1, <2>3, <2>4, <2>5
  <2> QED
    BY <2>3, <2>4, <2>6
<1>9. Min(Blank(n)) = b
  <2>1. Blank(n) \subseteq Nat
    BY <1>5 DEF Blank
  <2>2. \A x \in Blank(n) : b <= x
    BY <1>8, <2>1
  <2> QED
    BY <1>7, <2>1, <2>2, MinOf
<1>10. HeadLines(n) = {i \in Ends(n) : i < b}
  BY <1>9 DEF HeadLines
<1>11. ASSUME NEW i \in HeadLines(n)
       PROVE  /\ i \in 0 .. b - 2 /\ i + 1 \in 1 .. b - 1 /\ input[i + 1] = "CR"
              /\ i + 1 + 2 = i + 2 + 1 /\ i + 1 + 3 = i + 3 + 1
  <2>1. i \in Ends(n) /\ i \in Nat /\ i < b
    BY <1>5, <1>10
  <2>2. i \in 0 .. b + 1
    BY <2>1
  <2>3. input[i + 1] = "CR"
    BY <1>4, <2>1, <2>2
  <2>4. i + 1 # b
    BY <1>6, <2>3
  <2> QED
    BY <2>1, <2>3, <2>4
<1>12. HasLength(n) => Lengthy(input, b)
  <2> SUFFICES ASSUME NEW i \in HeadLines(n), input[i + 2 + 1] = "length"
               PROVE  Lengthy(input, b)
    BY DEF HasLength, Char
  <2>1. i # b - 2
    <3>1. i = b - 2 => i + 2 + 1 = b + 1
      BY <1>11
    <3> QED
      BY <1>1, <3>1
  <2>2. i + 1 \in 1 .. b - 2
    BY <1>11, <2>1
  <2> QED
    BY <1>11, <2>2 DEF Lengthy
<1>13. Lengthy(input, b) => HasLength(n)
  <2> SUFFICES ASSUME NEW k \in 1 .. b - 2, input[k] = "CR", input[k + 2] = "length"
               PROVE  HasLength(n)
    BY DEF Lengthy
  <2>1. /\ k - 1 \in 0 .. b + 1 /\ k - 1 + 1 = k /\ k - 1 < b /\ k - 1 + 2 + 1 = k + 2
        /\ k - 1 + 2 < n
    OBVIOUS
  <2>2. k - 1 \in HeadLines(n)
    BY <1>4, <1>10, <2>1
  <2> QED
    BY <2>1, <2>2 DEF HasLength, Char
<1>14. KeepsAlive(n) => Lingers(input, b)
  <2> SUFFICES ASSUME NEW i \in HeadLines(n), i + 3 \in Ends(n), input[i + 2 + 1] = "keep-alive"
               PROVE  Lingers(input, b)
    BY DEF KeepsAlive, Is, Char
  <2>1. i # b - 2 /\ i # b - 3
    <3>1. i = b - 2 => i + 2 + 1 = b + 1
      BY <1>11
    <3>2. i = b - 3 => i + 2 + 1 = b
      BY <1>11
    <3> QED
      BY <1>1, <1>6, <3>1, <3>2
  <2>2. i + 1 \in 1 .. b - 3 /\ i + 3 \in 0 .. b + 1
    <3>1. i \in 0 .. b - 2
      BY <1>11
    <3> QED
      BY <2>1, <3>1
  <2>3. input[i + 3 + 1] = "CR"
    BY <1>4, <2>2
  <2> QED
    BY <1>11, <2>2, <2>3 DEF Lingers
<1>15. Lingers(input, b) => KeepsAlive(n)
  <2> SUFFICES ASSUME NEW k \in 1 .. b - 3, input[k] = "CR", input[k + 2] = "keep-alive",
                      input[k + 3] = "CR"
               PROVE  KeepsAlive(n)
    BY DEF Lingers
  <2>1. /\ k - 1 \in 0 .. b + 1 /\ k - 1 + 1 = k /\ k - 1 < b /\ k - 1 + 2 + 1 = k + 2
        /\ k - 1 + 3 \in 0 .. b + 1 /\ k - 1 + 3 + 1 = k + 3
    OBVIOUS
  <2>2. k - 1 \in HeadLines(n) /\ k - 1 + 3 \in Ends(n)
    BY <1>4, <1>10, <2>1
  <2> QED
    BY <2>1, <2>2 DEF KeepsAlive, Is, Char
<1>16. HeadOf(n) = "GET_REQUEST"
  BY <1>3, <1>7 DEF HeadOf
<1> QED
  BY <1>9, <1>12, <1>13, <1>14, <1>15, <1>16
-----------------------------------------------------------------------------
(* What a line that has ended adds to the lines before it.                  *)

LEMMA FirstLineEnds ==
  ASSUME input \in Seq(Tokens), NEW at \in 2 .. Len(input),
         Lines(input, at), Free(input, 0, at - 2), input[at - 1] = "CR",
         SubSeq(input, 1, at - 2) = <<"GET">>
  PROVE  Header(input, at) /\ ~Lengthy(input, at) /\ ~Lingers(input, at)
<1>1. 0 \in Nat /\ at \in 0 + 2 .. Len(input) /\ 0 + 1 = 1 /\ 0 + 3 = 3
  OBVIOUS
<1>2. at = 3 /\ input[1] = "GET"
  <2>1. SubSeq(input, 0 + 1, at - 2) = <<"GET">>
    BY <1>1
  <2>2. SubSeq(input, 0 + 1, at - 2) = <<"GET">> <=> at = 0 + 3 /\ input[0 + 1] = "GET"
    BY <1>1, TextIs
  <2> QED
    BY <1>1, <2>1, <2>2
<1>3. 3 - 1 = 2 /\ 3 - 2 = 1 /\ 3 - 3 = 0 /\ input[2] = "CR" /\ input[3] = "LF"
  BY <1>2 DEF Lines
<1>4. NoBlank(input, 3)
  BY <1>3 DEF NoBlank
<1>5. RightFirst(input, 3)
  BY <1>2, <1>3 DEF RightFirst
<1>6. ~Lengthy(input, 3) /\ ~Lingers(input, 3)
  BY <1>2, <1>3 DEF Lengthy, Lingers
<1> QED
  BY <1>2, <1>4, <1>5, <1>6 DEF Header

LEMMA EmptyLineEnds ==
  ASSUME NEW s \in Nat, Header(input, s), input[s + 2 - 1] = "CR", Lines(input, s + 2)
  PROVE  HeadAt(input, s)
<1>1. s + 2 - 1 = s + 1
  OBVIOUS
<1> QED
  BY <1>1 DEF HeadAt

LEMMA HeaderLineEnds ==
  ASSUME NEW s \in Nat, NEW at \in Nat, at >= s + 3,
         Header(input, s), Lines(input, at), Free(input, s, at - 2), input[at - 1] = "CR"
  PROVE  /\ Header(input, at)
         /\ Lingers(input, at) <=> \/ Lingers(input, s)
                                   \/ at = s + 3 /\ input[s + 1] = "keep-alive"
         /\ Lengthy(input, at) <=> Lengthy(input, s) \/ input[s + 1] = "length"
<1>1. /\ Lines(input, s) /\ RightFirst(input, s) /\ s >= 3
      /\ \A k \in 3 .. s : input[k] = "CR" => input[k - 2] # "CR"
      /\ \A k \in s + 1 .. at - 2 : input[k] \notin {"CR", "LF"}
  BY DEF Header, RightFirst, NoBlank, Free
<1>2. input[s] = "LF" /\ input[s - 1] = "CR" /\ input[at] = "LF"
  <2>1. s \in 1 .. s /\ s > 0 /\ at > 0
    BY <1>1
  <2> QED
    BY <1>1, <2>1 DEF Lines
<1>3. input[s - 2] # "CR"
  <2>1. input[s - 2] = "CR" => input[s - 2 + 1] = "LF"
    <3>1. s - 2 \in 1 .. s
      BY <1>1
    <3> QED
      BY <1>1, <3>1 DEF Lines
  <2>2. s - 2 + 1 = s - 1
    BY <1>1
  <2> QED
    BY <1>2, <2>1, <2>2
<1>4. ASSUME NEW k \in 1 .. at, input[k] = "CR" PROVE k <= s - 1 \/ k = at - 1
  <2>1. k <= s - 1 \/ k = s \/ k \in s + 1 .. at - 2 \/ k = at - 1 \/ k = at
    OBVIOUS
  <2> QED
    BY <1>1, <1>2, <1>4, <2>1
<1>5. NoBlank(input, at)
  <2>1. ASSUME NEW k \in 3 .. at, input[k] = "CR", input[k - 2] = "CR" PROVE FALSE
    <3>1. k <= s - 1 \/ k = at - 1
      BY <1>4, <2>1
    <3>2. CASE k <= s - 1
      <4>1. k \in 3 .. s
        BY <3>2
      <4> QED
        BY <1>1, <2>1, <4>1
    <3>3. CASE k = at - 1
      <4>1. k - 2 \in 1 .. at /\ ~(k - 2 = at - 1) /\ ~(k - 2 <= s - 1)
        BY <1>1, <3>3
      <4> QED
        BY <1>4, <2>1, <4>1
    <3> QED
      BY <3>1, <3>2, <3>3
  <2> QED
    BY <2>1 DEF NoBlank
<1>6. RightFirst(input, at)
  BY <1>1 DEF RightFirst
<1>7. Lengthy(input, at) => Lengthy(input, s) \/ input[s + 1] = "length"
  <2> SUFFICES ASSUME NEW k \in 1 .. at - 2, input[k] = "CR", input[k + 2] = "length"
               PROVE  Lengthy(input, s) \/ input[s + 1] = "length"
    BY DEF Lengthy
  <2>1. k <= s - 1
    BY <1>4
  <2>2. CASE k = s - 1
    <3>1. k + 2 = s + 1
      BY <1>1, <2>2
    <3> QED
      BY <3>1
  <2>3. CASE k < s - 1
    <3>1. k \in 1 .. s - 2
      BY <1>1, <2>3
    <3> QED
      BY <3>1 DEF Lengthy
  <2> QED
    BY <1>1, <2>1, <2>2, <2>3
<1>8. Lengthy(input, s) \/ input[s + 1] = "length" => Lengthy(input, at)
  <2>1. Lengthy(input, s) => Lengthy(input, at)
    BY <1>1 DEF Lengthy
  <2>2. s - 1 \in 1 .. at - 2 /\ s - 1 + 2 = s + 1
    BY <1>1
  <2>3. input[s + 1] = "length" => Lengthy(input, at)
    BY <1>2, <2>2 DEF Lengthy
  <2> QED
    BY <2>1, <2>3
<1>9. Lingers(input, at) => Lingers(input, s) \/ (at = s + 3 /\ input[s + 1] = "keep-alive")
  <2> SUFFICES ASSUME NEW k \in 1 .. at - 3, input[k] = "CR", input[k + 2] = "keep-alive",
                      input[k + 3] = "CR"
               PROVE  Lingers(input, s) \/ (at = s + 3 /\ input[s + 1] = "keep-alive")
    BY DEF Lingers
  <2>1. k <= s - 1
    BY <1>4
  <2>2. k + 3 <= s - 1 \/ k + 3 = at - 1
    <3>1. k + 3 \in 1 .. at
      OBVIOUS
    <3> QED
      BY <1>4, <3>1
  <2>3. CASE k = s - 1
    <3>1. k + 2 = s + 1 /\ at = s + 3
      BY <1>1, <2>2, <2>3
    <3> QED
      BY <3>1
  <2>4. CASE k = s - 2
    BY <1>3, <2>4
  <2>5. CASE k < s - 2
    <3>1. k \in 1 .. s - 3
      BY <1>1, <2>5
    <3> QED
      BY <3>1 DEF Lingers
  <2> QED
    BY <1>1, <2>1, <2>3, <2>4, <2>5
<1>10. Lingers(input, s) \/ (at = s + 3 /\ input[s + 1] = "keep-alive") => Lingers(input, at)
  <2>1. Lingers(input, s) => Lingers(input, at)
    BY <1>1 DEF Lingers
  <2>2. ASSUME at = s + 3, input[s + 1] = "keep-alive" PROVE Lingers(input, at)
    <3>1. s - 1 \in 1 .. at - 3 /\ s - 1 + 2 = s + 1 /\ s - 1 + 3 = at - 1
      BY <1>1, <2>2
    <3> QED
      BY <1>2, <2>2, <3>1 DEF Lingers
  <2> QED
    BY <2>1, <2>2
<1> QED
  BY <1>5, <1>6, <1>7, <1>8, <1>9, <1>10 DEF Header
-----------------------------------------------------------------------------
(* One turn of a loop.                                                      *)

LEMMA InputIs == TypeOK => input \in Seq(Tokens)
BY ParserAssumption DEF TypeOK

(* What the invariant says of a parser depends on these fields only.        *)
Same(p, q) ==
    /\ q.check_state = p.check_state /\ q.start_line = p.start_line
    /\ q.checked_idx = p.checked_idx /\ q.m_linger = p.m_linger
    /\ q.m_content_length = p.m_content_length /\ q.partial = p.partial

LEMMA GoesOn ==
  ASSUME NEW w, NEW g, NEW p, NEW q, Same(p, q), Going(w, g, p)
  PROVE  Going(w, g, q)
<1>1. InBody(w, g, p) => InBody(w, g, q)
  BY DEF Same, InBody, Noted
<1>2. Scanned(w, g, p) => Scanned(w, g, q)
  BY DEF Same, Scanned, Noted
<1> QED
  BY <1>1, <1>2 DEF Same, Going

(* More of the input, or the end.                                           *)
LEMMA ReadStep ==
  ASSUME ParseInv, ProgRecv \/ ConnRead
  PROVE  ParseInv'
<1> DEFINE p == parser
           q == parser'
<1>1. /\ p \in Parsers /\ Indices(p) /\ input \in Inputs /\ program \in {"prog", "conn"}
      /\ p.pc = "recv" /\ p.result = "NO_REQUEST" /\ Going(input, program, p)
      /\ input' = input /\ program' = program
  BY DEF ParseInv, ParseInvOf, TypeOK, ProgRecv, ConnRead, At
<1>2. CASE q = [p EXCEPT !.pc = "done", !.result = "CLOSED"]
  <2>1. q \in Parsers /\ q.pc = "done" /\ q.result = "CLOSED"
    BY <1>1, <1>2 DEF Parsers
  <2>2. q.start_line = p.start_line /\ q.checked_idx = p.checked_idx /\ q.read_idx = p.read_idx
    BY <1>1, <1>2 DEF Parsers
  <2>3. Indices(q)
    BY <1>1, <2>2 DEF Indices
  <2>4. ParseInvOf(input, program, q)
    BY <2>1 DEF ParseInvOf
  <2> QED
    BY <1>1, <2>1, <2>3, <2>4 DEF ParseInv, TypeOK, Indices
<1>3. ASSUME NEW n \in p.read_idx + 1 .. Len(input), n <= BufferSize,
             q = [p EXCEPT !.read_idx = n, !.pc = "parse"]
      PROVE  ParseInv'
  <2>1. p.read_idx \in Nat /\ Len(input) \in Nat
    BY <1>1, InputIs DEF Parsers, ParseInv
  <2>2. n \in Nat /\ n >= p.read_idx /\ n <= Len(input)
    BY <1>3, <2>1
  <2>3. q \in Parsers /\ q.pc = "parse" /\ q.result = "NO_REQUEST" /\ Same(p, q)
    BY <1>1, <1>3, <2>2 DEF Parsers, Same
  <2>4. q.start_line = p.start_line /\ q.checked_idx = p.checked_idx /\ q.read_idx = n
    BY <1>1, <1>3 DEF Parsers
  <2>5. Indices(q)
    BY <1>1, <1>3, <2>1, <2>2, <2>4, ParserAssumption DEF Indices, Parsers
  <2>6. Going(input, program, q)
    BY <1>1, <2>3, GoesOn
  <2>7. ParseInvOf(input, program, q)
    BY <2>3, <2>6 DEF ParseInvOf
  <2> QED
    BY <1>1, <2>3, <2>5, <2>7 DEF ParseInv, TypeOK, Indices
<1>4. CASE ProgRecv
  BY <1>2, <1>3, <1>4 DEF ProgRecv
<1>5. CASE ConnRead
  <2>1. PICK n \in p.read_idx + 1 .. Len(input) :
          q = IF n >= BufferSize THEN [p EXCEPT !.pc = "done", !.result = "CLOSED"]
              ELSE [p EXCEPT !.read_idx = n, !.pc = "parse"]
    BY <1>5 DEF ConnRead
  <2>2. CASE n >= BufferSize
    BY <1>2, <2>1, <2>2
  <2>3. CASE ~(n >= BufferSize)
    <3>1. n <= BufferSize
      <4>1. p.read_idx \in Nat /\ Len(input) \in Nat /\ BufferSize \in Nat
        BY <1>1, InputIs, ParserAssumption DEF Parsers, ParseInv
      <4> QED
        BY <2>3, <4>1
    <3> QED
      BY <1>3, <2>1, <2>3, <3>1
  <2> QED
    BY <2>2, <2>3
<1> QED
  BY <1>4, <1>5

LEMMA ScanIs ==
  ASSUME ParseInv, parser.pc = "parse", parser.check_state # "content"
  PROVE  /\ parser \in Parsers /\ Indices(parser) /\ input \in Inputs /\ program \in {"prog", "conn"}
         /\ input \in Seq(Tokens) /\ parser.result = "NO_REQUEST"
         /\ parser.start_line \in Nat /\ parser.checked_idx \in Nat /\ parser.read_idx \in 0 .. Len(input)
         /\ parser.start_line <= parser.checked_idx /\ parser.checked_idx <= parser.read_idx
         /\ Len(input) \in Nat /\ parser.read_idx <= BufferSize
         /\ Scanned(input, program, parser)
         /\ LineAt(input, parser.start_line, parser.checked_idx, parser.read_idx, parse_line(parser))
<1>1. /\ parser \in Parsers /\ Indices(parser) /\ input \in Inputs /\ program \in {"prog", "conn"}
      /\ parser.result = "NO_REQUEST" /\ Scanned(input, program, parser)
  BY DEF ParseInv, ParseInvOf, TypeOK, Going
<1>2. input \in Seq(Tokens)
  BY InputIs DEF ParseInv
<1>3. /\ parser.start_line \in Nat /\ parser.checked_idx \in Nat /\ parser.read_idx \in Nat
      /\ Len(input) \in Nat
      /\ parser.start_line <= parser.checked_idx /\ parser.checked_idx <= parser.read_idx
      /\ parser.read_idx <= Len(input) /\ parser.read_idx <= BufferSize
  BY <1>1, <1>2 DEF Parsers, Indices
<1>4. Lines(input, parser.start_line) /\ Free(input, parser.start_line, parser.checked_idx)
  BY <1>1 DEF Scanned
<1>5. LineAt(input, parser.start_line, parser.checked_idx, parser.read_idx, parse_line(parser))
  BY <1>1, <1>2, <1>4, ParseLine
<1> QED
  BY <1>1, <1>2, <1>3, <1>5

(* The line is not complete, or malformed.                                  *)
LEMMA StopsStep ==
  ASSUME ParseInv, parser.pc = "parse", parser.check_state # "content",
         NEW line, line = parse_line(parser), line.status # "OK",
         NEW r \in {"NO_REQUEST", "BAD_REQUEST"},
         r = "BAD_REQUEST" <=> program = "prog" /\ line.status = "BAD",
         parser' = Return([parser EXCEPT !.checked_idx = line.at], r),
         UNCHANGED <<input, program>>
  PROVE  ParseInv'
<1> DEFINE p == parser
           q == parser'
           s == p.start_line
           n == p.read_idx
           at == line.at
<1>1. /\ p \in Parsers /\ input \in Inputs /\ program \in {"prog", "conn"}
      /\ p.start_line \in Nat /\ p.checked_idx \in Nat /\ p.read_idx \in 0 .. Len(input)
      /\ p.start_line <= p.checked_idx /\ p.checked_idx <= p.read_idx
      /\ Len(input) \in Nat /\ p.read_idx <= BufferSize /\ BufferSize \in Nat
      /\ Scanned(input, program, p)
  BY ScanIs, ParserAssumption
<1>2. \/ line.status = "OPEN" /\ at \in p.checked_idx .. n /\ Free(input, s, at) /\ Stuck(input, at, n)
      \/ line.status = "BAD" /\ at \in p.checked_idx .. n - 1 /\ Free(input, s, at) /\ BadAt(input, at, n)
  BY ScanIs DEF LineAt
<1>3. at \in Nat /\ at >= s /\ at <= n /\ Free(input, s, at)
  BY <1>1, <1>2
<1>4. q = [[p EXCEPT !.checked_idx = at]
             EXCEPT !.pc = IF r = "NO_REQUEST" THEN "recv" ELSE "done", !.result = r]
  BY DEF Return
<1>5. /\ q \in Parsers /\ q.checked_idx = at /\ q.start_line = s /\ q.read_idx = n /\ q.result = r
      /\ q.pc = (IF r = "NO_REQUEST" THEN "recv" ELSE "done")
      /\ q.check_state = p.check_state /\ q.m_linger = p.m_linger
      /\ q.m_content_length = p.m_content_length
  BY <1>1, <1>3, <1>4 DEF Parsers
<1>6. Indices(q)
  BY <1>1, <1>3, <1>5 DEF Indices
<1>7. Scanned(input, program, q)
  BY <1>1, <1>3, <1>5 DEF Scanned, Noted
<1>8. CASE r = "NO_REQUEST"
  <2>1. Going(input, program, q)
    BY <1>5, <1>7 DEF Going
  <2>2. Waits(input, program, q)
    BY <1>1, <1>2, <1>5, <1>8 DEF Waits
  <2> QED
    BY <1>1, <1>5, <1>6, <1>8, <2>1, <2>2 DEF ParseInv, ParseInvOf, TypeOK, Indices
<1>9. CASE r = "BAD_REQUEST"
  <2>1. Refused(input, program, q)
    BY <1>2, <1>5, <1>7, <1>9 DEF Refused
  <2> QED
    BY <1>1, <1>5, <1>6, <1>9, <2>1 DEF ParseInv, ParseInvOf, TypeOK, Indices
<1> QED
  BY <1>8, <1>9

(* A line has ended: where the parser goes on.                              *)
LEMMA LineEnds ==
  ASSUME ParseInv, parser.pc = "parse", parser.check_state # "content",
         NEW line, line = parse_line(parser), line.status = "OK",
         NEW p, p = [parser EXCEPT !.checked_idx = line.at, !.start_line = line.at]
  PROVE  /\ p \in Parsers /\ Indices(p) /\ p.pc = "parse" /\ p.result = "NO_REQUEST"
         /\ p.start_line = line.at /\ p.checked_idx = line.at /\ p.read_idx = parser.read_idx
         /\ p.check_state = parser.check_state /\ p.m_linger = parser.m_linger
         /\ p.m_content_length = parser.m_content_length
         /\ line.at \in parser.start_line + 2 .. Len(input) /\ line.at \in 2 .. parser.read_idx
         /\ line.at \in Nat /\ line.at >= parser.start_line + 2
         /\ Lines(input, line.at) /\ input[line.at - 1] = "CR"
         /\ Free(input, parser.start_line, line.at - 2) /\ Free(input, line.at, line.at)
<1>1. /\ parser \in Parsers /\ parser.result = "NO_REQUEST"
      /\ parser.start_line \in Nat /\ parser.checked_idx \in Nat /\ parser.read_idx \in 0 .. Len(input)
      /\ parser.start_line <= parser.checked_idx /\ parser.checked_idx <= parser.read_idx
      /\ Len(input) \in Nat /\ parser.read_idx <= BufferSize /\ BufferSize \in Nat
  BY ScanIs, ParserAssumption
<1>2. /\ line.at \in parser.checked_idx + 2 .. parser.read_idx
      /\ Lines(input, line.at) /\ Free(input, parser.start_line, line.at - 2)
      /\ input[line.at - 1] = "CR"
  BY ScanIs DEF LineAt
<1>3. line.at \in Nat /\ line.at >= parser.start_line + 2 /\ line.at <= parser.read_idx
  BY <1>1, <1>2
<1>4. /\ p \in Parsers /\ p.pc = "parse" /\ p.result = "NO_REQUEST"
      /\ p.start_line = line.at /\ p.checked_idx = line.at /\ p.read_idx = parser.read_idx
      /\ p.check_state = parser.check_state /\ p.m_linger = parser.m_linger
      /\ p.m_content_length = parser.m_content_length
  BY <1>1, <1>3 DEF Parsers
<1>5. Indices(p)
  BY <1>1, <1>3, <1>4 DEF Indices
<1>6. Free(input, line.at, line.at)
  BY <1>3 DEF Free
<1> QED
  BY <1>1, <1>2, <1>3, <1>4, <1>5, <1>6

(* The invariant of a parser that goes on, and of one that is done.         *)
LEMMA StillParsing ==
  ASSUME ParseInv, NEW q, parser' = q, q \in Parsers, Indices(q), UNCHANGED <<input, program>>,
         q.pc = "parse", q.result = "NO_REQUEST", Going(input, program, q)
  PROVE  ParseInv'
BY DEF ParseInv, ParseInvOf, TypeOK, Indices

LEMMA NowDone ==
  ASSUME ParseInv, NEW p \in Parsers, Indices(p), UNCHANGED <<input, program>>,
         NEW r \in {"BAD_REQUEST", "GET_REQUEST"}, parser' = Return(p, r),
         r = "BAD_REQUEST" => WrongFirst(input, p.read_idx),
         r = "GET_REQUEST" => Complete(input, program, p)
  PROVE  ParseInv'
<1>1. parser' = [p EXCEPT !.pc = "done", !.result = r]
  BY DEF Return
<1>2. /\ parser' \in Parsers /\ parser'.pc = "done" /\ parser'.result = r
      /\ parser'.start_line = p.start_line /\ parser'.checked_idx = p.checked_idx
      /\ parser'.read_idx = p.read_idx /\ parser'.m_linger = p.m_linger
      /\ parser'.m_content_length = p.m_content_length
  BY <1>1 DEF Parsers
<1>3. Indices(parser')
  BY <1>2 DEF Indices
<1>4. r = "BAD_REQUEST" => Refused(input, program, parser')
  BY <1>2 DEF Refused
<1>5. r = "GET_REQUEST" => Complete(input, program, parser')
  BY <1>2 DEF Complete, Noted
<1> QED
  BY <1>2, <1>3, <1>4, <1>5 DEF ParseInv, ParseInvOf, TypeOK, Indices

LEMMA RequestLineStep ==
  ASSUME ParseInv, parser.pc = "parse", parser.check_state = "requestline",
         NEW line, line = parse_line(parser), line.status = "OK",
         NEW p, p = [parser EXCEPT !.checked_idx = line.at, !.start_line = line.at],
         parser' = parse_request_line(p, get_line(parser, line.at)),
         UNCHANGED <<input, program>>
  PROVE  ParseInv'
<1> DEFINE text == get_line(parser, line.at)
           q == [p EXCEPT !.check_state = "header"]
<1>1. /\ parser.start_line = 0 /\ ~parser.m_linger /\ parser.m_content_length = 0
      /\ input \in Seq(Tokens)
  BY ScanIs DEF Scanned
<1>2. /\ p \in Parsers /\ Indices(p) /\ p.pc = "parse" /\ p.result = "NO_REQUEST"
      /\ p.start_line = line.at /\ p.checked_idx = line.at /\ p.read_idx = parser.read_idx
      /\ p.m_linger = parser.m_linger /\ p.m_content_length = parser.m_content_length
      /\ line.at \in 2 .. Len(input) /\ line.at \in 2 .. parser.read_idx
      /\ Lines(input, line.at) /\ input[line.at - 1] = "CR"
      /\ Free(input, 0, line.at - 2) /\ Free(input, line.at, line.at)
  <2>1. /\ p \in Parsers /\ Indices(p) /\ p.pc = "parse" /\ p.result = "NO_REQUEST"
        /\ p.start_line = line.at /\ p.checked_idx = line.at /\ p.read_idx = parser.read_idx
        /\ p.m_linger = parser.m_linger /\ p.m_content_length = parser.m_content_length
        /\ line.at \in parser.start_line + 2 .. Len(input) /\ line.at \in 2 .. parser.read_idx
        /\ Lines(input, line.at) /\ input[line.at - 1] = "CR"
        /\ Free(input, parser.start_line, line.at - 2) /\ Free(input, line.at, line.at)
    BY LineEnds, ZenonT(60)
  <2>2. 0 + 2 = 2
    OBVIOUS
  <2> QED
    BY <1>1, <2>1, <2>2
<1>3. text = SubSeq(input, 1, line.at - 2)
  BY <1>1 DEF get_line
<1> HIDE DEF text
<1>4. CASE text = <<"GET">>
  <2>1. parser' = q
    BY <1>4 DEF parse_request_line, text
  <2>2. /\ q \in Parsers /\ q.pc = "parse" /\ q.result = "NO_REQUEST" /\ q.check_state = "header"
        /\ q.start_line = line.at /\ q.checked_idx = line.at /\ q.read_idx = p.read_idx
        /\ q.m_linger = parser.m_linger /\ q.m_content_length = 0
    <3>1. p \in Parsers
      BY <1>2
    <3>2. /\ q \in Parsers /\ q.pc = p.pc /\ q.result = p.result /\ q.check_state = "header"
          /\ q.start_line = p.start_line /\ q.checked_idx = p.checked_idx /\ q.read_idx = p.read_idx
          /\ q.m_linger = p.m_linger /\ q.m_content_length = p.m_content_length
      BY <3>1, ZenonT(60) DEF Parsers
    <3> HIDE DEF q
    <3> QED
      BY <1>1, <1>2, <3>2
  <2>3. Indices(q)
    BY <1>2, <2>2 DEF Indices
  <2>4. Header(input, line.at) /\ ~Lengthy(input, line.at) /\ ~Lingers(input, line.at)
    BY <1>1, <1>2, <1>3, <1>4, FirstLineEnds
  <2>5. Noted(input, line.at, q)
    BY <1>1, <2>2, <2>4 DEF Noted
  <2> HIDE DEF q
  <2>6. Scanned(input, program, q)
    BY <1>2, <2>2, <2>4, <2>5 DEF Scanned
  <2>7. Going(input, program, q)
    BY <2>2, <2>6 DEF Going
  <2> QED
    BY <2>1, <2>2, <2>3, <2>7, StillParsing
<1>5. CASE text # <<"GET">>
  <2>1. parser' = Return(p, "BAD_REQUEST")
    BY <1>5 DEF parse_request_line, text
  <2>2. WrongFirst(input, p.read_idx)
    BY <1>2, <1>3, <1>5 DEF WrongFirst
  <2> QED
    BY <1>2, <2>1, <2>2, NowDone
<1> QED
  BY <1>4, <1>5

(* An empty line ends the head.                                             *)
LEMMA HeaderLineIs ==
  ASSUME ParseInv, parser.pc = "parse", parser.check_state = "header",
         NEW line, line = parse_line(parser), line.status = "OK"
  PROVE  LET s == parser.start_line
             text == get_line(parser, line.at)
         IN  /\ text = <<>> => HeadAt(input, s) /\ line.at = s + 2 /\ s \in 0 .. Len(input)
             /\ text # <<>> =>
                  /\ Header(input, line.at)
                  /\ Lingers(input, line.at) <=> Lingers(input, s) \/ text = <<"keep-alive">>
                  /\ Lengthy(input, line.at) <=> Lengthy(input, s) \/ text[1] = "length"
             /\ text = <<"keep-alive">> => text[1] = "keep-alive"
             /\ program = "conn" => Noted(input, s, parser)
<1> DEFINE s == parser.start_line
           text == get_line(parser, line.at)
           at == line.at
<1>1. /\ Header(input, s) /\ program = "conn" => Noted(input, s, parser)
      /\ input \in Seq(Tokens) /\ s \in Nat /\ Len(input) \in Nat
  BY ScanIs DEF Scanned
<1>2. Header(input, s)
  BY ScanIs DEF Scanned
<1>3. /\ at \in s + 2 .. Len(input) /\ at \in Nat /\ at >= s + 2
      /\ Lines(input, at) /\ input[at - 1] = "CR" /\ Free(input, s, at - 2)
  BY LineEnds
<1>4. /\ text = <<>> <=> at = s + 2
      /\ text = <<"keep-alive">> <=> at = s + 3 /\ input[s + 1] = "keep-alive"
      /\ text # <<>> => text[1] = input[s + 1]
  BY <1>1, <1>3, TextIs DEF get_line
<1> HIDE DEF text, at, s
<1>5. ASSUME text = <<>> PROVE HeadAt(input, s) /\ at = s + 2 /\ s \in 0 .. Len(input)
  <2>1. at = s + 2 /\ s \in 0 .. Len(input) /\ s + 2 - 1 = s + 1
    BY <1>1, <1>3, <1>4, <1>5
  <2>2. HeadAt(input, s)
    BY <1>1, <1>2, <1>3, <2>1, EmptyLineEnds
  <2> QED
    BY <2>1, <2>2
<1>6. ASSUME text # <<>>
      PROVE  /\ Header(input, at)
             /\ Lingers(input, at) <=> Lingers(input, s) \/ text = <<"keep-alive">>
             /\ Lengthy(input, at) <=> Lengthy(input, s) \/ text[1] = "length"
  <2>1. at >= s + 3
    BY <1>1, <1>3, <1>4, <1>6
  <2>2. /\ Header(input, at)
        /\ Lingers(input, at) <=> \/ Lingers(input, s)
                                  \/ at = s + 3 /\ input[s + 1] = "keep-alive"
        /\ Lengthy(input, at) <=> Lengthy(input, s) \/ input[s + 1] = "length"
    BY <1>1, <1>2, <1>3, <2>1, HeaderLineEnds
  <2> QED
    BY <1>4, <1>6, <2>2
<1>7. program = "conn" => Noted(input, s, parser)
  BY ScanIs DEF Scanned, s
<1>8. text = <<"keep-alive">> => text[1] = "keep-alive"
  OBVIOUS
<1> QED
  BY <1>5, <1>6, <1>7, <1>8 DEF text, at, s

LEMMA ProgHeaderStep ==
  ASSUME ParseInv, parser.pc = "parse", parser.check_state = "header", program = "prog",
         NEW line, line = parse_line(parser), line.status = "OK",
         NEW p, p = [parser EXCEPT !.checked_idx = line.at, !.start_line = line.at],
         parser' = prog_parse_headers(p, get_line(parser, line.at)),
         UNCHANGED <<input, program>>
  PROVE  ParseInv'
<1> DEFINE s == parser.start_line
           text == get_line(parser, line.at)
<1>1. /\ text = <<>> => HeadAt(input, s) /\ line.at = s + 2 /\ s \in 0 .. Len(input)
      /\ text # <<>> => Header(input, line.at)
  BY HeaderLineIs
<1>2. /\ p \in Parsers /\ Indices(p) /\ p.pc = "parse" /\ p.result = "NO_REQUEST"
      /\ p.start_line = line.at /\ p.checked_idx = line.at /\ p.read_idx = parser.read_idx
      /\ p.check_state = "header" /\ line.at \in 2 .. parser.read_idx
      /\ Lines(input, line.at) /\ Free(input, line.at, line.at)
  BY LineEnds, ZenonT(60)
<1> HIDE DEF text
<1>3. CASE text = <<>>
  <2>1. Complete(input, program, p)
    BY <1>1, <1>2, <1>3 DEF Complete
  <2> QED
    BY <1>2, <1>3, <2>1, NowDone DEF prog_parse_headers, text
<1>4. CASE text # <<>>
  <2>1. parser' = p
    BY <1>4 DEF prog_parse_headers, text
  <2>2. Going(input, program, p)
    BY <1>1, <1>2, <1>4 DEF Going, Scanned
  <2> QED
    BY <1>2, <2>1, <2>2, StillParsing
<1> QED
  BY <1>3, <1>4

LEMMA ToContent ==
  ASSUME NEW p \in Parsers, NEW q, q = [p EXCEPT !.check_state = "content"]
  PROVE  /\ q \in Parsers /\ q.check_state = "content" /\ q.pc = p.pc /\ q.result = p.result
         /\ q.start_line = p.start_line /\ q.checked_idx = p.checked_idx /\ q.read_idx = p.read_idx
         /\ q.m_linger = p.m_linger /\ q.m_content_length = p.m_content_length
  BY DEF Parsers

LEMMA ConnHeaderStep ==
  ASSUME ParseInv, parser.pc = "parse", parser.check_state = "header", program = "conn",
         NEW line, line = parse_line(parser), line.status = "OK",
         NEW p, p = [parser EXCEPT !.checked_idx = line.at, !.start_line = line.at],
         parser' = parse_headers(p, get_line(parser, line.at)),
         UNCHANGED <<input, program>>
  PROVE  ParseInv'
<1> DEFINE s == parser.start_line
           text == get_line(parser, line.at)
           q == parser'
<1>1. /\ text = <<>> => HeadAt(input, s) /\ line.at = s + 2 /\ s \in 0 .. Len(input)
      /\ text # <<>> =>
           /\ Header(input, line.at)
           /\ Lingers(input, line.at) <=> Lingers(input, s) \/ text = <<"keep-alive">>
           /\ Lengthy(input, line.at) <=> Lengthy(input, s) \/ text[1] = "length"
      /\ text = <<"keep-alive">> => text[1] = "keep-alive"
  BY HeaderLineIs
<1>2. /\ p \in Parsers /\ Indices(p) /\ p.pc = "parse" /\ p.result = "NO_REQUEST"
      /\ p.start_line = line.at /\ p.checked_idx = line.at /\ p.read_idx = parser.read_idx
      /\ p.m_linger = parser.m_linger /\ p.m_content_length = parser.m_content_length
      /\ p.check_state = "header" /\ line.at \in 2 .. parser.read_idx
      /\ Lines(input, line.at) /\ Free(input, line.at, line.at)
  BY LineEnds, ZenonT(60)
<1>3. Noted(input, s, parser)
  BY HeaderLineIs
<1>4. Noted(input, s, p)
  BY <1>2, <1>3 DEF Noted
<1>5. p.m_linger \in BOOLEAN /\ p.m_content_length \in {0, ContentLength} /\ ContentLength # 0
  BY <1>2, ParserAssumption DEF Parsers
<1>6. /\ text = <<>> => q = IF p.m_content_length # 0 THEN [p EXCEPT !.check_state = "content"]
                            ELSE Return(p, "GET_REQUEST")
      /\ text = <<"keep-alive">> => q = [p EXCEPT !.m_linger = TRUE]
      /\ text # <<>> /\ text # <<"keep-alive">> /\ text[1] = "length" =>
           q = [p EXCEPT !.m_content_length = ContentLength]
      /\ text # <<>> /\ text # <<"keep-alive">> /\ text[1] # "length" => q = p
  <2>1. <<"keep-alive">> # <<>>
    OBVIOUS
  <2> QED
    BY <2>1 DEF parse_headers
<1> HIDE DEF text, q
<1>7. CASE text = <<>> /\ p.m_content_length # 0
  <2>1. q = [p EXCEPT !.check_state = "content"]
    BY <1>6, <1>7
  <2>2. /\ q \in Parsers /\ q.pc = "parse" /\ q.result = "NO_REQUEST" /\ q.check_state = "content"
        /\ q.start_line = line.at /\ q.checked_idx = line.at /\ q.read_idx = p.read_idx
        /\ q.m_linger = p.m_linger /\ q.m_content_length = p.m_content_length
    <3>1. p \in Parsers
      BY <1>2
    <3>2. /\ q \in Parsers /\ q.check_state = "content" /\ q.pc = p.pc /\ q.result = p.result
          /\ q.start_line = p.start_line /\ q.checked_idx = p.checked_idx /\ q.read_idx = p.read_idx
          /\ q.m_linger = p.m_linger /\ q.m_content_length = p.m_content_length
      BY <2>1, <3>1, ToContent, ZenonT(60)
    <3> QED
      BY <1>2, <3>2
  <2>3. Indices(q)
    BY <1>2, <2>2 DEF Indices
  <2>4. HeadAt(input, s) /\ Noted(input, s, q) /\ s + 2 = q.checked_idx /\ s \in 0 .. Len(input)
    BY <1>1, <1>4, <1>7, <2>2 DEF Noted
  <2>5. q.m_content_length = ContentLength /\ s + 2 <= q.checked_idx
    BY <1>2, <1>5, <1>7, <2>2, <2>4
  <2>6. InBody(input, program, q)
    BY <2>4, <2>5 DEF InBody
  <2> QED
    BY <2>2, <2>3, <2>6, StillParsing DEF Going, q
<1>8. CASE text = <<>> /\ p.m_content_length = 0
  <2>1. q = Return(p, "GET_REQUEST")
    BY <1>6, <1>8
  <2>2. Complete(input, program, p)
    BY <1>1, <1>2, <1>4, <1>8 DEF Complete
  <2> QED
    BY <1>2, <2>1, <2>2, NowDone DEF q
<1>9. ASSUME text # <<>>, q \in Parsers, Noted(input, line.at, q), q.pc = "parse",
             q.result = "NO_REQUEST", q.check_state = "header", q.start_line = line.at,
             q.checked_idx = line.at, q.read_idx = p.read_idx
      PROVE  ParseInv'
  <2>1. Indices(q)
    BY <1>2, <1>9 DEF Indices
  <2>2. Scanned(input, program, q)
    BY <1>1, <1>2, <1>9 DEF Scanned
  <2> QED
    BY <1>9, <2>1, <2>2, StillParsing DEF Going, q
<1>10. CASE text = <<"keep-alive">>
  <2>1. text # <<>> /\ q = [p EXCEPT !.m_linger = TRUE]
    BY <1>6, <1>10
  <2>2. /\ q \in Parsers /\ q.pc = "parse" /\ q.result = "NO_REQUEST" /\ q.check_state = "header"
        /\ q.start_line = line.at /\ q.checked_idx = line.at /\ q.read_idx = p.read_idx
        /\ q.m_linger = TRUE /\ q.m_content_length = p.m_content_length
    BY <1>2, <2>1, ZenonT(60) DEF Parsers
  <2>3. Noted(input, line.at, q)
    BY <1>1, <1>4, <1>10, <2>1, <2>2 DEF Noted
  <2> QED
    BY <1>9, <2>1, <2>2, <2>3
<1>11. CASE text # <<>> /\ text # <<"keep-alive">> /\ text[1] = "length"
  <2>1. q = [p EXCEPT !.m_content_length = ContentLength]
    BY <1>6, <1>11
  <2>2. /\ q \in Parsers /\ q.pc = "parse" /\ q.result = "NO_REQUEST" /\ q.check_state = "header"
        /\ q.start_line = line.at /\ q.checked_idx = line.at /\ q.read_idx = p.read_idx
        /\ q.m_linger = p.m_linger /\ q.m_content_length = ContentLength
    BY <1>2, <2>1, ZenonT(60) DEF Parsers
  <2>3. Noted(input, line.at, q)
    BY <1>1, <1>4, <1>5, <1>11, <2>2 DEF Noted
  <2> QED
    BY <1>9, <1>11, <2>2, <2>3
<1>12. CASE text # <<>> /\ text # <<"keep-alive">> /\ text[1] # "length"
  <2>1. q = p
    BY <1>6, <1>12
  <2>2. Noted(input, line.at, q)
    BY <1>1, <1>4, <1>12, <2>1 DEF Noted
  <2> QED
    BY <1>2, <1>9, <1>12, <2>1, <2>2
<1> QED
  BY <1>7, <1>8, <1>10, <1>11, <1>12

(* The body: what parse_line finds in it moves m_checked_idx, never back.   *)
LEMMA BodyStep ==
  ASSUME ParseInv, parser.pc = "parse", parser.check_state = "content",
         parser' = parse_content(parser), UNCHANGED <<input, program>>
  PROVE  ParseInv'
<1> DEFINE p == parser
           line == parse_line(p)
           done == [p EXCEPT !.start_line = p.checked_idx]
           q == [p EXCEPT !.start_line = p.checked_idx, !.checked_idx = line.at, !.partial = TRUE]
           w == [q EXCEPT !.pc = "recv", !.result = "NO_REQUEST"]
<1>1. /\ p \in Parsers /\ Indices(p) /\ input \in Inputs /\ program \in {"prog", "conn"}
      /\ p.result = "NO_REQUEST" /\ InBody(input, program, p)
  BY DEF ParseInv, ParseInvOf, TypeOK, Going
<1>2. input \in Seq(Tokens) /\ Len(input) \in Nat
  BY InputIs DEF ParseInv
<1>3. /\ p.checked_idx \in Nat /\ p.read_idx \in Nat /\ p.start_line \in Nat
      /\ p.checked_idx <= p.read_idx /\ p.read_idx <= Len(input) /\ p.read_idx <= BufferSize
      /\ p.m_content_length = ContentLength /\ program = "conn" /\ ContentLength \in Nat
      /\ BufferSize \in Nat
  BY <1>1, <1>2, ParserAssumption DEF Parsers, Indices, InBody
<1>4. PICK b \in 0 .. Len(input) : HeadAt(input, b) /\ Noted(input, b, p) /\ b + 2 <= p.checked_idx
  BY <1>1 DEF InBody
<1>5. line.status \in {"OPEN", "OK", "BAD"} /\ line.at \in p.checked_idx .. p.read_idx
  BY <1>1, <1>2, ParseLineRange
<1>6. line.at \in Nat /\ line.at >= p.checked_idx /\ line.at <= p.read_idx /\ b \in Nat
  BY <1>3, <1>5
<1>7. parser' = IF p.read_idx >= p.m_content_length + p.checked_idx THEN Return(done, "GET_REQUEST")
                ELSE IF line.status = "OK" THEN q
                ELSE Return(q, "NO_REQUEST")
  BY DEF parse_content
<1> HIDE DEF line
<1>8. CASE p.read_idx >= p.m_content_length + p.checked_idx
  <2>1. parser' = Return(done, "GET_REQUEST")
    BY <1>7, <1>8
  <2>2. /\ done \in Parsers /\ done.start_line = p.checked_idx /\ done.checked_idx = p.checked_idx
        /\ done.read_idx = p.read_idx
        /\ done.m_linger = p.m_linger /\ done.m_content_length = p.m_content_length
    BY <1>1, <1>3 DEF Parsers
  <2> HIDE DEF done
  <2>3. Indices(done)
    BY <1>3, <2>2 DEF Indices
  <2>4. Noted(input, b, done)
    BY <1>4, <2>2 DEF Noted
  <2>5. b + 2 <= done.read_idx /\ done.read_idx >= b + 2 + ContentLength
    BY <1>3, <1>4, <1>6, <1>8, <2>2
  <2>6. Complete(input, program, done)
    BY <1>4, <2>4, <2>5 DEF Complete
  <2> QED
    BY <2>1, <2>2, <2>3, <2>6, NowDone
<1>9. /\ q \in Parsers /\ q.pc = "parse" /\ q.result = "NO_REQUEST" /\ q.check_state = "content"
      /\ q.partial = TRUE
  BY <1>1, <1>3, <1>6 DEF Parsers
<1>10. /\ q.start_line = p.checked_idx /\ q.checked_idx = line.at /\ q.read_idx = p.read_idx
       /\ q.m_linger = p.m_linger /\ q.m_content_length = p.m_content_length
  BY <1>1, <1>3, <1>6 DEF Parsers
<1>11. /\ w \in Parsers /\ w.pc = "recv" /\ w.result = "NO_REQUEST" /\ Same(q, w)
       /\ w.read_idx = q.read_idx
  BY <1>9 DEF Parsers, Same
<1>12. Return(q, "NO_REQUEST") = w
  BY DEF Return
<1> HIDE DEF q, w
<1>13. Indices(q)
  BY <1>3, <1>6, <1>10 DEF Indices
<1>14. Going(input, program, q)
  <2>1. Noted(input, b, q)
    BY <1>4, <1>10 DEF Noted
  <2>2. b + 2 <= q.checked_idx
    BY <1>3, <1>4, <1>6, <1>10
  <2>3. InBody(input, program, q)
    BY <1>3, <1>4, <1>9, <1>10, <2>1, <2>2 DEF InBody
  <2> QED
    BY <1>9, <2>3 DEF Going
<1>15. CASE ~(p.read_idx >= p.m_content_length + p.checked_idx) /\ line.status = "OK"
  BY <1>7, <1>9, <1>13, <1>14, <1>15, StillParsing
<1>16. CASE ~(p.read_idx >= p.m_content_length + p.checked_idx) /\ line.status # "OK"
  <2>1. parser' = w
    BY <1>7, <1>12, <1>16
  <2>2. Indices(w)
    BY <1>11, <1>13 DEF Indices, Same
  <2>3. Going(input, program, w)
    BY <1>11, <1>14, GoesOn
  <2>4. Waits(input, program, w)
    BY <1>9, <1>11 DEF Waits, Same
  <2>5. ParseInvOf(input, program, w)
    BY <1>11, <2>3, <2>4 DEF ParseInvOf
  <2> QED
    BY <1>1, <1>11, <2>1, <2>2, <2>5 DEF ParseInv, TypeOK, Indices
<1> QED
  BY <1>8, <1>15, <1>16

LEMMA ParseStep ==
  ASSUME ParseInv, ProgParse \/ ConnParse
  PROVE  ParseInv'
<1> DEFINE line == parse_line(parser)
           p == [parser EXCEPT !.checked_idx = line.at, !.start_line = line.at]
           text == get_line(parser, line.at)
           stopped == [parser EXCEPT !.checked_idx = line.at]
<1>1. /\ parser.pc = "parse" /\ UNCHANGED <<input, program>>
      /\ parser.check_state \in {"requestline", "header", "content"}
      /\ parser \in Parsers /\ Going(input, program, parser)
  BY DEF ParseInv, ParseInvOf, TypeOK, ProgParse, ConnParse, At, Parsers
<1>2. line.status \in {"OPEN", "OK", "BAD"}
  BY InputIs, ParseLineRange DEF ParseInv, TypeOK
<1>3. CASE ProgParse
  <2>1. program = "prog" /\ parser.check_state # "content"
    BY <1>1, <1>3 DEF ProgParse, At, Going, InBody
  <2>2. parser' = IF line.status = "OK"
                  THEN IF parser.check_state = "requestline" THEN parse_request_line(p, text)
                                                            ELSE prog_parse_headers(p, text)
                  ELSE Return(stopped, IF line.status = "OPEN" THEN "NO_REQUEST" ELSE "BAD_REQUEST")
    BY <1>3 DEF ProgParse
  <2> HIDE DEF line
  <2>3. CASE line.status = "OK" /\ parser.check_state = "requestline"
    BY <1>1, <2>2, <2>3, RequestLineStep DEF line
  <2>4. CASE line.status = "OK" /\ parser.check_state = "header"
    BY <1>1, <2>1, <2>2, <2>4, ProgHeaderStep DEF line
  <2>5. CASE line.status = "OPEN"
    <3>1. parser' = Return(stopped, "NO_REQUEST")
      BY <2>2, <2>5
    <3> QED
      BY <1>1, <2>1, <2>5, <3>1, StopsStep DEF line
  <2>6. CASE line.status = "BAD"
    <3>1. parser' = Return(stopped, "BAD_REQUEST")
      BY <2>2, <2>6
    <3> QED
      BY <1>1, <2>1, <2>6, <3>1, StopsStep DEF line
  <2> QED
    BY <1>1, <1>2, <2>1, <2>3, <2>4, <2>5, <2>6 DEF line
<1>4. CASE ConnParse
  <2>1. program = "conn"
    BY <1>4 DEF ConnParse, At
  <2>2. parser' = IF parser.check_state = "content" THEN parse_content(parser)
                  ELSE IF line.status # "OK" THEN Return(stopped, "NO_REQUEST")
                  ELSE IF parser.check_state = "requestline" THEN parse_request_line(p, text)
                  ELSE parse_headers(p, text)
    BY <1>4 DEF ConnParse
  <2> HIDE DEF line
  <2>3. CASE parser.check_state = "content"
    BY <1>1, <2>2, <2>3, BodyStep
  <2>4. CASE parser.check_state # "content" /\ line.status # "OK"
    BY <1>1, <2>1, <2>2, <2>4, StopsStep DEF line
  <2>5. CASE line.status = "OK" /\ parser.check_state = "requestline"
    BY <1>1, <2>2, <2>5, RequestLineStep DEF line
  <2>6. CASE line.status = "OK" /\ parser.check_state = "header"
    BY <1>1, <2>1, <2>2, <2>6, ConnHeaderStep DEF line
  <2> QED
    BY <1>1, <2>3, <2>4, <2>5, <2>6
<1> QED
  BY <1>3, <1>4

LEMMA ParseInvInit == Init => ParseInv
<1> SUFFICES ASSUME Init PROVE ParseInv
  OBVIOUS
<1>1. input \in Inputs /\ program \in {"prog", "conn"} /\ parser = NewParser
  BY DEF Init
<1>2. input \in Seq(Tokens) /\ BufferSize \in Nat
  BY <1>1, ParserAssumption
<1>3. /\ parser \in Parsers /\ parser.pc = "recv" /\ parser.result = "NO_REQUEST"
      /\ parser.check_state = "requestline" /\ ~parser.m_linger
      /\ parser.m_content_length = 0
      /\ parser.start_line = 0 /\ parser.checked_idx = 0 /\ parser.read_idx = 0
  BY <1>1 DEF NewParser, Parsers
<1>4. Indices(parser)
  BY <1>2, <1>3 DEF Indices
<1>5. Lines(input, 0) /\ Free(input, 0, 0)
  BY DEF Lines, Free
<1>6. Going(input, program, parser)
  BY <1>3, <1>5 DEF Going, Scanned
<1>7. Waits(input, program, parser)
  BY <1>3 DEF Waits, Stuck
<1> QED
  BY <1>1, <1>3, <1>4, <1>6, <1>7 DEF ParseInv, ParseInvOf, TypeOK

LEMMA ParseInvNext == ParseInv /\ [Next]_vars => ParseInv'
<1> SUFFICES ASSUME ParseInv, [Next]_vars PROVE ParseInv'
  OBVIOUS
<1>1. CASE UNCHANGED vars
  BY <1>1 DEF vars, ParseInv, TypeOK, Indices
<1> QED
  BY <1>1, ReadStep, ParseStep DEF Next

THEOREM Parsing == Spec => []ParseInv
BY ParseInvInit, ParseInvNext, PTL DEF Spec
-----------------------------------------------------------------------------
(* The indices of a parser never pass what was read (92-141), whatever is   *)
(* sent in whatever pieces.                                                 *)
THEOREM ParserTypeOK == Spec => []TypeOK
<1>1. ParseInv => TypeOK
  BY DEF ParseInv
<1> QED
  BY <1>1, Parsing, PTL

(* The verdict of the reference, wherever the parser of either program has  *)
(* stopped.                                                                 *)
LEMMA Stopped ==
  ASSUME ParseInv, parser.pc = "recv", parser.check_state # "content"
  PROVE  LET h == HeadOf(parser.read_idx)
         IN  h = "NO_REQUEST" \/ (program = "conn" /\ h = "MALFORMED")
<1> DEFINE p == parser
           s == p.start_line
<1>1. /\ p \in Parsers /\ Indices(p) /\ Scanned(input, program, p) /\ Waits(input, program, p)
  BY DEF ParseInv, ParseInvOf, TypeOK, Going
<1>2. input \in Seq(Tokens) /\ Len(input) \in Nat
  BY InputIs DEF ParseInv
<1>3. /\ p.read_idx \in 0 .. Len(input) /\ s \in 0 .. p.read_idx
      /\ p.checked_idx \in s .. p.read_idx
      /\ p.check_state \in {"requestline", "header"}
  BY <1>1, <1>2 DEF Parsers, Indices
<1>4. Lines(input, s) /\ Free(input, s, p.checked_idx)
  BY <1>1 DEF Scanned
<1>5. s = 0 \/ (RightFirst(input, s) /\ NoBlank(input, s))
  BY <1>1, <1>3 DEF Scanned, Header
<1>6. /\ Stuck(input, p.checked_idx, p.read_idx) => HeadOf(p.read_idx) = "NO_REQUEST"
      /\ BadAt(input, p.checked_idx, p.read_idx) => HeadOf(p.read_idx) = "MALFORMED"
  BY <1>2, <1>3, <1>4, <1>5, OpenIs
<1> QED
  BY <1>1, <1>6 DEF Waits

LEMMA IsRefused ==
  ASSUME ParseInv, parser.result = "BAD_REQUEST"
  PROVE  LET h == HeadOf(parser.read_idx)
         IN  h = "BAD_REQUEST" \/ (program = "prog" /\ h = "MALFORMED")
<1> DEFINE p == parser
           s == p.start_line
<1>1. /\ p \in Parsers /\ Indices(p) /\ Refused(input, program, p)
  BY DEF ParseInv, ParseInvOf, TypeOK
<1>2. input \in Seq(Tokens) /\ Len(input) \in Nat
  BY InputIs DEF ParseInv
<1>3. /\ p.read_idx \in 0 .. Len(input) /\ s \in 0 .. p.read_idx
      /\ p.checked_idx \in s .. p.read_idx
      /\ p.check_state # "content" => p.check_state \in {"requestline", "header"}
  BY <1>1, <1>2 DEF Parsers, Indices
<1>4. CASE WrongFirst(input, p.read_idx)
  BY <1>2, <1>3, <1>4, WrongFirstIs
<1>5. CASE /\ program = "prog" /\ p.check_state # "content" /\ Scanned(input, program, p)
           /\ BadAt(input, p.checked_idx, p.read_idx)
  <2>1. Lines(input, s) /\ Free(input, s, p.checked_idx)
    BY <1>5 DEF Scanned
  <2>2. s = 0 \/ (RightFirst(input, s) /\ NoBlank(input, s))
    BY <1>3, <1>5 DEF Scanned, Header
  <2>3. HeadOf(p.read_idx) = "MALFORMED"
    BY <1>2, <1>3, <1>5, <2>1, <2>2, OpenIs
  <2> QED
    BY <1>5, <2>3
<1> QED
  BY <1>1, <1>4, <1>5 DEF Refused

LEMMA IsComplete ==
  ASSUME ParseInv, parser.result = "GET_REQUEST"
  PROVE  LET n == parser.read_idx
         IN  /\ HeadOf(n) = "GET_REQUEST"
             /\ program = "conn" =>
                  /\ HasLength(n) => /\ n >= Min(Blank(n)) + 2 + ContentLength
                                     /\ ~(n < Min(Blank(n)) + 2 + ContentLength)
                  /\ parser.m_linger <=> KeepsAlive(n)
<1> DEFINE p == parser
           n == p.read_idx
<1>1. /\ p \in Parsers /\ Indices(p) /\ Complete(input, program, p)
  BY DEF ParseInv, ParseInvOf, TypeOK
<1>2. input \in Seq(Tokens) /\ Len(input) \in Nat
  BY InputIs DEF ParseInv
<1>3. n \in 0 .. Len(input) /\ n \in Nat
  BY <1>1, <1>2 DEF Parsers, Indices
<1>4. PICK b \in 0 .. Len(input) :
        /\ HeadAt(input, b) /\ b + 2 <= n
        /\ program = "conn" => /\ Noted(input, b, p)
                               /\ p.m_content_length # 0 => n >= b + 2 + ContentLength
  BY <1>1 DEF Complete
<1>5. b \in Nat
  BY <1>4
<1>6. /\ HeadOf(n) = "GET_REQUEST" /\ Min(Blank(n)) = b
      /\ HasLength(n) <=> Lengthy(input, b)
      /\ KeepsAlive(n) <=> Lingers(input, b)
  BY <1>2, <1>3, <1>4, <1>5, HeadIs
<1>7. n >= b + 2 + ContentLength => ~(n < b + 2 + ContentLength)
  BY <1>3, <1>5, ParserAssumption
<1> QED
  BY <1>4, <1>6, <1>7 DEF Noted
-----------------------------------------------------------------------------
(* The theorems.                                                            *)

(* http_praser.c: for every input, cut into pieces in any way, the verdict  *)
(* is that of the reference, which sees all that was read at once.          *)
THEOREM ProgVerdict == Spec => []ProgIndependentOfPieces
<1>1. ParseInv => ProgIndependentOfPieces
  <2> SUFFICES ASSUME ParseInv, program = "prog", Judged
               PROVE  parser.result = LET h == HeadOf(parser.read_idx)
                                      IN  IF h = "MALFORMED" THEN "BAD_REQUEST" ELSE h
    BY DEF ProgIndependentOfPieces
  <2>1. /\ parser \in Parsers /\ parser.pc \in {"recv", "done"}
        /\ parser.result \in {"NO_REQUEST", "BAD_REQUEST", "GET_REQUEST"}
    BY DEF ParseInv, TypeOK, Parsers, Judged
  <2>2. CASE parser.pc = "recv"
    <3>1. parser.result = "NO_REQUEST" /\ parser.check_state # "content"
      BY <2>2 DEF ParseInv, ParseInvOf, Going, InBody
    <3> QED
      BY <2>2, <3>1, Stopped
  <2>3. CASE parser.pc = "done"
    <3>1. parser.result # "NO_REQUEST"
      BY <2>3 DEF ParseInv, ParseInvOf
    <3> QED
      BY <2>1, <3>1, IsRefused, IsComplete
  <2> QED
    BY <2>1, <2>2, <2>3
<1> QED
  BY <1>1, Parsing, PTL

(* 04_http_conn.cpp: the same of http_conn, and Connection is heeded, as    *)
(* long as no read ended inside the body.                                   *)
THEOREM ConnVerdict == Spec => []ConnIndependentOfPieces
<1>1. ParseInv => ConnIndependentOfPieces
  <2> DEFINE n == parser.read_idx
             h == HeadOf(n)
             bodyEnd == Min(Blank(n)) + 2 + ContentLength
  <2> SUFFICES ASSUME ParseInv, program = "conn", ~parser.partial, Judged
               PROVE  /\ parser.result = IF h = "MALFORMED" \/ (h = "GET_REQUEST" /\ HasLength(n) /\ n < bodyEnd)
                                         THEN "NO_REQUEST" ELSE h
                      /\ h = "GET_REQUEST" => (parser.m_linger <=> KeepsAlive(n))
    BY DEF ConnIndependentOfPieces
  <2>1. /\ parser \in Parsers /\ parser.pc \in {"recv", "done"}
        /\ parser.result \in {"NO_REQUEST", "BAD_REQUEST", "GET_REQUEST"}
    BY DEF ParseInv, TypeOK, Parsers, Judged
  <2>2. CASE parser.pc = "recv"
    <3>1. parser.result = "NO_REQUEST" /\ parser.check_state # "content"
      BY <2>2 DEF ParseInv, ParseInvOf, Waits
    <3>2. h = "NO_REQUEST" \/ h = "MALFORMED"
      BY <2>2, <3>1, Stopped
    <3> QED
      BY <3>1, <3>2
  <2>3. CASE parser.pc = "done" /\ parser.result = "BAD_REQUEST"
    <3>1. h = "BAD_REQUEST"
      BY <2>3, IsRefused
    <3> QED
      BY <2>3, <3>1
  <2>4. CASE parser.pc = "done" /\ parser.result = "GET_REQUEST"
    <3>1. /\ h = "GET_REQUEST"
          /\ HasLength(n) => ~(n < bodyEnd)
          /\ parser.m_linger <=> KeepsAlive(n)
      BY <2>4, IsComplete
    <3> QED
      BY <2>4, <3>1
  <2>5. parser.pc = "done" => parser.result # "NO_REQUEST"
    BY DEF ParseInv, ParseInvOf
  <2> QED
    BY <2>1, <2>2, <2>3, <2>4, <2>5
<1> QED
  BY <1>1, Parsing, PTL

(* 04_http_conn.cpp: GET_REQUEST means that the whole body is there, also   *)
(* when reads ended inside it and m_checked_idx has moved on (241-262).     *)
THEOREM BodyWhole == Spec => []BodyNeverShort
<1>1. ParseInv => BodyNeverShort
  BY IsComplete DEF BodyNeverShort
<1> QED
  BY <1>1, Parsing, PTL
-----------------------------------------------------------------------------
(* Rio                                                                      *)

RioSpec == RioInit /\ [][RioNext]_rioVars

(* The readers as tiny.c calls them, for one client after the other.        *)
TinySpec == RioInit /\ TinyInit /\ [][TinyNext]_<<rioVars, tinyVars>>

Text == Seq(Characters)
Readers == {"none", "rio_readlineb", "rio_readnb", "rio_readn"}
Calls == [op : Readers, n : Nat, got : Text]
Results == [op : Readers, n : Nat, text : Text, how : {"ok", "eof", "reset"}]

RioTypeOK ==
    /\ stream \in Text /\ coming \in Text /\ unread \in Text /\ rio_buf \in Text /\ taken \in Text
    /\ end \in {"open", "eof", "reset"} /\ call \in Calls /\ ret \in Results

(* What was copied, is buffered and waits in the socket is the beginning of *)
(* the stream; the rest is to come, if the client goes on.                  *)
Flows(t, b, u) ==
    \E rest \in Text :
       /\ stream = t \o b \o u \o rest
       /\ end = "open" => rest = coming

NoNewline(s, n) == \A k \in 1 .. n : s[k] # "nl"

(* A call that goes on has copied less than it may, and no end of a line.   *)
CallGoes(c, t, b) ==
    c.op # "none" =>
      /\ \E before \in Text : t = before \o c.got
      /\ c.op = "rio_readlineb" => Len(c.got) < c.n - 1 /\ NoNewline(c.got, Len(c.got))
      /\ c.op \in {"rio_readnb", "rio_readn"} => Len(c.got) < c.n
      /\ c.op = "rio_readn" => b = <<>>

Got(r, e, u, b) ==
    /\ r.how = "ok" /\ r.op \in {"rio_readnb", "rio_readn"} => Len(r.text) = r.n
    /\ r.how = "ok" /\ r.op = "rio_readlineb" => r.text[Len(r.text)] = "nl" \/ Len(r.text) = r.n - 1
    /\ r.op = "rio_readlineb" => NoNewline(r.text, Len(r.text) - 1)
    /\ r.how # "ok" => e = r.how /\ u = <<>> /\ b = <<>>

RioInv == RioTypeOK /\ Flows(taken, rio_buf, unread) /\ CallGoes(call, taken, rio_buf) /\ Got(ret, end, unread, rio_buf)

LEMMA CutIs ==
  ASSUME NEW S, NEW s \in Seq(S), NEW k \in Nat, NEW m, m = IF k < Len(s) THEN k ELSE Len(s)
  PROVE  /\ SubSeq(s, 1, m) \in Seq(S) /\ Len(SubSeq(s, 1, m)) = m
         /\ SubSeq(s, k + 1, Len(s)) \in Seq(S)
         /\ s = SubSeq(s, 1, m) \o SubSeq(s, k + 1, Len(s))
<1>1. Len(s) \in Nat /\ m \in Nat /\ m <= Len(s)
  OBVIOUS
<1>2. /\ \A i \in 1 .. m : s[i] \in S
      /\ \A i \in k + 1 .. Len(s) : s[i] \in S
  BY <1>1
<1>3. SubSeq(s, 1, m) \in Seq(S) /\ Len(SubSeq(s, 1, m)) = m
  BY <1>1, <1>2, SubSeqProperties
<1>4. SubSeq(s, k + 1, Len(s)) \in Seq(S)
  BY <1>1, <1>2, SubSeqProperties
<1>5. s = SubSeq(s, 1, m) \o SubSeq(s, k + 1, Len(s))
  <2>1. CASE k < Len(s)
    <3>1. /\ m = k /\ 1 \in 1 .. Len(s) + 1 /\ k \in 1 - 1 .. Len(s)
          /\ Len(s) \in k .. Len(s)
      BY <1>1, <2>1
    <3>2. SubSeq(s, 1, k) \o SubSeq(s, k + 1, Len(s)) = SubSeq(s, 1, Len(s))
      BY <1>1, <3>1, ConcatAdjacentSubSeq
    <3>3. SubSeq(s, 1, Len(s)) = s
      BY SubSeqFull
    <3> QED
      BY <3>1, <3>2, <3>3
  <2>2. CASE ~(k < Len(s))
    <3>1. m = Len(s) /\ Len(s) < k + 1
      BY <1>1, <2>2
    <3>2. SubSeq(s, k + 1, Len(s)) = <<>>
      BY <1>1, <3>1, SubSeqEmpty
    <3>3. SubSeq(s, 1, m) = s
      BY <3>1, SubSeqFull
    <3>4. s \o <<>> = s
      BY ConcatEmptySeq
    <3> QED
      BY <3>2, <3>3, <3>4
  <2> QED
    BY <2>1, <2>2
<1> QED
  BY <1>3, <1>4, <1>5

LEMMA Joins ==
  ASSUME NEW s \in Text, NEW t \in Text
  PROVE  s \o t \in Text
BY ConcatProperties DEF Text

LEMMA Assoc ==
  ASSUME NEW s \in Text, NEW t \in Text, NEW u \in Text
  PROVE  (s \o t) \o u = s \o (t \o u)
BY ConcatAssociative DEF Text

LEMMA JoinsPiece ==
  ASSUME NEW p \in Text, NEW u \in Text, NEW x \in Text, NEW y \in Text
  PROVE  p \o u \o (x \o y) = p \o (u \o x) \o y
BY Joins, Assoc, SMTT(60)

LEMMA PrefixIs ==
  ASSUME NEW s \in Text, NEW d \in Text, NEW rest \in Text, s = d \o rest
  PROVE  IsPrefix(d, s)
<1>1. Len(d) \in Nat /\ Len(s) = Len(d) + Len(rest) /\ Len(rest) \in Nat
  BY ConcatProperties DEF Text
<1>2. Len(d) <= Len(s) /\ \A i \in 1 .. Len(d) : s[i] = d[i]
  BY <1>1, ConcatProperties DEF Text
<1>3. SubSeq(d, 1, Len(d)) = d
  BY SubSeqFull DEF Text
<1>4. SubSeq(s, 1, Len(d)) = d
  <2>1. /\ \A i \in 1 .. Len(d) : s[i] \in Characters
        /\ 1 \in Int /\ Len(d) \in Int
    BY <1>1, <1>2 DEF Text
  <2>2. /\ SubSeq(s, 1, Len(d)) \in Seq(Characters)
        /\ Len(SubSeq(s, 1, Len(d))) = IF 1 <= Len(d) THEN Len(d) - 1 + 1 ELSE 0
        /\ \A i \in 1 .. Len(d) - 1 + 1 : SubSeq(s, 1, Len(d))[i] = s[1 + i - 1]
    BY <2>1, SubSeqProperties
  <2>3. Len(SubSeq(s, 1, Len(d))) = Len(d) /\ \A i \in 1 .. Len(d) : SubSeq(s, 1, Len(d))[i] = d[i]
    BY <1>1, <1>2, <2>2
  <2> QED
    BY <2>2, <2>3, SeqEqual DEF Text
<1> QED
  BY <1>2, <1>3, <1>4 DEF IsPrefix

\* A function over 1..n is a sequence.
LEMMA FunctionIsSeq ==
  ASSUME NEW n \in Nat, NEW f \in [1 .. n -> Characters]
  PROVE  f \in Seq(Characters)
  BY SeqDef

LEMMA SuffixIs ==
  ASSUME NEW t \in Text, NEW before \in Text, NEW got \in Text, t = before \o got
  PROVE  IsSuffix(got, t)
<1>1. Len(got) \in Nat /\ Len(before) \in Nat /\ Len(t) = Len(before) + Len(got)
  BY ConcatProperties DEF Text
<1>2. \A k \in 1 .. Len(t) : t[k] = IF k <= Len(before) THEN before[k] ELSE got[k - Len(before)]
  BY <1>1, ConcatProperties DEF Text
<1> DEFINE rt == Reverse(t)
           rg == Reverse(got)
<1>3. rt = [k \in 1 .. Len(t) |-> t[(Len(t) - k) + 1]] /\ rg = [k \in 1 .. Len(got) |-> got[(Len(got) - k) + 1]]
  BY DEF Reverse
<1>4. rt \in Seq(Characters) /\ rg \in Seq(Characters) /\ Len(rt) = Len(t) /\ Len(rg) = Len(got)
  <2>1. \A k \in 1 .. Len(t) : (Len(t) - k) + 1 \in 1 .. Len(t)
    BY <1>1
  <2>2. \A k \in 1 .. Len(got) : (Len(got) - k) + 1 \in 1 .. Len(got)
    BY <1>1
  <2>3. rt \in [1 .. Len(t) -> Characters] /\ rg \in [1 .. Len(got) -> Characters]
    BY <1>1, <1>3, <2>1, <2>2, SMTT(60) DEF Text
  <2>4. Len(t) \in Nat /\ DOMAIN rt = 1 .. Len(t) /\ DOMAIN rg = 1 .. Len(got)
    BY <1>1, <2>3
  <2> HIDE DEF rt, rg
  <2>5. rt \in Seq(Characters)
    BY <2>3, <2>4, FunctionIsSeq
  <2>6. rg \in Seq(Characters)
    BY <1>1, <2>3, FunctionIsSeq
  <2> QED
    BY <1>1, <2>4, <2>5, <2>6, LenProperties
<1>5. ASSUME NEW k \in 1 .. Len(got) PROVE rt[k] = rg[k]
  <2>1. /\ k \in 1 .. Len(t) /\ (Len(t) - k) + 1 \in 1 .. Len(t) /\ ~((Len(t) - k) + 1 <= Len(before))
        /\ (Len(t) - k) + 1 - Len(before) = (Len(got) - k) + 1
    BY <1>1
  <2> QED
    BY <1>2, <1>3, <2>1
<1> HIDE DEF rt, rg
<1>6. SubSeq(rg, 1, Len(rg)) = rg
  BY <1>4, SubSeqFull
<1>7. SubSeq(rt, 1, Len(rg)) = rg
  <2>1. \A k \in 1 .. Len(rg) : rt[k] \in Characters /\ rt[k] = rg[k]
    BY <1>1, <1>4, <1>5
  <2>2. /\ SubSeq(rt, 1, Len(rg)) \in Seq(Characters)
        /\ Len(SubSeq(rt, 1, Len(rg))) = IF 1 <= Len(rg) THEN Len(rg) - 1 + 1 ELSE 0
        /\ \A k \in 1 .. Len(rg) - 1 + 1 : SubSeq(rt, 1, Len(rg))[k] = rt[1 + k - 1]
    BY <1>1, <1>4, <2>1, SubSeqProperties
  <2>3. Len(SubSeq(rt, 1, Len(rg))) = Len(rg) /\ \A k \in 1 .. Len(rg) : SubSeq(rt, 1, Len(rg))[k] = rg[k]
    BY <1>1, <1>4, <2>1, <2>2
  <2> QED
    BY <1>4, <2>2, <2>3, SeqEqual
<1>8. Len(rg) <= Len(rt)
  BY <1>1, <1>4
<1> QED
  BY <1>6, <1>7, <1>8 DEF IsSuffix, IsPrefix, rt, rg

LEMMA RioSays == RioInv => ReadsStream
<1> SUFFICES ASSUME RioInv PROVE ReadsStream
  OBVIOUS
<1>1. /\ stream \in Text /\ unread \in Text /\ rio_buf \in Text /\ taken \in Text
      /\ call \in Calls /\ ret \in Results
  BY DEF RioInv, RioTypeOK
<1>2. IsPrefix(taken \o rio_buf \o unread, stream)
  <2>1. PICK rest \in Text : stream = taken \o rio_buf \o unread \o rest
    BY DEF RioInv, Flows
  <2>2. taken \o rio_buf \o unread \in Text
    BY <1>1, ConcatProperties DEF Text
  <2> QED
    BY <1>1, <2>1, <2>2, PrefixIs
<1>3. call.op # "none" => IsSuffix(call.got, taken)
  BY <1>1, SuffixIs DEF RioInv, CallGoes, Calls
<1>4. Got(ret, end, unread, rio_buf)
  BY DEF RioInv
<1> QED
  BY <1>2, <1>3, <1>4 DEF ReadsStream, Got, NoNewline, Last
-----------------------------------------------------------------------------
LEMMA RioIs ==
  RioInv <=> /\ stream \in Text /\ coming \in Text /\ unread \in Text /\ rio_buf \in Text /\ taken \in Text
             /\ end \in {"open", "eof", "reset"} /\ call \in Calls /\ ret \in Results
             /\ Flows(taken, rio_buf, unread)
             /\ CallGoes(call, taken, rio_buf) /\ Got(ret, end, unread, rio_buf)
BY DEF RioInv, RioTypeOK

(* What a call that succeeded has returned does not depend on the rest.     *)
LEMMA GotOk ==
  ASSUME NEW r, NEW e, NEW u, NEW b, NEW e2, NEW u2, NEW b2, r.how = "ok", Got(r, e, u, b)
  PROVE  Got(r, e2, u2, b2)
BY DEF Got

LEMMA FlowsSame ==
  ASSUME RioInv, UNCHANGED <<stream, coming, end>>, NEW t2, NEW b2, NEW u2,
         taken \o rio_buf \o unread = t2 \o b2 \o u2,
         taken' = t2, rio_buf' = b2, unread' = u2
  PROVE  Flows(taken, rio_buf, unread)'
BY DEF RioInv, Flows

LEMMA NothingAdded == ASSUME NEW t \in Text PROVE t \o <<>> = t
BY ConcatEmptySeq DEF Text

(* A piece x moves from one place to the one before it.                     *)
LEMMA FlowsFromBuffer ==
  ASSUME RioInv, UNCHANGED <<stream, coming, end, unread>>, NEW x \in Text, NEW b2 \in Text,
         rio_buf = x \o b2, rio_buf' = b2, taken' = taken \o x
  PROVE  Flows(taken, rio_buf, unread)'
<1>1. taken \in Text
  BY RioIs
<1>2. (taken \o x) \o b2 = taken \o (x \o b2)
  BY <1>1, Assoc
<1>3. taken \o rio_buf \o unread = (taken \o x) \o b2 \o unread
  BY <1>2
<1> QED
  BY <1>3, FlowsSame

LEMMA FlowsFromKernel ==
  ASSUME RioInv, UNCHANGED <<stream, coming, end>>, NEW x \in Text, NEW u2 \in Text,
         unread = x \o u2, unread' = u2, rio_buf = <<>>,
         \/ rio_buf' = x /\ UNCHANGED taken
         \/ rio_buf' = <<>> /\ taken' = taken \o x
  PROVE  Flows(taken, rio_buf, unread)'
<1>1. taken \in Text
  BY RioIs
<1>2. (taken \o x) \o u2 = taken \o (x \o u2)
  BY <1>1, Assoc
<1>3. taken \o <<>> = taken
  BY <1>1, NothingAdded
<1>4. taken \o rio_buf \o unread = taken \o x \o u2
  BY <1>2, <1>3
<1>5. CASE rio_buf' = x /\ UNCHANGED taken
  BY <1>4, <1>5, FlowsSame
<1>6. CASE rio_buf' = <<>> /\ taken' = taken \o x
  <2>1. taken \o x \in Text
    BY <1>1, Joins
  <2>2. (taken \o x) \o <<>> = taken \o x
    BY <2>1, NothingAdded
  <2>3. taken \o rio_buf \o unread = (taken \o x) \o <<>> \o u2
    BY <1>4, <2>2
  <2> QED
    BY <1>6, <2>3, FlowsSame
<1> QED
  BY <1>5, <1>6

LEMMA SendStep ==
  ASSUME RioInv, SendPiece
  PROVE  RioInv'
<1>1. PICK k \in 1 .. Len(coming) :
        unread' = unread \o SubSeq(coming, 1, k) /\ coming' = SubSeq(coming, k + 1, Len(coming))
  BY DEF SendPiece
<1>2. /\ end = "open" /\ UNCHANGED <<stream, end, rio_buf, call, ret, taken>>
      /\ stream \in Text /\ coming \in Text /\ unread \in Text /\ rio_buf \in Text /\ taken \in Text
      /\ call \in Calls /\ ret \in Results
  BY RioIs DEF SendPiece
<1> DEFINE x == SubSeq(coming, 1, k)
           y == SubSeq(coming, k + 1, Len(coming))
<1>3. x \in Text /\ y \in Text /\ coming = x \o y
  <2>1. k \in Nat /\ k = IF k < Len(coming) THEN k ELSE Len(coming)
    BY <1>1, <1>2 DEF Text
  <2> QED
    BY <1>2, <2>1, CutIs DEF Text
<1>4. unread' = unread \o x /\ coming' = y
  BY <1>1
<1> HIDE DEF x, y
<1>5. unread \o x \in Text /\ taken \o rio_buf \in Text /\ taken \o rio_buf \o unread \in Text
  BY <1>2, <1>3, ConcatProperties DEF Text
<1>6. stream = taken \o rio_buf \o unread \o coming
  BY <1>2, RioIs DEF Flows
<1>7. taken \o rio_buf \o unread \o (x \o y) = taken \o rio_buf \o (unread \o x) \o y
  <2>1. \A p, u, v, w \in Text : p \o u \o (v \o w) = p \o (u \o v) \o w
    BY JoinsPiece
  <2>2. taken \o rio_buf \in Text /\ unread \in Text /\ x \in Text /\ y \in Text
    BY <1>2, <1>3, <1>5
  <2> QED
    BY <2>1, <2>2, SMTT(60)
<1>8. Flows(taken, rio_buf, unread)'
  BY <1>2, <1>3, <1>4, <1>6, <1>7 DEF Flows
<1>9. CallGoes(call, taken, rio_buf)'
  BY <1>2, RioIs DEF CallGoes
<1>10. Got(ret, end, unread, rio_buf)'
  <2>1. ret.how = "ok"
    BY <1>2, RioIs DEF Got, Results
  <2>2. Got(ret, end', unread', rio_buf')
    BY <2>1, RioIs, GotOk
  <2> QED
    BY <1>2, <2>2
<1> QED
  BY <1>2, <1>3, <1>4, <1>5, <1>8, <1>9, <1>10, RioIs DEF RioInv, RioTypeOK

LEMMA EndStep ==
  ASSUME RioInv, EndStream
  PROVE  RioInv'
<1>1. /\ end = "open" /\ end' \in {"eof", "reset"} /\ coming' = <<>>
      /\ UNCHANGED <<stream, unread, rio_buf, call, ret, taken>> /\ <<>> \in Text
  BY EmptySeq DEF EndStream, Text
<1>2. ret.how = "ok"
  BY <1>1, RioIs DEF Got, Results
<1>3. Got(ret, end', unread', rio_buf')
  BY <1>2, RioIs, GotOk
<1>4. Got(ret, end, unread, rio_buf)'
  BY <1>1, <1>3
<1>5. Flows(taken, rio_buf, unread)'
  BY <1>1, RioIs DEF Flows
<1>6. CallGoes(call, taken, rio_buf)'
  BY <1>1, RioIs DEF CallGoes
<1> QED
  BY <1>1, <1>4, <1>5, <1>6, RioIs DEF RioInv, RioTypeOK

LEMMA RefillStep ==
  ASSUME RioAssumption, RioInv, Refill
  PROVE  RioInv'
<1>1. /\ rio_buf = <<>> /\ unread # <<>> /\ Buffered
      /\ rio_buf' = Piece(RIO_BUFSIZE) /\ unread' = Rest(RIO_BUFSIZE)
      /\ UNCHANGED <<stream, coming, end, call, ret, taken>>
      /\ unread \in Text /\ taken \in Text /\ RIO_BUFSIZE \in Nat
  BY RioIs DEF Refill, Empty, RioAssumption
<1> DEFINE m == IF RIO_BUFSIZE < Len(unread) THEN RIO_BUFSIZE ELSE Len(unread)
           x == SubSeq(unread, 1, m)
           y == SubSeq(unread, RIO_BUFSIZE + 1, Len(unread))
<1>2. rio_buf' = x /\ unread' = y
  BY <1>1 DEF Piece, Rest
<1> HIDE DEF m
<1>3. x \in Text /\ y \in Text /\ unread = x \o y
  <2>1. m = IF RIO_BUFSIZE < Len(unread) THEN RIO_BUFSIZE ELSE Len(unread)
    BY DEF m
  <2> QED
    BY <1>1, <2>1, CutIs DEF Text
<1> HIDE DEF x, y
<1>4. Flows(taken, rio_buf, unread)'
  BY <1>1, <1>2, <1>3, FlowsFromKernel
<1>5. CallGoes(call, taken, rio_buf)'
  BY <1>1, RioIs DEF CallGoes, Buffered
<1>6. ret.how = "ok"
  BY <1>1, RioIs DEF Got, Results
<1>7. Got(ret, end', unread', rio_buf')
  BY <1>6, RioIs, GotOk
<1>8. Got(ret, end, unread, rio_buf)'
  BY <1>1, <1>7
<1> QED
  BY <1>1, <1>2, <1>3, <1>4, <1>5, <1>8, RioIs DEF RioInv, RioTypeOK

(* A call returns.                                                          *)
LEMMA ReturnsIs ==
  ASSUME RioInv, call.op # "none", NEW text \in Text, NEW how \in {"ok", "eof", "reset"},
         Returns(text, how)
  PROVE  /\ call' \in Calls /\ ret' \in Results
         /\ \A t, b : CallGoes(call', t, b)
         /\ ret'.op = call.op /\ ret'.n = call.n /\ ret'.text = text /\ ret'.how = how
<1>1. call \in Calls /\ <<>> \in Text
  BY RioIs, EmptySeq DEF Text
<1>2. call' = NoCall /\ ret' = [op |-> call.op, n |-> call.n, text |-> text, how |-> how]
  BY DEF Returns
<1> QED
  BY <1>1, <1>2 DEF NoCall, Calls, Results, Readers, CallGoes

LEMMA ReadEndsStep ==
  ASSUME RioInv, ReadEnds
  PROVE  RioInv'
<1>1. /\ call.op # "none" /\ unread = <<>> /\ end \in {"eof", "reset"} /\ Returns(call.got, end)
      /\ UNCHANGED <<stream, coming, unread, end, rio_buf, taken>>
      /\ call \in Calls
  BY RioIs DEF ReadEnds
<1>2. call.got \in Text /\ call.op \in {"rio_readlineb", "rio_readnb", "rio_readn"}
  BY <1>1 DEF Calls, Readers
<1>3. rio_buf = <<>>
  BY <1>1, <1>2, RioIs DEF CallGoes, ReadEnds, Buffered, Empty
<1>4. /\ call' \in Calls /\ ret' \in Results /\ \A t, b : CallGoes(call', t, b)
      /\ ret'.op = call.op /\ ret'.n = call.n /\ ret'.text = call.got /\ ret'.how = end
  BY <1>1, <1>2, ReturnsIs
<1>5. ret'.op = "rio_readlineb" => NoNewline(call.got, Len(call.got) - 1)
  <2>1. call.op = "rio_readlineb" => NoNewline(call.got, Len(call.got))
    BY RioIs DEF CallGoes
  <2>2. Len(call.got) \in Nat
    BY <1>2 DEF Text
  <2> QED
    BY <1>4, <2>1, <2>2 DEF NoNewline
<1>6. Got(ret', end', unread', rio_buf')
  BY <1>1, <1>3, <1>4, <1>5 DEF Got
<1>7. Flows(taken, rio_buf, unread)'
  BY <1>1, RioIs DEF Flows
<1> QED
  BY <1>1, <1>4, <1>6, <1>7, RioIs DEF RioInv, RioTypeOK

(* A call that goes on with more.                                           *)
LEMMA MoreIs ==
  ASSUME RioInv, call.op # "none", NEW x \in Text, NEW got, got = call.got \o x, taken' = taken \o x
  PROVE  /\ got \in Text /\ Len(got) = Len(call.got) + Len(x) /\ taken' \in Text
         /\ [call EXCEPT !.got = got] \in Calls
         /\ [call EXCEPT !.got = got].op = call.op /\ [call EXCEPT !.got = got].n = call.n
         /\ [call EXCEPT !.got = got].got = got
         /\ \E before \in Text : taken' = before \o got
<1>1. call \in Calls /\ call.got \in Text /\ taken \in Text
  BY RioIs DEF Calls
<1>2. got \in Text /\ Len(got) = Len(call.got) + Len(x) /\ taken' \in Text
  BY <1>1, ConcatProperties DEF Text
<1>3. PICK before \in Text : taken = before \o call.got
  BY RioIs DEF CallGoes
<1>4. (before \o call.got) \o x = before \o (call.got \o x)
  <2> DEFINE g == call.got
  <2>1. g \in Text
    BY <1>1
  <2> HIDE DEF g
  <2>2. (before \o g) \o x = before \o (g \o x)
    BY <2>1, <1>3, ConcatAssociative, SMTT(60) DEF Text
  <2> QED
    BY <2>2 DEF g
<1> QED
  BY <1>1, <1>2, <1>3, <1>4 DEF Calls

LEMMA ReadLineStep ==
  ASSUME RioInv, rio_readlineb
  PROVE  RioInv'
<1> DEFINE c == Head(rio_buf)
           x == <<c>>
           got == Append(call.got, c)
<1>1. /\ call.op = "rio_readlineb" /\ rio_buf # <<>>
      /\ rio_buf' = Tail(rio_buf) /\ taken' = Append(taken, c)
      /\ IF c = "nl" \/ Len(got) >= call.n - 1 THEN Returns(got, "ok")
         ELSE call' = [call EXCEPT !.got = got] /\ UNCHANGED ret
      /\ UNCHANGED <<stream, coming, unread, end>>
  BY DEF rio_readlineb
<1>2. rio_buf \in Text /\ taken \in Text /\ unread \in Text /\ call \in Calls /\ call.got \in Text
      /\ call.n \in Nat
  BY RioIs DEF Calls
<1>3. c \in Characters /\ rio_buf' \in Text
  BY <1>1, <1>2, HeadTailProperties DEF Text
<1>4. x \in Text /\ Len(x) = 1 /\ x[1] = c
  BY <1>3 DEF Text
<1>5. got = call.got \o x /\ taken' = taken \o x
  BY <1>1, <1>2, <1>3, AppendIsConcat DEF Text
<1> DEFINE b2 == Tail(rio_buf)
<1>6. rio_buf = x \o b2 /\ rio_buf' = b2 /\ b2 \in Text
  <2>1. rio_buf = <<c>> \o Tail(rio_buf)
    BY <1>1, <1>2 DEF Text
  <2> QED
    BY <1>1, <1>3, <2>1
<1> HIDE DEF x, c, b2
<1>7. /\ got \in Text /\ Len(got) = Len(call.got) + Len(x) /\ taken' \in Text
      /\ [call EXCEPT !.got = got] \in Calls
      /\ [call EXCEPT !.got = got].op = call.op /\ [call EXCEPT !.got = got].n = call.n
      /\ [call EXCEPT !.got = got].got = got
      /\ \E before \in Text : taken' = before \o got
  BY <1>1, <1>4, <1>5, MoreIs
<1>8. /\ Len(call.got) \in Nat /\ Len(got) = Len(call.got) + 1
      /\ Len(call.got) < call.n - 1 /\ NoNewline(call.got, Len(call.got))
      /\ \A k \in 1 .. Len(call.got) : got[k] = call.got[k]
      /\ got[Len(got)] = c
  <2>1. Len(call.got) < call.n - 1 /\ NoNewline(call.got, Len(call.got))
    BY <1>1, RioIs DEF CallGoes
  <2>2. Len(call.got) \in Nat /\ Len(got) = Len(call.got) + 1
    BY <1>2, <1>4, <1>7 DEF Text
  <2>3. \A k \in 1 .. Len(call.got) : got[k] = call.got[k]
    BY <1>2, <1>3 DEF Text
  <2>4. got[Len(got)] = c
    BY <1>2, <1>3 DEF Text
  <2> QED
    BY <2>1, <2>2, <2>3, <2>4
<1> HIDE DEF got
<1>9. Flows(taken, rio_buf, unread)'
  BY <1>1, <1>4, <1>5, <1>6, FlowsFromBuffer
<1>10. ret.how = "ok"
  BY <1>1, RioIs DEF Got, Results
<1>11. CASE c = "nl" \/ Len(got) >= call.n - 1
  <2>1. Returns(got, "ok")
    BY <1>1, <1>11
  <2>2. /\ call' \in Calls /\ ret' \in Results /\ \A t, b : CallGoes(call', t, b)
        /\ ret'.op = call.op /\ ret'.n = call.n /\ ret'.text = got /\ ret'.how = "ok"
    BY <1>1, <1>7, <2>1, ReturnsIs
  <2>3. got[Len(got)] = "nl" \/ Len(got) = call.n - 1
    BY <1>2, <1>8, <1>11
  <2>4. NoNewline(got, Len(got) - 1)
    BY <1>8 DEF NoNewline
  <2>5. Got(ret', end', unread', rio_buf')
    BY <1>1, <2>2, <2>3, <2>4 DEF Got
  <2> QED
    BY <1>1, <1>3, <1>7, <1>9, <2>2, <2>5, RioIs DEF RioInv, RioTypeOK
<1>12. CASE ~(c = "nl" \/ Len(got) >= call.n - 1)
  <2>1. call' = [call EXCEPT !.got = got] /\ ret' = ret
    BY <1>1, <1>12
  <2>2. Len(got) < call.n - 1
    BY <1>2, <1>8, <1>12
  <2>3. NoNewline(got, Len(got))
    <3>1. \A k \in 1 .. Len(got) : k \in 1 .. Len(call.got) \/ k = Len(got)
      BY <1>8
    <3> QED
      BY <1>8, <1>12, <3>1 DEF NoNewline
  <2>4. CallGoes(call', taken', rio_buf')
    BY <1>1, <1>7, <2>1, <2>2, <2>3 DEF CallGoes
  <2>5. Got(ret, end', unread', rio_buf')
    BY <1>10, RioIs, GotOk
  <2> QED
    BY <1>1, <1>3, <1>7, <1>9, <2>1, <2>4, <2>5, RioIs DEF RioInv, RioTypeOK
<1> QED
  BY <1>11, <1>12

(* rio_readnb and rio_readn copy what they find, or what is left to copy.   *)
LEMMA Copies ==
  ASSUME RioInv, call.op \in {"rio_readnb", "rio_readn"}, NEW from \in Text, Copy(from), ret.how = "ok"
  PROVE  \E x \in Text, y \in Text :
            /\ from = x \o y /\ y = SubSeq(from, call.n - Len(call.got) + 1, Len(from))
            /\ taken' = taken \o x /\ taken' \in Text /\ call' \in Calls /\ ret' \in Results
            /\ \A b : (call.op = "rio_readn" => b = <<>>) => CallGoes(call', taken', b)
            /\ \A e, u, b : Got(ret', e, u, b)
<1>1. /\ call \in Calls /\ call.got \in Text /\ call.n \in Nat /\ Len(call.got) \in Nat
      /\ Len(call.got) < call.n /\ Len(from) \in Nat
  BY RioIs DEF Calls, CallGoes, Text
<1> DEFINE left == call.n - Len(call.got)
<1>2. left \in Nat /\ left = call.n - Len(call.got)
  BY <1>1
<1> DEFINE m == IF left < Len(from) THEN left ELSE Len(from)
           x == SubSeq(from, 1, m)
           y == SubSeq(from, left + 1, Len(from))
           got == call.got \o x
<1>3. /\ taken' = taken \o x
      /\ IF Len(got) = call.n THEN Returns(got, "ok")
         ELSE call' = [call EXCEPT !.got = got] /\ UNCHANGED ret
  BY DEF Copy
<1>4. /\ m = IF left < Len(from) THEN left ELSE Len(from)
      /\ y = SubSeq(from, call.n - Len(call.got) + 1, Len(from))
  OBVIOUS
<1> HIDE DEF m, left
<1>5. x \in Text /\ Len(x) = m /\ y \in Text /\ from = x \o y
  <2>1. from \in Seq(Characters) /\ left \in Nat
    BY <1>2 DEF Text
  <2>3. \A k \in Nat, mm \in Nat : mm = (IF k < Len(from) THEN k ELSE Len(from)) =>
            /\ SubSeq(from, 1, mm) \in Seq(Characters) /\ Len(SubSeq(from, 1, mm)) = mm
            /\ SubSeq(from, k + 1, Len(from)) \in Seq(Characters)
            /\ from = SubSeq(from, 1, mm) \o SubSeq(from, k + 1, Len(from))
    BY <2>1, CutIs
  <2>4. m \in Nat
    BY <1>1, <1>4, <2>1
  <2>2. /\ SubSeq(from, 1, m) \in Seq(Characters) /\ Len(SubSeq(from, 1, m)) = m
        /\ SubSeq(from, left + 1, Len(from)) \in Seq(Characters)
        /\ from = SubSeq(from, 1, m) \o SubSeq(from, left + 1, Len(from))
    BY <1>4, <2>1, <2>3, <2>4
  <2> QED
    BY <2>2 DEF Text
<1> SUFFICES /\ taken' \in Text /\ call' \in Calls /\ ret' \in Results
             /\ \A b : (call.op = "rio_readn" => b = <<>>) => CallGoes(call', taken', b)
             /\ \A e, u, b : Got(ret', e, u, b)
  BY <1>3, <1>4, <1>5
<1>6. got = call.got \o x
  OBVIOUS
<1> HIDE DEF x, y, got
<1>7. /\ got \in Text /\ Len(got) = Len(call.got) + Len(x) /\ taken' \in Text
      /\ [call EXCEPT !.got = got] \in Calls
      /\ [call EXCEPT !.got = got].op = call.op /\ [call EXCEPT !.got = got].n = call.n
      /\ [call EXCEPT !.got = got].got = got
      /\ \E before \in Text : taken' = before \o got
  BY <1>3, <1>5, <1>6, MoreIs, ZenonT(60)
<1>8. CASE Len(got) = call.n
  <2>1. Returns(got, "ok")
    BY <1>3, <1>8
  <2>2. /\ call' \in Calls /\ ret' \in Results /\ \A t, b : CallGoes(call', t, b)
        /\ ret'.op = call.op /\ ret'.n = call.n /\ ret'.text = got /\ ret'.how = "ok"
    BY <1>7, <2>1, ReturnsIs
  <2>3. \A e, u, b : Got(ret', e, u, b)
    BY <1>8, <2>2 DEF Got
  <2> QED
    BY <1>7, <2>2, <2>3
<1>9. CASE Len(got) # call.n
  <2>1. call' = [call EXCEPT !.got = got] /\ ret' = ret
    BY <1>3, <1>9
  <2>2. Len(got) < call.n
    <3>1. m \in Nat /\ m <= left
      BY <1>1, <1>2, <1>4
    <3>2. Len(got) = Len(call.got) + m
      BY <1>5, <1>7
    <3> QED
      BY <1>1, <1>2, <1>9, <3>1, <3>2
  <2>3. ASSUME NEW b, call.op = "rio_readn" => b = <<>> PROVE CallGoes(call', taken', b)
    BY <1>7, <2>1, <2>2, <2>3 DEF CallGoes
  <2>4. \A e, u, b : Got(ret', e, u, b)
    BY <2>1, RioIs, GotOk
  <2>5. call' \in Calls /\ ret' \in Results
    BY <1>7, <2>1, RioIs
  <2> QED
    BY <1>7, <2>3, <2>4, <2>5
<1> QED
  BY <1>8, <1>9

LEMMA ReadnbStep ==
  ASSUME RioInv, rio_readnb
  PROVE  RioInv'
<1>1. /\ call.op = "rio_readnb" /\ rio_buf # <<>> /\ Copy(rio_buf)
      /\ rio_buf' = SubSeq(rio_buf, call.n - Len(call.got) + 1, Len(rio_buf))
      /\ UNCHANGED <<stream, coming, unread, end>>
      /\ rio_buf \in Text /\ unread \in Text /\ taken \in Text
  BY RioIs DEF rio_readnb
<1>2. ret.how = "ok"
  BY <1>1, RioIs DEF Got, Results
<1>3. PICK x \in Text, y \in Text :
        /\ rio_buf = x \o y /\ y = SubSeq(rio_buf, call.n - Len(call.got) + 1, Len(rio_buf))
        /\ taken' = taken \o x /\ taken' \in Text /\ call' \in Calls /\ ret' \in Results
        /\ \A b : (call.op = "rio_readn" => b = <<>>) => CallGoes(call', taken', b)
        /\ \A e, u, b : Got(ret', e, u, b)
  BY <1>1, <1>2, Copies
<1>4. rio_buf' = y
  BY <1>1, <1>3
<1>5. Flows(taken, rio_buf, unread)'
  BY <1>1, <1>3, <1>4, FlowsFromBuffer
<1>6. CallGoes(call', taken', rio_buf') /\ Got(ret', end', unread', rio_buf')
  BY <1>1, <1>3
<1> QED
  BY <1>1, <1>3, <1>4, <1>5, <1>6, RioIs DEF RioInv, RioTypeOK

LEMMA ReadnStep ==
  ASSUME RioInv, rio_readn
  PROVE  RioInv'
<1>1. /\ call.op = "rio_readn" /\ unread # <<>> /\ Copy(unread)
      /\ unread' = SubSeq(unread, call.n - Len(call.got) + 1, Len(unread))
      /\ UNCHANGED <<stream, coming, end, rio_buf>>
      /\ unread \in Text /\ taken \in Text
  BY RioIs DEF rio_readn, Rest
<1>2. ret.how = "ok" /\ rio_buf = <<>>
  BY <1>1, RioIs DEF Got, Results, CallGoes
<1>3. PICK x \in Text, y \in Text :
        /\ unread = x \o y /\ y = SubSeq(unread, call.n - Len(call.got) + 1, Len(unread))
        /\ taken' = taken \o x /\ taken' \in Text /\ call' \in Calls /\ ret' \in Results
        /\ \A b : (call.op = "rio_readn" => b = <<>>) => CallGoes(call', taken', b)
        /\ \A e, u, b : Got(ret', e, u, b)
  BY <1>1, <1>2, Copies
<1>4. unread' = y
  BY <1>1, <1>3
<1>5. Flows(taken, rio_buf, unread)'
  BY <1>1, <1>2, <1>3, <1>4, FlowsFromKernel
<1>6. CallGoes(call', taken', rio_buf') /\ Got(ret', end', unread', rio_buf')
  BY <1>1, <1>2, <1>3
<1> QED
  BY <1>1, <1>2, <1>3, <1>4, <1>5, <1>6, RioIs DEF RioInv, RioTypeOK

(* A call begins.                                                           *)
LEMMA CallStep ==
  ASSUME RioInv, call.op = "none", NEW op \in {"rio_readlineb", "rio_readnb", "rio_readn"},
         NEW n \in Nat \ {0, 1}, op = "rio_readn" => rio_buf = <<>>, call' = Calling(op, n),
         UNCHANGED <<stream, coming, unread, end, rio_buf, ret, taken>>
  PROVE  RioInv'
<1>1. <<>> \in Text /\ Len(<<>>) = 0 /\ taken \in Text
  BY RioIs, EmptySeq DEF Text
<1>2. call' = [op |-> op, n |-> n, got |-> <<>>] /\ call' \in Calls
  BY <1>1 DEF Calling, Calls, Readers
<1>3. taken = taken \o <<>>
  BY <1>1, ConcatEmptySeq DEF Text
<1>4. CallGoes(call', taken', rio_buf')
  <2>1. \E before \in Text : taken = before \o <<>>
    BY <1>1, <1>3
  <2>2. call'.op = op /\ call'.n = n /\ call'.got = <<>> /\ 0 < n - 1 /\ 0 < n
    BY <1>2
  <2> QED
    BY <1>1, <2>1, <2>2 DEF CallGoes, NoNewline
<1>5. Flows(taken, rio_buf, unread)' /\ Got(ret, end, unread, rio_buf)'
  BY RioIs DEF Flows
<1> QED
  BY <1>2, <1>4, <1>5, RioIs DEF RioInv, RioTypeOK

(* A connection begins.                                                     *)
LEMMA Begins ==
  ASSUME NEW s \in Text
  PROVE  /\ \E rest \in Text : s = <<>> \o <<>> \o <<>> \o rest /\ rest = s
         /\ <<>> \in Text /\ NoCall \in Calls /\ NoRet \in Results
         /\ \A e, u, b : Got(NoRet, e, u, b)
         /\ \A t, b : CallGoes(NoCall, t, b)
<1>1. <<>> \in Text /\ <<>> \o <<>> = <<>> /\ <<>> \o s = s
  BY EmptySeq, ConcatEmptySeq DEF Text
<1>2. NoCall \in Calls /\ NoRet \in Results
  BY <1>1 DEF NoCall, NoRet, Calls, Results, Readers
<1>3. \A e, u, b : Got(NoRet, e, u, b)
  BY DEF Got, NoRet
<1>4. \A t, b : CallGoes(NoCall, t, b)
  BY DEF CallGoes, NoCall
<1> QED
  BY <1>1, <1>2, <1>3, <1>4

LEMMA RioBegins ==
  ASSUME RioAssumption, RioInit
  PROVE  RioInv
<1>1. /\ stream \in Text /\ coming = stream /\ unread = <<>> /\ end = "open"
      /\ rio_buf = <<>> /\ call = NoCall /\ ret = NoRet /\ taken = <<>>
  BY DEF RioInit, RioAssumption, Text
<1>2. /\ \E rest \in Text : stream = <<>> \o <<>> \o <<>> \o rest /\ rest = stream
      /\ <<>> \in Text /\ NoCall \in Calls /\ NoRet \in Results
      /\ \A e, u, b : Got(NoRet, e, u, b)
      /\ \A t, b : CallGoes(NoCall, t, b)
  BY <1>1, Begins
<1>3. Flows(taken, rio_buf, unread)
  BY <1>1, <1>2 DEF Flows
<1> QED
  BY <1>1, <1>2, <1>3, RioIs

LEMMA RioSame ==
  ASSUME RioInv, UNCHANGED rioVars
  PROVE  RioInv'
BY DEF rioVars, RioInv, RioTypeOK, Flows, CallGoes, Got

LEMMA ReaderSteps ==
  ASSUME RioAssumption, RioInv, ReaderStep
  PROVE  RioInv'
BY RefillStep, ReadEndsStep, ReadLineStep, ReadnbStep, ReadnStep DEF ReaderStep

LEMMA RioStep ==
  ASSUME RioAssumption, RioInv, [RioNext]_rioVars
  PROVE  RioInv'
<1>1. ASSUME AnyCall PROVE RioInv'
  <2>1. PICK op \in {"rio_readlineb", "rio_readnb", "rio_readn"}, n \in 2 .. 4 :
          (op = "rio_readn" => rio_buf = <<>>) /\ call' = Calling(op, n)
    BY <1>1 DEF AnyCall
  <2>2. /\ call.op = "none" /\ n \in Nat \ {0, 1}
        /\ UNCHANGED <<stream, coming, unread, end, rio_buf, ret, taken>>
    BY <1>1 DEF AnyCall
  <2> QED
    BY <2>1, <2>2, CallStep
<1> QED
  BY <1>1, SendStep, EndStep, ReaderSteps, RioSame DEF RioNext

(* csapp.c: whatever the pieces and the sizes of the buffers, the callers   *)
(* of the three readers get the stream in order and each character once,    *)
(* and a call that succeeds has returned what it promises (726-870).        *)
THEOREM RioReads ==
  ASSUME RioAssumption
  PROVE  RioSpec => []ReadsStream
<1>1. RioInit => RioInv
  BY RioBegins
<1>2. RioInv /\ [RioNext]_rioVars => RioInv'
  BY RioStep
<1> QED
  BY <1>1, <1>2, RioSays, PTL DEF RioSpec

(* tiny.c: the same for every client of the server, whose calls read one    *)
(* line each, and after a client that was answered before (35-38, 54-117).  *)
THEOREM TinyReads ==
  ASSUME TinyAssumption
  PROVE  TinySpec => []ReadsStream
<1>0. RioAssumption /\ MAXLINE \in Nat \ {0, 1}
  BY DEF TinyAssumption
<1>1. RioInit => RioInv
  BY <1>0, RioBegins
<1>2. ASSUME RioInv, [TinyNext]_<<rioVars, tinyVars>> PROVE RioInv'
  <2>1. ASSUME Accept PROVE RioInv'
    <3>1. PICK s \in Streams : Open(s, Line)
      BY <2>1 DEF Accept
    <3>2. /\ stream' = s /\ coming' = s /\ unread' = <<>> /\ end' = "open"
          /\ rio_buf' = <<>> /\ call' = Line /\ ret' = NoRet /\ taken' = <<>> /\ s \in Text
      BY <1>0, <3>1 DEF Open, RioAssumption, Text
    <3>3. /\ \E rest \in Text : s = <<>> \o <<>> \o <<>> \o rest /\ rest = s
          /\ <<>> \in Text /\ NoRet \in Results /\ \A e, u, b : Got(NoRet, e, u, b)
      BY <3>2, Begins
    <3>4. Line = [op |-> "rio_readlineb", n |-> MAXLINE, got |-> <<>>] /\ Line \in Calls
      BY <1>0, <3>3 DEF Line, Calling, Calls, Readers
    <3>5. CallGoes(call', taken', rio_buf')
      <4>1. <<>> = <<>> \o <<>> /\ Len(<<>>) = 0
        BY <3>3, ConcatEmptySeq DEF Text
      <4> QED
        BY <1>0, <3>2, <3>3, <3>4, <4>1 DEF CallGoes, NoNewline
    <3>6. Flows(taken, rio_buf, unread)' /\ Got(ret, end, unread, rio_buf)'
      BY <3>2, <3>3 DEF Flows
    <3> QED
      BY <3>2, <3>3, <3>4, <3>5, <3>6 DEF RioInv, RioTypeOK
  <2>2. ASSUME Returned, ReadAgain PROVE RioInv'
    BY <1>0, <1>2, <2>2, CallStep DEF Returned, ReadAgain, Line
  <2>3. GotRequest \/ GotHeader => UNCHANGED rioVars \/ (Returned /\ ReadAgain)
    BY DEF GotRequest, GotHeader
  <2>4. Parse \/ Write \/ Written \/ WaitCgi \/ Close \/ CgiEnds => UNCHANGED rioVars
    BY DEF Parse, Write, Written, WaitCgi, Close, CgiEnds
  <2>5. Reads => ReaderStep
    BY DEF Reads
  <2>6. Client => SendPiece \/ EndStream
    BY DEF Client
  <2> QED
    BY <1>0, <1>2, <2>1, <2>2, <2>3, <2>4, <2>5, <2>6, ReaderSteps, SendStep, EndStep, RioSame
       DEF TinyNext, ServerStep
<1> QED
  BY <1>1, <1>2, RioSays, PTL DEF TinySpec
-----------------------------------------------------------------------------
(* HttpWrite                                                                *)

HttpSpec == H!HttpInit /\ [][H!HttpNext]_httpVars

Unit == [what : {"status", "length", "linger", "blank", "body"}, n : Nat]

(* The lines before a body of n units.                                      *)
Opening(n) == <<H!Line("status", 0)>> \o H!headers(n)

FileReady ==
    /\ m_iv = <<"buf", "file">> /\ m_file \in {"mapped", "failed"}
    /\ st_size \in FileSizes \ {0} /\ m_write_buf = Opening(st_size)

PageReady == m_iv = <<"buf">> /\ m_write_buf = Opening(ErrorSize) \o H!Body(ErrorSize)

(* While an answer waits to be written it is whole and as process_write     *)
(* left it, and all of it is still to be sent unless a writev was short.    *)
AnswerInv ==
    /\ conn \in {"in", "out", "writev", "closed"}
    /\ room \in Nat /\ bytes_have_send \in Nat /\ received \in Seq(Unit) /\ short \in BOOLEAN
    /\ conn = "in" => m_write_buf = <<>>
    /\ conn \in {"out", "writev"} => FileReady \/ PageReady
    /\ conn \in {"out", "writev"} /\ ~short => received = <<>>
    /\ conn = "writev" /\ ~short => bytes_have_send = 0

LEMMA UnitsAre ==
  ASSUME NEW n \in Nat
  PROVE  /\ <<H!Line("status", 0)>> \in Seq(Unit) /\ Len(<<H!Line("status", 0)>>) = 1
         /\ H!headers(n) \in Seq(Unit) /\ Len(H!headers(n)) = 3
         /\ Opening(n) \in Seq(Unit) /\ Len(Opening(n)) = 4
         /\ H!Body(n) \in Seq(Unit) /\ Len(H!Body(n)) = n
<1> DEFINE a == <<H!Line("status", 0)>>
           h == H!headers(n)
<1>1. /\ H!Line("status", 0) \in Unit /\ H!Line("length", n) \in Unit /\ H!Line("linger", 0) \in Unit
      /\ H!Line("blank", 0) \in Unit /\ H!Line("body", n) \in Unit
  BY DEF H!Line, Unit
<1>2. a \in Seq(Unit) /\ Len(a) = 1
  <2> DEFINE l == H!Line("status", 0)
  <2>1. l \in Unit /\ a = <<l>>
    BY <1>1
  <2> HIDE DEF l, a
  <2> QED
    BY <2>1
<1>3. h \in Seq(Unit) /\ Len(h) = 3
  <2> DEFINE l == H!Line("length", n)
             m == H!Line("linger", 0)
             k == H!Line("blank", 0)
  <2>1. l \in Unit /\ m \in Unit /\ k \in Unit /\ h = <<l, m, k>>
    BY <1>1 DEF H!headers
  <2> HIDE DEF l, m, k, h
  <2> QED
    BY <2>1
<1> HIDE DEF a, h
<1>4. Opening(n) \in Seq(Unit) /\ Len(Opening(n)) = 4
  <2>1. a \o h \in Seq(Unit) /\ Len(a \o h) = Len(a) + Len(h)
    BY <1>2, <1>3, ConcatProperties
  <2> QED
    BY <1>2, <1>3, <2>1 DEF Opening, a, h
<1>5. H!Body(n) \in Seq(Unit) /\ Len(H!Body(n)) = n
  <2> DEFINE b == H!Body(n)
             l == H!Line("body", n)
  <2>1. b \in [1 .. n -> Unit]
    <3>1. l \in Unit /\ b = [k \in 1 .. n |-> l]
      BY <1>1 DEF H!Body
    <3> HIDE DEF l, b
    <3> QED
      BY <3>1
  <2>2. DOMAIN b = 1 .. n
    BY <2>1
  <2> HIDE DEF b
  <2>3. b \in Seq(Unit)
    BY <2>1, SeqDef
  <2>4. Len(b) = n
    BY <2>2, <2>3, LenProperties
  <2> QED
    BY <2>3, <2>4 DEF b
<1> QED
  BY <1>2, <1>3, <1>4, <1>5 DEF a, h

(* All that process_write adds fits into m_write_buf.                       *)
LEMMA PreparedIs ==
  ASSUME H!WriteAssumption, m_write_buf = <<>>, NEW n \in Nat
  PROVE  /\ H!Prepared(n, <<>>) = Opening(n)
         /\ H!Prepared(n, H!Body(ErrorSize)) = Opening(n) \o H!Body(ErrorSize)
<1> DEFINE status == <<H!Line("status", 0)>>
           body == H!Body(ErrorSize)
<1>1. WRITE_BUFFER_SIZE - 1 > 5 + ErrorSize /\ ErrorSize \in Nat /\ WRITE_BUFFER_SIZE \in Int
  BY DEF H!WriteAssumption
<1>2. /\ status \in Seq(Unit) /\ Len(status) = 1 /\ H!headers(n) \in Seq(Unit) /\ Len(H!headers(n)) = 3
      /\ Opening(n) \in Seq(Unit) /\ Len(Opening(n)) = 4
      /\ Opening(n) = status \o H!headers(n)
  BY UnitsAre DEF Opening
<1>3. body \in Seq(Unit) /\ Len(body) = ErrorSize
  BY <1>1, UnitsAre
<1>4. Len(<<>>) = 0 /\ <<>> \o status = status /\ Opening(n) \o <<>> = Opening(n)
  BY <1>2, ConcatEmptySeq
<1> HIDE DEF status, body
<1>5. H!add_response(m_write_buf, status) = status
  BY <1>1, <1>2, <1>4 DEF H!add_response, H!add_response_fits
<1>6. H!add_response(status, H!headers(n)) = Opening(n)
  BY <1>1, <1>2 DEF H!add_response, H!add_response_fits
<1>7. H!add_response(Opening(n), <<>>) = Opening(n)
  BY <1>1, <1>2, <1>4 DEF H!add_response, H!add_response_fits
<1>8. H!add_response(Opening(n), body) = Opening(n) \o body
  BY <1>1, <1>2, <1>3 DEF H!add_response, H!add_response_fits
<1>9. \A content : H!Prepared(n, content) = H!add_response(Opening(n), content)
  BY <1>5, <1>6 DEF H!Prepared, status
<1> QED
  BY <1>7, <1>8, <1>9 DEF body

(* What a writev offers is never more than what the answer has, and is the  *)
(* answer if it is as much.                                                 *)
LEMMA OfferedIs ==
  ASSUME H!WriteAssumption, FileReady \/ PageReady
  PROVE  /\ H!Offered \in Seq(Unit) /\ m_write_buf \in Seq(Unit)
         /\ (IF Len(m_iv) = 2 THEN st_size ELSE 0) \in Nat
         /\ Len(H!Offered) <= Len(m_write_buf) + (IF Len(m_iv) = 2 THEN st_size ELSE 0)
         /\ Len(H!Offered) = Len(m_write_buf) + (IF Len(m_iv) = 2 THEN st_size ELSE 0)
              => H!Framed(H!Offered)
         /\ Len(m_iv) = 2 => m_file # "none"
<1>1. FileSizes \subseteq Nat /\ ErrorSize \in Nat
  BY DEF H!WriteAssumption
<1>2. CASE FileReady
  <2> DEFINE open == Opening(st_size)
             body == H!Body(st_size)
  <2>1. /\ m_iv = <<"buf", "file">> /\ Len(m_iv) = 2 /\ st_size \in FileSizes /\ st_size \in Nat
        /\ st_size > 0 /\ m_write_buf = open /\ m_file \in {"mapped", "failed"}
    BY <1>1, <1>2 DEF FileReady
  <2>2. open \in Seq(Unit) /\ Len(open) = 4 /\ body \in Seq(Unit) /\ Len(body) = st_size
    BY <2>1, UnitsAre
  <2>3. H!Offered = open \o (IF m_file # "failed" THEN body ELSE <<>>)
    BY <2>1 DEF H!Offered
  <2>6. H!Framed(open \o body)
    BY <2>1 DEF H!Framed, Opening
  <2> HIDE DEF open, body
  <2>4. open \o body \in Seq(Unit) /\ Len(open \o body) = 4 + st_size
    <3>1. open \o body \in Seq(Unit) /\ Len(open \o body) = Len(open) + Len(body)
      BY <2>2, ConcatProperties
    <3> QED
      BY <2>2, <3>1
  <2>5. open \o <<>> = open
    BY <2>2, ConcatEmptySeq
  <2> QED
    BY <2>1, <2>2, <2>3, <2>4, <2>5, <2>6
<1>3. CASE PageReady
  <2> DEFINE page == Opening(ErrorSize) \o H!Body(ErrorSize)
  <2>1. m_iv = <<"buf">> /\ Len(m_iv) = 1 /\ m_write_buf = page
    BY <1>3 DEF PageReady
  <2>2. page \in Seq(Unit) /\ Len(page) \in Nat
    BY <1>1, UnitsAre, ConcatProperties
  <2>3. H!Offered = page \o <<>>
    BY <2>1 DEF H!Offered
  <2>4. page \o <<>> = page
    BY <2>2, ConcatEmptySeq
  <2>5. H!Framed(page)
    BY DEF H!Framed, Opening
  <2> HIDE DEF page
  <2> QED
    BY <2>1, <2>2, <2>3, <2>4, <2>5
<1> QED
  BY <1>2, <1>3

(* A writev that was not short sends all, and write() decides that it did.  *)
LEMMA WritevIs ==
  ASSUME H!WriteAssumption, AnswerInv, H!Writev
  PROVE  /\ received' \in Seq(Unit) /\ bytes_have_send' \in Nat /\ room' \in Nat /\ short' \in BOOLEAN
         /\ ~short' => H!Decided /\ H!Framed(received')
         /\ Len(m_iv) = 2 => m_file # "none"
<1> DEFINE size == IF Len(m_iv) = 2 THEN st_size ELSE 0
           all == H!Offered
           temp == IF Len(all) < room THEN Len(all) ELSE room
<1>1. /\ conn = "writev" /\ room > 0
      /\ received' = received \o SubSeq(all, 1, temp)
      /\ bytes_have_send' = bytes_have_send + temp /\ room' = room - temp
      /\ short' = (short \/ temp < Len(m_write_buf) + size)
  BY DEF H!Writev
<1>2. /\ FileReady \/ PageReady
      /\ room \in Nat /\ bytes_have_send \in Nat /\ received \in Seq(Unit) /\ short \in BOOLEAN
      /\ ~short => received = <<>> /\ bytes_have_send = 0
  BY <1>1 DEF AnswerInv
<1>3. /\ all \in Seq(Unit) /\ m_write_buf \in Seq(Unit) /\ size \in Nat
      /\ Len(all) <= Len(m_write_buf) + size
      /\ Len(all) = Len(m_write_buf) + size => H!Framed(all)
      /\ Len(m_iv) = 2 => m_file # "none"
  BY <1>2, OfferedIs
<1>4. Len(all) \in Nat /\ Len(m_write_buf) \in Nat
  BY <1>3
<1> HIDE DEF size, all
<1>5. temp \in Nat /\ temp <= Len(all) /\ temp <= room
  BY <1>2, <1>4
<1> HIDE DEF temp
<1>6. SubSeq(all, 1, temp) \in Seq(Unit)
  <2>1. \A k \in 1 .. temp : all[k] \in Unit
    BY <1>3, <1>4, <1>5
  <2> QED
    BY <1>5, <2>1, SubSeqProperties
<1>7. received' \in Seq(Unit)
  BY <1>1, <1>2, <1>6, ConcatProperties
<1>8. bytes_have_send' \in Nat /\ room' \in Nat /\ short' \in BOOLEAN
  BY <1>1, <1>2, <1>5
<1>9. ASSUME ~short' PROVE H!Decided /\ H!Framed(received')
  <2>1. ~short /\ ~(temp < Len(m_write_buf) + size)
    BY <1>1, <1>9
  <2>2. temp = Len(all) /\ Len(all) = Len(m_write_buf) + size
    BY <1>3, <1>4, <1>5, <2>1
  <2>3. H!Decided
    BY <1>1, <1>2, <1>3, <1>4, <2>1, <2>2 DEF H!Decided
  <2>4. SubSeq(all, 1, temp) = all /\ <<>> \o all = all
    BY <1>3, <2>2, SubSeqFull, ConcatEmptySeq
  <2>5. received' = all
    BY <1>1, <1>2, <2>1, <2>4
  <2> QED
    BY <1>3, <2>2, <2>3, <2>5
<1> QED
  BY <1>3, <1>7, <1>8, <1>9

LEMMA ProcessKeeps ==
  ASSUME H!WriteAssumption, AnswerInv, H!Process
  PROVE  AnswerInv'
<1>1. /\ conn = "in" /\ m_write_buf = <<>> /\ received' = <<>> /\ short' = FALSE
      /\ bytes_have_send' = bytes_have_send /\ room' = room
      /\ room \in Nat /\ bytes_have_send \in Nat /\ <<>> \in Seq(Unit)
  BY EmptySeq DEF AnswerInv, H!Process
<1>2. PICK outcome \in {"file", "page"}, size \in FileSizes :
        /\ outcome = "page" => size = 0
        /\ H!do_request(outcome, size)
        /\ LET n == IF size > 0 THEN size ELSE ErrorSize
               content == IF size > 0 THEN <<>> ELSE H!Body(ErrorSize)
           IN  /\ m_write_buf' = H!Prepared(n, content)
               /\ IF outcome = "file" /\ size = 0 THEN conn' = "closed" /\ UNCHANGED m_iv
                  ELSE /\ conn' = "out"
                       /\ m_iv' = IF size > 0 THEN <<"buf", "file">> ELSE <<"buf">>
  BY DEF H!Process
<1>3. size \in Nat /\ ErrorSize \in Nat
  BY DEF H!WriteAssumption
<1>4. CASE size > 0
  <2>5. size # 0 /\ outcome = "file"
    <3>1. outcome = "page" => size = 0
      BY <1>2
    <3> QED
      BY <1>3, <1>4, <3>1
  <2>1. /\ outcome = "file" /\ conn' = "out" /\ m_iv' = <<"buf", "file">>
        /\ m_write_buf' = H!Prepared(size, <<>>)
    BY <1>2, <1>4, <2>5
  <2>2. m_file' \in {"mapped", "failed"} /\ st_size' = size
    BY <1>2, <1>3, <1>4, <2>1 DEF H!do_request
  <2>3. m_write_buf' = Opening(size)
    BY <1>1, <1>3, <2>1, PreparedIs
  <2>4. FileReady'
    BY <1>2, <1>3, <1>4, <2>1, <2>2, <2>3 DEF FileReady, Opening, H!headers, H!Line
  <2> QED
    BY <1>1, <2>1, <2>4 DEF AnswerInv
<1>5. CASE ~(size > 0) /\ outcome = "file"
  <2>1. size = 0
    BY <1>3, <1>5
  <2>2. conn' = "closed"
    BY <1>2, <1>5, <2>1
  <2> QED
    BY <1>1, <2>2 DEF AnswerInv
<1>6. CASE ~(size > 0) /\ outcome = "page"
  <2>1. /\ conn' = "out" /\ m_iv' = <<"buf">>
        /\ m_write_buf' = H!Prepared(ErrorSize, H!Body(ErrorSize))
    BY <1>2, <1>6
  <2>2. m_write_buf' = Opening(ErrorSize) \o H!Body(ErrorSize)
    BY <1>1, <1>3, <2>1, PreparedIs
  <2>3. PageReady'
    BY <2>1, <2>2 DEF PageReady, Opening, H!headers, H!Line, H!Body
  <2> QED
    BY <1>1, <2>1, <2>3 DEF AnswerInv
<1> QED
  BY <1>2, <1>4, <1>5, <1>6

LEMMA ReadySame ==
  ASSUME FileReady \/ PageReady, UNCHANGED <<m_write_buf, m_iv, m_file, st_size>>
  PROVE  FileReady' \/ PageReady'
BY DEF FileReady, PageReady, Opening, H!headers, H!Line, H!Body

LEMMA WritevKeeps ==
  ASSUME H!WriteAssumption, AnswerInv, H!Writev
  PROVE  AnswerInv'
<1>1. /\ received' \in Seq(Unit) /\ bytes_have_send' \in Nat /\ room' \in Nat /\ short' \in BOOLEAN
      /\ ~short' => H!Decided
  BY WritevIs
<1>2. conn = "writev" /\ UNCHANGED <<m_iv, st_size>>
  BY DEF H!Writev
<1>3. CASE H!Decided
  <2>1. (conn' = "in" /\ m_write_buf' = <<>>) \/ conn' = "closed"
    BY <1>3 DEF H!Writev, H!reset
  <2> QED
    BY <1>1, <2>1 DEF AnswerInv
<1>4. CASE ~H!Decided
  <2>1. conn' = conn /\ m_file' = m_file /\ m_write_buf' = m_write_buf /\ short'
    BY <1>1, <1>4 DEF H!Writev
  <2>2. FileReady' \/ PageReady'
    BY <1>2, <2>1, ReadySame DEF AnswerInv
  <2> QED
    BY <1>1, <1>2, <2>1, <2>2 DEF AnswerInv
<1> QED
  BY <1>3, <1>4

LEMMA AnswerStep ==
  ASSUME H!WriteAssumption, AnswerInv, [H!HttpNext]_httpVars
  PROVE  AnswerInv'
<1>1. conn \in {"out", "writev"} => FileReady \/ PageReady
  BY DEF AnswerInv
<1>2. ASSUME H!ClientReads \/ H!ClientResets \/ UNCHANGED httpVars PROVE AnswerInv'
  <2>1. UNCHANGED <<conn, m_write_buf, m_iv, m_file, st_size, bytes_have_send, received, short>>
    BY <1>2 DEF H!ClientReads, H!ClientResets, H!objVars, httpVars
  <2>2. room' \in Nat
    <3>1. CASE H!ClientReads
      <4>1. PICK r \in room + 1 .. Room : room' = r
        BY <3>1 DEF H!ClientReads
      <4> QED
        BY <4>1 DEF AnswerInv
    <3>2. CASE H!ClientResets \/ UNCHANGED httpVars
      BY <3>2 DEF H!ClientResets, httpVars, AnswerInv
    <3> QED
      BY <1>2, <3>1, <3>2
  <2>3. conn \in {"out", "writev"} => FileReady' \/ PageReady'
    BY <1>1, <2>1, ReadySame
  <2> QED
    BY <2>1, <2>2, <2>3 DEF AnswerInv
<1>3. ASSUME H!AcceptInit PROVE AnswerInv'
  <2>1. Room \in Nat /\ <<>> \in Seq(Unit)
    BY EmptySeq DEF H!WriteAssumption
  <2> QED
    BY <1>3, <2>1 DEF H!AcceptInit, H!reset, AnswerInv
<1>4. ASSUME H!HangUp \/ H!WritevFails PROVE AnswerInv'
  BY <1>4 DEF H!HangUp, H!WritevFails, H!objVars, H!sockVars, AnswerInv
<1>5. ASSUME H!WriteBegins PROVE AnswerInv'
  <2>1. /\ conn = "out" /\ bytes_have_send' = 0
        /\ UNCHANGED <<m_iv, m_file, st_size, room, received, short>>
        /\ IF m_write_buf = <<>> THEN conn' = "in" /\ m_write_buf' = <<>>
           ELSE conn' = "writev" /\ m_write_buf' = m_write_buf
    BY <1>5 DEF H!WriteBegins, H!reset, H!sockVars
  <2>2. CASE m_write_buf = <<>>
    BY <2>1, <2>2 DEF AnswerInv
  <2>3. CASE m_write_buf # <<>>
    <3>1. FileReady' \/ PageReady'
      BY <1>1, <2>1, <2>3, ReadySame
    <3> QED
      BY <2>1, <2>3, <3>1 DEF AnswerInv
  <2> QED
    BY <2>2, <2>3
<1>6. ASSUME H!WritevAgain PROVE AnswerInv'
  <2>1. /\ conn = "writev" /\ conn' = "out" /\ bytes_have_send' = bytes_have_send
        /\ UNCHANGED <<m_write_buf, m_iv, m_file, st_size, room, received, short>>
    BY <1>6 DEF H!WritevAgain, H!objVars, H!sockVars
  <2>2. FileReady' \/ PageReady'
    BY <1>1, <2>1, ReadySame
  <2> QED
    BY <2>1, <2>2 DEF AnswerInv
<1> QED
  BY <1>2, <1>3, <1>4, <1>5, <1>6, ProcessKeeps, WritevKeeps DEF H!HttpNext

(* 04_http_conn.cpp: for files and pages of any size and a socket that      *)
(* takes any part at any time, a writev never sends from a mapping that is  *)
(* gone, and an answer of which no writev was short is whole (299-437).     *)
THEOREM Framing ==
  ASSUME H!WriteAssumption
  PROVE  HttpSpec => ResponseFramed
<1>1. H!HttpInit => AnswerInv
  <2>1. Room \in Nat /\ <<>> \in Seq(Unit)
    BY EmptySeq DEF H!WriteAssumption
  <2>2. H!HttpInit => /\ conn = "closed" /\ room = Room /\ bytes_have_send = 0 /\ received = <<>>
                      /\ short \in BOOLEAN
    BY DEF H!HttpInit
  <2> QED
    BY <2>1, <2>2 DEF AnswerInv
<1>2. AnswerInv /\ [H!HttpNext]_httpVars => AnswerInv'
  BY AnswerStep
<1>3. AnswerInv => H!ResponseFramed
  BY WritevIs DEF H!ResponseFramed
<1> QED
  BY <1>1, <1>2, <1>3, PTL DEF HttpSpec, ResponseFramed
=============================================================================
