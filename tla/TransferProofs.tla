--------------------------- MODULE TransferProofs ---------------------------
(***************************************************************************)
(* Proofs about the module Transfer: that what dotStuffWriter makes of a   *)
(* body and bodyReader makes of that again is the body, normalised, for    *)
(* every body, every way to cut it into chunks and every place where the   *)
(* connection may break, and that topBytes is what its reference says.     *)
(*                                                                         *)
(* The invariant relates three places of the same body: what the client    *)
(* has accepted (text), the line under way (rline and out, the stuffed     *)
(* line as it travels) and the octets the writer has been given (pos).     *)
(***************************************************************************)
EXTENDS Transfer, Induction, SequenceTheorems, FiniteSetTheorems

------------------------------------------------------------------------------
(* Lines, and what the reader makes of them.                                 *)

\* The pieces of a response.
LEMMA Literals ==
    /\ \A o \in Octets : <<o>> \in Seq(Octets)
    /\ <<"CR">> \in Seq(Octets) /\ <<"LF">> \in Seq(Octets)
    /\ CRLF \in Seq(Octets) /\ <<"CR">> \o <<"LF">> = CRLF
<1>1. \A o \in Octets : <<o>> \in Seq(Octets)
  OBVIOUS
<1>2. <<"CR">> \in Seq(Octets) /\ <<"LF">> \in Seq(Octets)
  BY <1>1 DEF Octets
<1>3. CRLF \in Seq(Octets)
  BY DEF CRLF, Octets
<1>4. <<"CR">> \o <<"LF">> = CRLF
  <2> DEFINE c == <<"CR">>
             l == <<"LF">>
  <2>1. /\ c \o l \in Seq(Octets) /\ Len(c \o l) = Len(c) + Len(l)
        /\ \A i \in 1..(Len(c) + Len(l)) :
              (c \o l)[i] = IF i <= Len(c) THEN c[i] ELSE l[i - Len(c)]
    <3>1. c \in Seq(Octets) /\ l \in Seq(Octets)
      BY <1>2
    <3> HIDE DEF c, l
    <3> QED
      BY <3>1, ConcatProperties
  <2>2. Len(c) = 1 /\ Len(l) = 1 /\ c[1] = "CR" /\ l[1] = "LF"
    OBVIOUS
  <2> HIDE DEF c, l
  <2>3. Len(c \o l) = 2 /\ (c \o l)[1] = "CR" /\ (c \o l)[2] = "LF"
    BY <2>1, <2>2
  <2>4. Len(CRLF) = 2 /\ CRLF[1] = "CR" /\ CRLF[2] = "LF"
    BY DEF CRLF
  <2>5. \A i \in 1..Len(c \o l) : (c \o l)[i] = CRLF[i]
    BY <2>3, <2>4
  <2>6. c \o l = CRLF
    BY <1>3, <2>1, <2>3, <2>4, <2>5, SeqEqual
  <2> QED
    BY <2>6 DEF c, l
<1> QED
  BY <1>1, <1>2, <1>3, <1>4

\* A line without its last octet.
LEMMA LastApart ==
    ASSUME NEW s \in Seq(Octets), s # << >>
    PROVE  /\ SubSeq(s, 1, Len(s) - 1) \in Seq(Octets)
           /\ s = SubSeq(s, 1, Len(s) - 1) \o <<s[Len(s)]>>
<1> DEFINE c == SubSeq(s, 1, Len(s) - 1)
           o == s[Len(s)]
<1>1. Len(s) \in Nat \ {0} /\ \A i \in 1..Len(s) : s[i] \in Octets
  OBVIOUS
<1>2. /\ c \in Seq(Octets) /\ Len(c) = Len(s) - 1
      /\ \A i \in 1..(Len(s) - 1) : c[i] = s[i]
  <2> DEFINE n == Len(s) - 1
  <2>1. n \in Int /\ \A i \in 1..n : s[i] \in Octets
    BY <1>1
  <2> HIDE DEF n
  <2>2. /\ SubSeq(s, 1, n) \in Seq(Octets)
        /\ Len(SubSeq(s, 1, n)) = IF 1 <= n THEN n - 1 + 1 ELSE 0
        /\ \A i \in 1..(n - 1 + 1) : SubSeq(s, 1, n)[i] = s[1 + i - 1]
    BY <2>1, SubSeqProperties
  <2>3. n = Len(s) - 1 /\ n \in Nat
    BY <1>1 DEF n
  <2>4. Len(SubSeq(s, 1, n)) = n
    BY <2>2, <2>3
  <2>5. \A i \in 1..n : SubSeq(s, 1, n)[i] = s[i]
    BY <2>2, <2>3
  <2> QED
    BY <2>2, <2>3, <2>4, <2>5
<1>3. <<o>> \in Seq(Octets)
  BY <1>1
<1> HIDE DEF c
<1>4. /\ c \o <<o>> \in Seq(Octets) /\ Len(c \o <<o>>) = Len(s)
      /\ \A i \in 1..Len(s) : (c \o <<o>>)[i] = IF i <= Len(c) THEN c[i] ELSE <<o>>[i - Len(c)]
  BY <1>1, <1>2, <1>3, ConcatProperties
<1>5. \A i \in 1..Len(s) : (c \o <<o>>)[i] = s[i]
  BY <1>1, <1>2, <1>4
<1> QED
  BY <1>2, <1>4, <1>5, SeqEqual DEF c

\* The dot is taken from the front only.
LEMMA UnstuffFront ==
    ASSUME NEW s \in Seq(Octets), NEW e \in Seq(Octets),
           s # << >> \/ (e # << >> /\ e[1] # ".")
    PROVE  /\ unstuffLine(s) \in Seq(Octets)
           /\ unstuffLine(s \o e) = unstuffLine(s) \o e
<1>1. CASE s = << >>
  <2>1. s \o e = e /\ unstuffLine(s) = << >>
    BY <1>1, ConcatEmptySeq DEF unstuffLine
  <2> QED
    BY <1>1, <2>1, ConcatEmptySeq DEF unstuffLine
<1>2. CASE s # << >>
  <2>1. /\ s \o e \in Seq(Octets) /\ s \o e # << >> /\ (s \o e)[1] = s[1]
        /\ Len(s) \in Nat \ {0}
    BY <1>2, ConcatProperties
  <2>2. CASE s[1] # "."
    BY <1>2, <2>1, <2>2 DEF unstuffLine
  <2>3. CASE s[1] = "."
    <3>1. unstuffLine(s) = Tail(s) /\ unstuffLine(s \o e) = Tail(s \o e)
      BY <1>2, <2>1, <2>3 DEF unstuffLine
    <3>2. Tail(s) \in Seq(Octets) /\ Tail(s \o e) = Tail(s) \o e
      BY <1>2, <2>1
    <3> QED
      BY <3>1, <3>2
  <2> QED
    BY <2>2, <2>3
<1> QED
  BY <1>1, <1>2

\* A line of the server as the reader's caller gets it.
LEMMA AcceptedLine ==
    ASSUME NEW s \in Seq(Octets), s # << >>, s[Len(s)] = "CR"
    PROVE  /\ chomp(s) \in Seq(Octets)
           /\ s = chomp(s) \o <<"CR">>
           /\ unstuffLine(s \o <<"LF">>) = unstuffLine(chomp(s)) \o CRLF
<1> DEFINE c == chomp(s)
<1>1. c = SubSeq(s, 1, Len(s) - 1)
  BY DEF chomp
<1>2. c \in Seq(Octets) /\ s = c \o <<"CR">>
  BY <1>1, LastApart
<1> HIDE DEF c
<1>3. <<"CR">> \in Seq(Octets) /\ <<"LF">> \in Seq(Octets) /\ CRLF \in Seq(Octets)
      /\ <<"CR">> \o <<"LF">> = CRLF
  BY Literals
<1>4. s \o <<"LF">> = c \o CRLF
  <2>1. (c \o <<"CR">>) \o <<"LF">> = c \o (<<"CR">> \o <<"LF">>)
    BY <1>2, <1>3, ConcatAssociative
  <2> QED
    BY <1>2, <1>3, <2>1
<1>5. unstuffLine(c \o CRLF) = unstuffLine(c) \o CRLF
  <2>1. CRLF # << >> /\ CRLF[1] # "."
    BY DEF CRLF
  <2> QED
    BY <1>2, <1>3, <2>1, UnstuffFront
<1> QED
  BY <1>2, <1>4, <1>5 DEF c

\* An octet on its way stays where it is in the response.
LEMMA MoveOctet ==
    ASSUME NEW s \in Seq(Octets), NEW o \in Seq(Octets), o # << >>
    PROVE  /\ Append(s, Head(o)) \in Seq(Octets) /\ Tail(o) \in Seq(Octets)
           /\ Append(s, Head(o)) \o Tail(o) = s \o o
<1> DEFINE h == Head(o)
           t == Tail(o)
<1>1. h \in Octets /\ t \in Seq(Octets) /\ o = <<h>> \o t
  OBVIOUS
<1>2. Append(s, h) \in Seq(Octets) /\ Append(s, h) = s \o <<h>> /\ <<h>> \in Seq(Octets)
  BY <1>1
<1> HIDE DEF h, t
<1>3. (s \o <<h>>) \o t = s \o (<<h>> \o t)
  BY <1>1, <1>2, ConcatAssociative
<1> QED
  BY <1>1, <1>2, <1>3 DEF h, t

------------------------------------------------------------------------------
(* The reference: a body with its line ends normalised.                      *)

\* What an octet of the body becomes.
piece(b, i) == IF bareLF(b, i) THEN CRLF ELSE <<b[i]>>

\* The piece of the output one octet stands for is octets.
LEMMA PieceTyped ==
    ASSUME NEW b \in Seq(Octets), NEW i \in 1..Len(b)
    PROVE  /\ piece(b, i) \in Seq(Octets)
           /\ (Len(piece(b, i)) = 1 \/ Len(piece(b, i)) = 2)
           /\ piece(b, i)[Len(piece(b, i))] = b[i]
<1>1. b[i] \in Octets
  OBVIOUS
<1>2. CASE bareLF(b, i)
  <2>1. piece(b, i) = CRLF /\ b[i] = "LF"
    BY <1>2 DEF piece, bareLF
  <2>2. Len(CRLF) = 2 /\ CRLF[2] = "LF"
    BY DEF CRLF
  <2> QED
    BY <2>1, <2>2, Literals
<1>3. CASE ~bareLF(b, i)
  <2>1. piece(b, i) = <<b[i]>>
    BY <1>3 DEF piece
  <2> QED
    BY <1>1, <2>1, Literals
<1> QED
  BY <1>2, <1>3

\* The reference, octet by octet: what the recursion computes.
LEMMA NormalisedSteps ==
    ASSUME NEW b \in Seq(Octets)
    PROVE  /\ normalisedTo(b)[0] = << >>
           /\ \A i \in 1..Len(b) :
                 normalisedTo(b)[i] = normalisedTo(b)[i - 1] \o piece(b, i)
           /\ \A i \in 0..Len(b) : normalisedTo(b)[i] \in Seq(Octets)
<1> DEFINE n == Len(b)
           V == Seq(Octets)
           e == << >>
           step == [i \in 1..n |-> [x \in V |-> x \o piece(b, i)]]
           Turn(f, i) == IF i = 0 THEN << >>
                         ELSE f[i - 1] \o piece(b, i)
           IsN(f) == f = [i \in 0..n |-> Turn(f, i)]
           N == CHOOSE f : IsN(f)
<1>1. n \in Nat /\ e \in V
  OBVIOUS
<1>2. \A x \in V : \A i \in 1..n : x \o piece(b, i) \in V
  BY PieceTyped, ConcatProperties
<1>3. step \in Steps(n, V)
  BY <1>2 DEF Steps
<1>4. PICK g : Loop(g, n, V, e, step)
  <2> HIDE DEF n, V, e, step
  <2> QED
    BY <1>1, <1>3, LoopFunction
<1>5. \A i \in 0..n : g[i] = Turn(g, i)
  <2> SUFFICES ASSUME NEW i \in 0..n
               PROVE  g[i] = Turn(g, i)
    OBVIOUS
  <2>1. CASE i = 0
    BY <2>1, <1>4 DEF Loop
  <2>2. CASE i \in 1..n
    <3>1. g[i - 1] \in V
      <4> HIDE DEF V, n, e, step
      <4>1. i - 1 \in 0..n
        BY <1>1, <2>2
      <4>2. g \in [0..n -> V]
        BY <1>4 DEF Loop
      <4> QED
        BY <4>1, <4>2
    <3>2. g[i] = step[i][g[i - 1]]
      <4> HIDE DEF V, n, e, step
      <4> QED
        BY <1>4, <2>2 DEF Loop
    <3> HIDE DEF V, n
    <3>3. g[i] = g[i - 1] \o piece(b, i)
      BY <2>2, <3>1, <3>2
    <3> QED
      BY <1>1, <2>2, <3>3
  <2> QED
    BY <1>1, <2>1, <2>2
<1>6. IsN(g)
  <2> HIDE DEF Turn, n, V, e, step
  <2>1. g = [i \in 0..n |-> g[i]]
    BY <1>4 DEF Loop
  <2> QED
    BY <2>1, <1>5
<1>7. IsN(N)
  <2> HIDE DEF IsN
  <2> QED
    BY <1>6
<1>8. normalisedTo(b) = N
  BY DEF normalisedTo, piece
<1>9. \A i \in 0..n : N[i] = Turn(N, i)
  <2> HIDE DEF Turn, N, n
  <2> QED
    BY <1>7
<1> HIDE DEF N, IsN, step, n
<1>10. /\ N[0] = << >>
       /\ \A i \in 1..n : N[i] = N[i - 1] \o piece(b, i)
  <2>1. 0 \in 0..n /\ \A i \in 1..n : i \in 0..n /\ i # 0
    BY <1>1
  <2> QED
    BY <1>9, <2>1, Zenon
<1> DEFINE I == {i \in Nat : i <= n => N[i] \in V}
<1>11. 0 \in I
  BY <1>1, <1>10
<1>12. ASSUME NEW i \in Nat, i \in I
       PROVE  i + 1 \in I
  <2> SUFFICES ASSUME i + 1 <= n
               PROVE  N[i + 1] \in V
    OBVIOUS
  <2>1. i + 1 \in 1..n /\ N[i] \in V /\ (i + 1) - 1 = i
    BY <1>1, <1>12
  <2>2. N[i + 1] = N[i] \o piece(b, i + 1)
    BY <1>10, <2>1
  <2> HIDE DEF V
  <2> QED
    BY <1>2, <2>1, <2>2
<1>13. \A i \in Nat : i \in I
  <2> HIDE DEF I
  <2> QED
    BY <1>11, <1>12, InductiveSet
<1>14. \A i \in 0..n : N[i] \in V
  BY <1>1, <1>13
<1> QED
  BY <1>8, <1>10, <1>14 DEF n

\* The order in which pieces are joined does not matter.
LEMMA Joined == \A s, t, v \in Seq(Octets) : (s \o t) \o v = s \o (t \o v)
  BY ConcatAssociative

\* The octets of the body are given one after the other: what they become is a
\* part, at the front, of what all of them become.
LEMMA NormalisedGrows ==
    ASSUME NEW b \in Seq(Octets), NEW i \in 0..Len(b)
    PROVE  \E r \in Seq(Octets) : normalised(b) = normalisedTo(b)[i] \o r
<1> DEFINE n == Len(b)
           N == normalisedTo(b)
           I == {k \in Nat : i + k <= n => \E r \in Seq(Octets) : N[i + k] = N[i] \o r}
<1>1. n \in Nat /\ i \in 0..n
  OBVIOUS
<1>2. /\ \A j \in 1..n : N[j] = N[j - 1] \o piece(b, j)
      /\ \A j \in 0..n : N[j] \in Seq(Octets)
  BY NormalisedSteps
<1>3. \A j \in 1..n : piece(b, j) \in Seq(Octets)
  BY PieceTyped
<1> HIDE DEF n, N
<1>4. 0 \in I
  <2>1. i + 0 = i /\ N[i] \in Seq(Octets) /\ << >> \in Seq(Octets)
    BY <1>1, <1>2
  <2>2. N[i] = N[i] \o << >>
    BY <2>1, ConcatEmptySeq
  <2> QED
    BY <2>1, <2>2
<1>5. ASSUME NEW k \in Nat, k \in I
      PROVE  k + 1 \in I
  <2> DEFINE Goal == \E r \in Seq(Octets) : N[i + (k + 1)] = N[i] \o r
  <2>0. (i + (k + 1) <= n => Goal) => k + 1 \in I
    <3>1. k + 1 \in Nat
      OBVIOUS
    <3> QED
      BY <3>1, Zenon
  <2> SUFFICES ASSUME i + (k + 1) <= n
               PROVE  \E r \in Seq(Octets) : N[i + (k + 1)] = N[i] \o r
    BY <2>0
  <2> DEFINE j == i + (k + 1)
             p == piece(b, j)
  <2>1. j \in 1..n /\ j - 1 = i + k /\ i + k <= n /\ i + k \in 0..n
    BY <1>1
  <2>2. PICK r \in Seq(Octets) : N[i + k] = N[i] \o r
    BY <1>5, <2>1
  <2>3. N[j] = N[i + k] \o p /\ p \in Seq(Octets)
    BY <1>2, <1>3, <2>1
  <2>4. (N[i] \o r) \o p = N[i] \o (r \o p) /\ r \o p \in Seq(Octets)
    <3> DEFINE x == N[i]
    <3>1. x \in Seq(Octets) /\ r \in Seq(Octets) /\ p \in Seq(Octets)
      BY <1>1, <1>2, <2>3
    <3> HIDE DEF x, p, j
    <3>2. (x \o r) \o p = x \o (r \o p)
      BY <3>1, Joined, Zenon
    <3>3. r \o p \in Seq(Octets)
      BY <3>1, ConcatProperties
    <3> QED
      BY <3>2, <3>3 DEF x
  <2> QED
    BY <2>2, <2>3, <2>4
<1>6. \A k \in Nat : k \in I
  <2> HIDE DEF I
  <2> QED
    BY <1>4, <1>5, InductiveSet
<1>7. n - i \in Nat /\ i + (n - i) = n
  BY <1>1
<1>8. \E r \in Seq(Octets) : N[n] = N[i] \o r
  <2> DEFINE k == n - i
  <2>1. k \in I /\ i + k = n
    BY <1>6, <1>7
  <2>2. i + k <= n
    BY <1>1, <1>7
  <2> HIDE DEF k
  <2> QED
    BY <2>1, <2>2
<1> QED
  BY <1>8 DEF normalised, N, n

\* What an end of the body after the octet last adds.
closing(last) == IF last \in {"none", "LF"} THEN << >>
                 ELSE IF last = "CR" THEN <<"LF">> ELSE CRLF

\* The completed body is the normalised one and what Close adds for its last octet.
LEMMA CompletedAs ==
    ASSUME NEW b \in Seq(Octets), NEW last,
           last = IF b = << >> THEN "none" ELSE b[Len(b)]
    PROVE  completed(b) = normalised(b) \o closing(last)
<1> DEFINE n == normalised(b)
<1>1. CASE b = << >>
  <2>1. Len(b) = 0
    BY <1>1
  <2>2. n = << >>
    BY <2>1, NormalisedSteps DEF normalised
  <2>3. completed(b) = << >> /\ closing(last) = << >>
    BY <1>1, <2>2 DEF completed, closing
  <2>4. << >> \o << >> = << >>
    OBVIOUS
  <2> QED
    BY <2>2, <2>3, <2>4
<1>2. CASE b # << >>
  <2> DEFINE l == Len(b)
             m == normalisedTo(b)[l - 1]
             p == piece(b, l)
  <2>1. l \in 1..Len(b) /\ l - 1 \in 0..Len(b)
    BY <1>2
  <2>2. n = m \o p /\ m \in Seq(Octets)
    BY <2>1, NormalisedSteps DEF normalised
  <2>3. p \in Seq(Octets) /\ (Len(p) = 1 \/ Len(p) = 2) /\ p[Len(p)] = last
    BY <1>2, <2>1, PieceTyped
  <2> HIDE DEF m, p, n
  <2>4. /\ n \in Seq(Octets) /\ Len(n) = Len(m) + Len(p)
        /\ \A i \in 1..(Len(m) + Len(p)) : n[i] = IF i <= Len(m) THEN m[i] ELSE p[i - Len(m)]
    BY <2>2, <2>3, ConcatProperties
  <2>5. n # << >> /\ n[Len(n)] = last
    <3>1. Len(m) \in Nat /\ Len(p) \in Nat /\ Len(p) > 0
      <4>1. Len(m) \in Nat
        BY <2>2
      <4>2. Len(p) = 1 \/ Len(p) = 2
        BY <2>3, Zenon
      <4>3. Len(p) \in Nat /\ Len(p) > 0
        BY <4>2
      <4> QED
        BY <4>1, <4>3
    <3>2. Len(n) \in 1..(Len(m) + Len(p)) /\ ~(Len(n) <= Len(m)) /\ Len(n) - Len(m) = Len(p)
      BY <2>4, <3>1
    <3>3. n[Len(n)] = p[Len(p)]
      BY <2>4, <3>2
    <3>4. Len(n) # 0
      BY <3>2
    <3> QED
      BY <2>3, <3>3, <3>4
  <2>6. last \in Octets /\ last # "none"
    BY <1>2 DEF Octets
  <2>7. CASE last = "LF"
    BY <2>4, <2>5, <2>7, ConcatEmptySeq DEF completed, closing, n
  <2>8. CASE last # "LF"
    BY <2>5, <2>6, <2>8 DEF completed, closing, n
  <2> QED
    BY <2>7, <2>8
<1> QED
  BY <1>1, <1>2

------------------------------------------------------------------------------
(* topBytes.                                                                 *)

\* s is in d at place i.
isAt(d, s, i) == SubSeq(d, i, i + Len(s) - 1) = s

\* bytes.Index finds the first place, or there is none.
LEMMA IndexIs ==
    ASSUME NEW d \in Seq(Octets), NEW s \in Seq(Octets)
    PROVE  \/ /\ indexOf(d, s) = 0
              /\ \A i \in 1..(Len(d) - Len(s) + 1) : ~isAt(d, s, i)
           \/ /\ indexOf(d, s) \in 1..(Len(d) - Len(s) + 1)
              /\ isAt(d, s, indexOf(d, s))
              /\ \A i \in 1..(Len(d) - Len(s) + 1) :
                    isAt(d, s, i) => indexOf(d, s) <= i
<1> DEFINE P == {i \in 1..(Len(d) - Len(s) + 1) : isAt(d, s, i)}
           c == CHOOSE i \in P : \A j \in P : i <= j
<1>1. indexOf(d, s) = IF P = {} THEN 0 ELSE c
  BY DEF indexOf, isAt
<1>2. P \subseteq Nat
  OBVIOUS
<1>3. P # {} => c \in P /\ \A j \in P : c <= j
  <2> HIDE DEF P
  <2> QED
    BY <1>2, SmallestElement
<1> HIDE DEF c
<1>4. CASE P = {}
  BY <1>1, <1>4
<1>5. CASE P # {}
  BY <1>1, <1>3, <1>5
<1> QED
  BY <1>4, <1>5

\* The header block ends inside the message.
LEMMA HeaderEndBound ==
    ASSUME NEW d \in Seq(Octets)
    PROVE  headerEnd(d) \in 0..Len(d)
<1> DEFINE crlf == indexOf(d, <<"CR", "LF", "CR", "LF">>)
           lf   == indexOf(d, <<"LF", "LF">>)
<1>1. crlf = 0 \/ crlf \in 1..(Len(d) - 4 + 1)
  <2> DEFINE s == <<"CR", "LF", "CR", "LF">>
  <2>1. s \in Seq(Octets) /\ Len(s) = 4
    BY DEF Octets
  <2> HIDE DEF s
  <2>2. indexOf(d, s) = 0 \/ indexOf(d, s) \in 1..(Len(d) - Len(s) + 1)
    BY <2>1, IndexIs
  <2> QED
    BY <2>1, <2>2 DEF s
<1>2. lf = 0 \/ lf \in 1..(Len(d) - 2 + 1)
  <2> DEFINE s == <<"LF", "LF">>
  <2>1. s \in Seq(Octets) /\ Len(s) = 2
    BY DEF Octets
  <2> HIDE DEF s
  <2>2. indexOf(d, s) = 0 \/ indexOf(d, s) \in 1..(Len(d) - Len(s) + 1)
    BY <2>1, IndexIs
  <2> QED
    BY <2>1, <2>2 DEF s
<1>3. headerEnd(d) = IF crlf > 0 THEN crlf + 3 ELSE IF lf > 0 THEN lf + 1 ELSE 0
  BY DEF headerEnd
<1>4. Len(d) \in Nat
  OBVIOUS
<1> HIDE DEF crlf, lf
<1> QED
  BY <1>1, <1>2, <1>3, <1>4

\* A line ends inside the message, after where it begins if it is not at the end.
LEMMA LineAfterBound ==
    ASSUME NEW d \in Seq(Octets), NEW i \in 0..Len(d)
    PROVE  lineAfter(d, i) \in i..Len(d)
<1> DEFINE r == SubSeq(d, i + 1, Len(d))
           e == indexOf(r, <<"LF">>)
<1>1. r \in Seq(Octets) /\ Len(r) = Len(d) - i /\ Len(d) \in Nat
  OBVIOUS
<1>2. lineAfter(d, i) = IF e = 0 THEN Len(d) ELSE i + e
  BY DEF lineAfter
<1>3. e = 0 \/ e \in 1..(Len(r) - 1 + 1)
  <2> DEFINE s == <<"LF">>
  <2>1. s \in Seq(Octets) /\ Len(s) = 1
    BY DEF Octets
  <2> HIDE DEF r, s
  <2>2. indexOf(r, s) = 0 \/ indexOf(r, s) \in 1..(Len(r) - Len(s) + 1)
    BY <1>1, <2>1, IndexIs
  <2> QED
    BY <2>1, <2>2 DEF s
<1> HIDE DEF e, r
<1> QED
  BY <1>1, <1>2, <1>3

\* Where the loop of topBytes is after each line.
LEMMA TopLoop ==
    ASSUME NEW d \in Seq(Octets), NEW n \in Nat
    PROVE  \E end \in [0..n -> 0..Len(d)] :
              /\ end[0] = headerEnd(d)
              /\ \A i \in 1..n : end[i] = lineAfter(d, end[i - 1])
              /\ topBytes(d, n) = IF headerEnd(d) = 0 THEN d ELSE SubSeq(d, 1, end[n])
<1> DEFINE V == 0..Len(d)
           h == headerEnd(d)
           step == [i \in 1..n |-> [x \in V |-> lineAfter(d, x)]]
           Turn(f, i) == IF i = 0 THEN h ELSE lineAfter(d, f[i - 1])
           IsEnd(f) == f = [i \in 0..n |-> Turn(f, i)]
           E == CHOOSE f : IsEnd(f)
<1>1. h \in V /\ \A x \in V : lineAfter(d, x) \in V
  BY HeaderEndBound, LineAfterBound
<1>2. step \in Steps(n, V)
  BY <1>1 DEF Steps
<1>3. PICK g : Loop(g, n, V, h, step)
  <2> HIDE DEF V, h, step
  <2> QED
    BY <1>1, <1>2, LoopFunction
<1> HIDE DEF V, h
<1>4. \A i \in 0..n : g[i] = Turn(g, i)
  <2> SUFFICES ASSUME NEW i \in 0..n
               PROVE  g[i] = Turn(g, i)
    OBVIOUS
  <2>1. CASE i = 0
    BY <2>1, <1>3 DEF Loop
  <2>2. CASE i \in 1..n
    <3>1. g[i - 1] \in V
      BY <1>3, <2>2 DEF Loop
    <3>2. g[i] = step[i][g[i - 1]]
      BY <1>3, <2>2 DEF Loop
    <3> QED
      BY <2>2, <3>1, <3>2
  <2> QED
    BY <2>1, <2>2
<1>5. IsEnd(g)
  <2> HIDE DEF Turn, step
  <2>1. g = [i \in 0..n |-> g[i]]
    BY <1>3 DEF Loop
  <2> QED
    BY <2>1, <1>4
<1>6. IsEnd(E)
  <2> HIDE DEF IsEnd
  <2> QED
    BY <1>5
<1>7. topBytes(d, n) = IF h = 0 THEN d ELSE SubSeq(d, 1, E[n])
  BY DEF topBytes, h
<1>8. \A i \in 0..n : E[i] = Turn(E, i)
  <2> HIDE DEF Turn, E
  <2> QED
    BY <1>6
<1>9. DOMAIN E = 0..n /\ E = [i \in 0..n |-> E[i]]
  <2> HIDE DEF Turn, E
  <2> QED
    BY <1>6
<1> HIDE DEF E, IsEnd, step
<1>10. E[0] = h /\ \A i \in 1..n : E[i] = lineAfter(d, E[i - 1])
  <2>1. 0 \in 0..n /\ \A i \in 1..n : i \in 0..n /\ i # 0
    OBVIOUS
  <2> QED
    BY <1>8, <2>1, Zenon
<1> DEFINE I == {i \in Nat : i <= n => E[i] \in V}
<1>11. 0 \in I
  BY <1>1, <1>10
<1>12. ASSUME NEW i \in Nat, i \in I
       PROVE  i + 1 \in I
  <2> SUFFICES ASSUME i + 1 <= n
               PROVE  E[i + 1] \in V
    OBVIOUS
  <2>1. i + 1 \in 1..n /\ E[i] \in V /\ (i + 1) - 1 = i
    BY <1>12
  <2>2. E[i + 1] = lineAfter(d, E[i])
    BY <1>10, <2>1
  <2> QED
    BY <1>1, <2>1, <2>2
<1>13. \A i \in Nat : i \in I
  <2> HIDE DEF I
  <2> QED
    BY <1>11, <1>12, InductiveSet
<1>14. E \in [0..n -> V]
  BY <1>9, <1>13
<1> QED
  BY <1>7, <1>10, <1>14 DEF V, h

\* TOP returns octets of the message.
LEMMA TopTyped ==
    ASSUME NEW d \in Seq(Octets), NEW n \in Nat
    PROVE  topBytes(d, n) \in Seq(Octets)
<1>1. PICK end \in [0..n -> 0..Len(d)] :
          topBytes(d, n) = IF headerEnd(d) = 0 THEN d ELSE SubSeq(d, 1, end[n])
  BY TopLoop
<1>2. end[n] \in 0..Len(d)
  OBVIOUS
<1>3. SubSeq(d, 1, end[n]) \in Seq(Octets)
  BY <1>2
<1> QED
  BY <1>1, <1>3

------------------------------------------------------------------------------
(* topBytes gives what its reference says.                                   *)

\* What bytes.Index finds, octet by octet.
LEMMA FoundLF ==
    ASSUME NEW d \in Seq(Octets), NEW i \in 1..Len(d)
    PROVE  isAt(d, <<"LF">>, i) <=> d[i] = "LF"
<1> DEFINE s == <<"LF">>
           t == SubSeq(d, i, i)
<1>1. s \in Seq(Octets) /\ Len(s) = 1 /\ s[1] = "LF"
  BY Literals
<1>2. t \in Seq(Octets) /\ Len(t) = 1 /\ t[1] = d[i]
  OBVIOUS
<1>3. isAt(d, s, i) <=> t = s
  BY DEF isAt
<1> HIDE DEF s, t
<1>4. t = s <=> t[1] = s[1]
  <2>1. ASSUME t[1] = s[1]
        PROVE  t = s
    BY <1>1, <1>2, <2>1, SeqEqual
  <2> QED
    BY <2>1
<1> QED
  BY <1>1, <1>2, <1>3, <1>4 DEF s

\* ... two octets ...
LEMMA FoundLFLF ==
    ASSUME NEW d \in Seq(Octets), NEW i \in 1..(Len(d) - 1)
    PROVE  isAt(d, <<"LF", "LF">>, i) <=> d[i] = "LF" /\ d[i + 1] = "LF"
<1> DEFINE s == <<"LF", "LF">>
           t == SubSeq(d, i, i + 1)
<1>1. s \in Seq(Octets) /\ Len(s) = 2 /\ s[1] = "LF" /\ s[2] = "LF"
  BY DEF Octets
<1>2. t \in Seq(Octets) /\ Len(t) = 2 /\ t[1] = d[i] /\ t[2] = d[i + 1]
  OBVIOUS
<1>3. isAt(d, s, i) <=> t = s
  BY DEF isAt
<1> HIDE DEF s, t
<1>4. t = s <=> t[1] = s[1] /\ t[2] = s[2]
  <2>1. ASSUME t[1] = s[1], t[2] = s[2]
        PROVE  t = s
    <3>1. Len(t) = Len(s) /\ \A j \in 1..Len(t) : t[j] = s[j]
      BY <1>1, <1>2, <2>1
    <3> QED
      BY <1>1, <1>2, <3>1, SeqEqual
  <2> QED
    BY <2>1
<1> QED
  BY <1>1, <1>2, <1>3, <1>4 DEF s

\* ... and four.
LEMMA FoundBlankCRLF ==
    ASSUME NEW d \in Seq(Octets), NEW i \in 1..(Len(d) - 3)
    PROVE  isAt(d, <<"CR", "LF", "CR", "LF">>, i) <=>
               /\ d[i] = "CR" /\ d[i + 1] = "LF"
               /\ d[i + 2] = "CR" /\ d[i + 3] = "LF"
<1> DEFINE s == <<"CR", "LF", "CR", "LF">>
           t == SubSeq(d, i, i + 3)
<1>1. /\ s \in Seq(Octets) /\ Len(s) = 4
      /\ s[1] = "CR" /\ s[2] = "LF" /\ s[3] = "CR" /\ s[4] = "LF"
  BY DEF Octets
<1>2. /\ t \in Seq(Octets) /\ Len(t) = 4
      /\ t[1] = d[i] /\ t[2] = d[i + 1] /\ t[3] = d[i + 2] /\ t[4] = d[i + 3]
  OBVIOUS
<1>3. isAt(d, s, i) <=> t = s
  BY DEF isAt
<1> HIDE DEF s, t
<1>4. t = s <=> t[1] = s[1] /\ t[2] = s[2] /\ t[3] = s[3] /\ t[4] = s[4]
  <2>1. ASSUME t[1] = s[1], t[2] = s[2], t[3] = s[3], t[4] = s[4]
        PROVE  t = s
    <3>1. Len(t) = Len(s) /\ \A j \in 1..Len(t) : t[j] = s[j]
      BY <1>1, <1>2, <2>1
    <3> QED
      BY <1>1, <1>2, <3>1, SeqEqual
  <2> QED
    BY <2>1
<1> QED
  BY <1>1, <1>2, <1>3, <1>4 DEF s

\* The end of the separator is the first blank line, in a message with one kind of
\* line ends that does not begin with a blank line.
LEMMA HeaderEndIsBlank ==
    ASSUME NEW d \in Seq(Octets), uniform(d), blanks(d) \cap {1, 2} = {}
    PROVE  \/ blanks(d) = {} /\ headerEnd(d) = 0
           \/ /\ blanks(d) # {} /\ headerEnd(d) \in blanks(d)
              /\ \A j \in blanks(d) : headerEnd(d) <= j
<1> DEFINE s4 == <<"CR", "LF", "CR", "LF">>
           s2 == <<"LF", "LF">>
           n == Len(d)
           crlf == indexOf(d, s4)
           lf == indexOf(d, s2)
           B == blanks(d)
<1>1. headerEnd(d) = IF crlf > 0 THEN crlf + 3 ELSE IF lf > 0 THEN lf + 1 ELSE 0
  BY DEF headerEnd
<1>2. n \in Nat
  OBVIOUS
<1>3. \/ crlf = 0 /\ \A i \in 1..(n - 3) : ~isAt(d, s4, i)
      \/ /\ crlf \in 1..(n - 3) /\ isAt(d, s4, crlf)
         /\ \A i \in 1..(n - 3) : isAt(d, s4, i) => crlf <= i
  <2>1. s4 \in Seq(Octets) /\ Len(s4) = 4
    BY DEF Octets
  <2>2. n - 4 + 1 = n - 3
    BY <1>2
  <2> HIDE DEF s4
  <2> QED
    BY <2>1, <2>2, IndexIs
<1>4. \/ lf = 0 /\ \A i \in 1..(n - 1) : ~isAt(d, s2, i)
      \/ /\ lf \in 1..(n - 1) /\ isAt(d, s2, lf)
         /\ \A i \in 1..(n - 1) : isAt(d, s2, i) => lf <= i
  <2>1. s2 \in Seq(Octets) /\ Len(s2) = 2
    BY DEF Octets
  <2>2. n - 2 + 1 = n - 1
    BY <1>2
  <2> HIDE DEF s2
  <2> QED
    BY <2>1, <2>2, IndexIs
<1>5. \A i \in 1..(n - 3) : isAt(d, s4, i) <=> /\ d[i] = "CR" /\ d[i + 1] = "LF"
                                             /\ d[i + 2] = "CR" /\ d[i + 3] = "LF"
  BY FoundBlankCRLF
<1>6. \A i \in 1..(n - 1) : isAt(d, s2, i) <=> d[i] = "LF" /\ d[i + 1] = "LF"
  BY FoundLFLF
<1>7. \A i : i \in B <=> /\ i \in 1..n /\ i > 2 /\ d[i] = "LF"
                        /\ \/ d[i - 1] = "LF"
                           \/ d[i - 1] = "CR" /\ d[i - 2] = "LF"
  BY <1>2 DEF blanks, isBlank
<1> HIDE DEF s4, s2, crlf, lf, B, n
<1>8. CASE \A i \in 1..n : d[i] # "CR"
  <2>1. \A i \in 1..(n - 3) : ~isAt(d, s4, i)
    BY <1>2, <1>5, <1>8
  <2>2. crlf = 0
    BY <1>3, <2>1
  <2>3. \A i : i \in B <=> i \in 1..n /\ i > 2 /\ d[i] = "LF" /\ d[i - 1] = "LF"
    BY <1>2, <1>7, <1>8
  <2>4. \A i \in B : i - 1 \in 1..(n - 1) /\ isAt(d, s2, i - 1)
    BY <1>2, <1>6, <2>3
  <2>5. CASE lf = 0
    <3>1. B = {}
      BY <1>2, <1>4, <2>4, <2>5
    <3> QED
      BY <1>1, <2>2, <2>5, <3>1 DEF B
  <2>6. CASE lf # 0
    <3>1. lf \in 1..(n - 1) /\ d[lf] = "LF" /\ d[lf + 1] = "LF"
      BY <1>4, <1>6, <2>6
    <3>2. headerEnd(d) = lf + 1
      BY <1>1, <1>2, <2>2, <3>1
    <3>3. lf + 1 > 2
      \* a message that begins with LF begins with a blank line
      BY <1>2, <3>1 DEF blanks, isBlank, n
    <3>4. lf + 1 \in B
      BY <1>2, <2>3, <3>1, <3>3
    <3>5. \A j \in B : lf + 1 <= j
      BY <1>2, <1>4, <2>3, <2>4, <2>6, <3>1
    <3> QED
      BY <3>2, <3>4, <3>5 DEF B
  <2> QED
    BY <2>5, <2>6
<1>9. CASE /\ \A i \in 1..n : d[i] = "LF" => i > 1 /\ d[i - 1] = "CR"
           /\ \A i \in 1..n : d[i] = "CR" => i < n /\ d[i + 1] = "LF"
  <2>1. \A i \in 1..(n - 1) : ~isAt(d, s2, i)
    <3> SUFFICES ASSUME NEW i \in 1..(n - 1), d[i] = "LF", d[i + 1] = "LF"
                 PROVE  FALSE
      BY <1>6
    <3>1. i + 1 \in 1..n /\ (i + 1) - 1 = i
      BY <1>2
    <3>2. d[(i + 1) - 1] = "CR"
      BY <1>9, <3>1
    <3> QED
      BY <3>1, <3>2
  <2>2. lf = 0
    BY <1>4, <2>1
  <2>3. \A i \in B : i - 3 \in 1..(n - 3) /\ isAt(d, s4, i - 3)
    <3> SUFFICES ASSUME NEW i \in B
                 PROVE  i - 3 \in 1..(n - 3) /\ isAt(d, s4, i - 3)
      OBVIOUS
    <3>1. i \in 1..n /\ i > 2 /\ d[i] = "LF"
      BY <1>7
    <3>2. d[i - 1] = "CR"
      BY <1>9, <3>1
    <3>3. d[i - 2] = "LF" /\ i - 2 \in 1..n
      BY <1>2, <1>7, <3>1, <3>2
    <3>4. i - 2 > 1 /\ d[(i - 2) - 1] = "CR"
      BY <1>9, <3>3
    <3> DEFINE k == i - 3
    <3>5. k \in 1..(n - 3) /\ k + 1 = i - 2 /\ k + 2 = i - 1 /\ k + 3 = i /\ (i - 2) - 1 = k
      BY <1>2, <3>1, <3>4
    <3> HIDE DEF k
    <3>6. isAt(d, s4, k)
      BY <1>5, <3>1, <3>2, <3>3, <3>4, <3>5
    <3> QED
      BY <3>5, <3>6 DEF k
  <2>4. CASE crlf = 0
    <3>1. B = {}
      BY <1>2, <1>3, <2>3, <2>4
    <3> QED
      BY <1>1, <2>2, <2>4, <3>1 DEF B
  <2>5. CASE crlf # 0
    <3>1. /\ crlf \in 1..(n - 3) /\ d[crlf + 1] = "LF"
          /\ d[crlf + 2] = "CR" /\ d[crlf + 3] = "LF"
      BY <1>3, <1>5, <2>5
    <3>2. headerEnd(d) = crlf + 3
      BY <1>1, <1>2, <3>1
    <3>3. crlf + 3 \in B
      <4>1. /\ crlf + 3 \in 1..n /\ crlf + 3 > 2
            /\ (crlf + 3) - 1 = crlf + 2 /\ (crlf + 3) - 2 = crlf + 1
        BY <1>2, <3>1
      <4> QED
        BY <1>7, <3>1, <4>1
    <3>4. \A j \in B : crlf + 3 <= j
      <4> SUFFICES ASSUME NEW j \in B
                   PROVE  crlf + 3 <= j
        OBVIOUS
      <4>1. j - 3 \in 1..(n - 3) /\ crlf <= j - 3 /\ j \in Nat
        BY <1>3, <1>7, <2>3, <2>5
      <4> QED
        BY <1>2, <3>1, <4>1
    <3> QED
      BY <3>2, <3>3, <3>4 DEF B
  <2> QED
    BY <2>4, <2>5
<1> QED
  BY <1>8, <1>9 DEF uniform, n

\* The next line ends at the first LF after place i, or where the message ends.
LEMMA LineAfterIs ==
    ASSUME NEW d \in Seq(Octets), NEW i \in 0..Len(d)
    PROVE  /\ i = Len(d) => lineAfter(d, i) = Len(d)
           /\ i < Len(d) =>
                /\ lineAfter(d, i) \in (i + 1)..Len(d)
                /\ d[lineAfter(d, i)] = "LF" \/ lineAfter(d, i) = Len(d)
                /\ \A j \in (i + 1)..(lineAfter(d, i) - 1) : d[j] # "LF"
<1> DEFINE n == Len(d)
           r == SubSeq(d, i + 1, n)
           s == <<"LF">>
           e == indexOf(r, s)
<1>1. /\ r \in Seq(Octets) /\ Len(r) = n - i /\ n \in Nat
      /\ \A j \in 1..(n - i) : r[j] = d[i + j]
  OBVIOUS
<1>2. lineAfter(d, i) = IF e = 0 THEN n ELSE i + e
  BY DEF lineAfter
<1>3. s \in Seq(Octets) /\ Len(s) = 1
  BY DEF Octets
<1>4. \A j \in 1..Len(r) : isAt(r, s, j) <=> r[j] = "LF"
  <2> HIDE DEF r
  <2> QED
    BY <1>1, FoundLF
<1> HIDE DEF n, r, s
<1>5. \/ e = 0 /\ \A j \in 1..(Len(r) - 1 + 1) : ~isAt(r, s, j)
      \/ /\ e \in 1..(Len(r) - 1 + 1) /\ isAt(r, s, e)
         /\ \A j \in 1..(Len(r) - 1 + 1) : isAt(r, s, j) => e <= j
  BY <1>1, <1>3, IndexIs
<1> HIDE DEF e
<1>6. (n - i) - 1 + 1 = n - i /\ i \in 0..n
  BY <1>1 DEF n
<1>7. \/ e = 0 /\ \A j \in 1..(n - i) : d[i + j] # "LF"
      \/ /\ e \in 1..(n - i) /\ d[i + e] = "LF"
         /\ \A j \in 1..(n - i) : d[i + j] = "LF" => e <= j
  BY <1>1, <1>4, <1>5, <1>6
<1>8. ASSUME NEW j \in (i + 1)..n
      PROVE  j - i \in 1..(n - i) /\ i + (j - i) = j
  BY <1>1, <1>6
<1>9. CASE e = 0
  <2>1. \A j \in (i + 1)..n : d[j] # "LF"
    BY <1>7, <1>8, <1>9
  <2>2. \A j \in (i + 1)..(n - 1) : j \in (i + 1)..n
    BY <1>1, <1>6
  <2>3. lineAfter(d, i) = n
    BY <1>2, <1>9
  <2>4. i < n => n \in (i + 1)..n
    BY <1>1, <1>6
  <2> QED
    BY <2>1, <2>2, <2>3, <2>4 DEF n
<1>10. CASE e # 0
  <2>1. e \in 1..(n - i) /\ d[i + e] = "LF"
    BY <1>7, <1>10
  <2>2. lineAfter(d, i) = i + e
    BY <1>2, <1>10
  <2>3. i + e \in (i + 1)..n /\ i < n
    BY <1>1, <1>6, <2>1
  <2>4. ASSUME NEW j \in (i + 1)..((i + e) - 1), d[j] = "LF"
        PROVE  FALSE
    <3>1. j \in (i + 1)..n /\ j - i < e
      BY <1>1, <1>6, <2>1
    <3>2. e <= j - i
      BY <1>7, <1>8, <1>10, <2>4, <3>1
    <3> QED
      BY <1>1, <1>6, <2>1, <3>1, <3>2
  <2> QED
    BY <2>1, <2>2, <2>3, <2>4 DEF n
<1> QED
  BY <1>9, <1>10

\* TOP as its reference says: the lines the loop passes are the first n line ends
\* after the first blank line.
LEMMA TopIsReference ==
    ASSUME NEW d \in Seq(Octets), NEW n \in Nat, uniform(d), blanks(d) \cap {1, 2} = {}
    PROVE  topBytes(d, n) = SubSeq(d, 1, topEnd(d, n))
<1> DEFINE N == Len(d)
           f == firstBlank(d)
           ends == {i \in 1..N : i > f /\ (d[i] = "LF" \/ i = N)}
           below(i) == {j \in ends : j <= i}
<1>1. N \in Nat
  OBVIOUS
<1>2. topEnd(d, n) = IF n = 0 THEN f
                     ELSE IF n > Cardinality(ends) THEN N
                     ELSE CHOOSE i \in ends : Cardinality(below(i)) = n
  BY DEF topEnd
<1>3. PICK E \in [0..n -> 0..N] :
          /\ E[0] = headerEnd(d)
          /\ \A i \in 1..n : E[i] = lineAfter(d, E[i - 1])
          /\ topBytes(d, n) = IF headerEnd(d) = 0 THEN d ELSE SubSeq(d, 1, E[n])
  BY TopLoop
<1>4. CASE blanks(d) = {}
  <2>1. headerEnd(d) = 0
    BY <1>4, HeaderEndIsBlank
  <2>2. f = N
    BY <1>4 DEF firstBlank
  <2>3. ends = {}
    BY <1>1, <2>2
  <2> HIDE DEF ends, f
  <2>4. topEnd(d, n) = N
    BY <1>1, <1>2, <2>2, <2>3, FS_EmptySet
  <2>5. topBytes(d, n) = d
    BY <1>3, <2>1
  <2> QED
    BY <2>4, <2>5, SubSeqFull
<1>5. CASE blanks(d) # {}
  <2>1. f \in blanks(d) /\ \A j \in blanks(d) : f <= j
    BY <1>5, HeaderEndIsBlank DEF firstBlank
  <2>2. f \in 1..N
    BY <2>1 DEF blanks
  <2>3. headerEnd(d) = f
    <3>1. headerEnd(d) \in blanks(d) /\ \A j \in blanks(d) : headerEnd(d) <= j
      BY <1>5, HeaderEndIsBlank
    <3>2. headerEnd(d) \in Nat
      BY <3>1 DEF blanks
    <3>3. headerEnd(d) <= f /\ f <= headerEnd(d)
      BY <2>1, <3>1
    <3> HIDE DEF f
    <3> QED
      BY <2>2, <3>2, <3>3
  <2>4. topBytes(d, n) = SubSeq(d, 1, E[n]) /\ E[0] = f
    BY <1>1, <1>3, <2>2, <2>3
  <2>5. \A i : i \in ends <=> i \in 1..N /\ i > f /\ (d[i] = "LF" \/ i = N)
    OBVIOUS
  <2>6. IsFiniteSet(ends)
    <3>1. IsFiniteSet(1..N) /\ ends \in SUBSET (1..N)
      BY <1>1, FS_Interval
    <3> HIDE DEF ends
    <3> QED
      BY <3>1, FS_Subset
  <2> HIDE DEF f, ends, N
  <2>7. ASSUME NEW i
        PROVE  /\ IsFiniteSet(below(i)) /\ Cardinality(below(i)) \in Nat
               /\ Cardinality(below(i)) <= Cardinality(ends)
    <3>1. below(i) \in SUBSET ends
      OBVIOUS
    <3> HIDE DEF below
    <3> QED
      BY <2>6, <3>1, FS_Subset, FS_CardinalityType
  <2>8. Cardinality(ends) \in Nat
    BY <2>6, FS_CardinalityType
  <2> DEFINE passed(k) == \/ /\ E[k] = f \/ E[k] \in ends
                             /\ Cardinality(below(E[k])) = k
                          \/ E[k] = N /\ k > Cardinality(ends)
             I == {k \in Nat : k <= n => passed(k)}
  <2>9. 0 \in I
    <3>1. below(f) = {}
      BY <1>1, <2>2, <2>5
    <3>2. Cardinality(below(f)) = 0
      BY <3>1, FS_EmptySet
    <3> HIDE DEF below
    <3> QED
      BY <2>4, <3>2
  <2>10. ASSUME NEW k \in Nat, k \in I
         PROVE  k + 1 \in I
    <3> SUFFICES ASSUME k + 1 <= n
                 PROVE  passed(k + 1)
      OBVIOUS
    <3> DEFINE e == E[k]
               g == E[k + 1]
    <3>1. k + 1 \in 1..n /\ (k + 1) - 1 = k /\ k \in 0..n
      OBVIOUS
    <3>2. g = lineAfter(d, e) /\ e \in 0..N /\ passed(k)
      <4> HIDE DEF passed
      <4> QED
        BY <1>3, <2>10, <3>1
    <3> HIDE DEF e
    <3>3. /\ e = N => g = N
          /\ e < N => /\ g \in (e + 1)..N
                      /\ d[g] = "LF" \/ g = N
                      /\ \A j \in (e + 1)..(g - 1) : d[j] # "LF"
      <4>1. e \in 0..Len(d)
        BY <3>2 DEF N
      <4> HIDE DEF g
      <4> QED
        BY <3>2, <4>1, LineAfterIs DEF N
    <3> HIDE DEF g
    <3>4. CASE e = N
      <4>1. g = N
        BY <3>3, <3>4
      <4>2. below(N) = ends
        BY <1>1, <2>5
      <4>3. Cardinality(ends) <= k
        <5>1. \/ Cardinality(below(e)) = k
              \/ k > Cardinality(ends)
          BY <3>2 DEF e
        <5> HIDE DEF below
        <5> QED
          BY <2>8, <3>4, <4>2, <5>1
      <4>4. k + 1 > Cardinality(ends)
        BY <2>8, <4>3
      <4> QED
        BY <4>1, <4>4 DEF g
    <3>5. CASE e < N
      <4>1. (e = f \/ e \in ends) /\ Cardinality(below(e)) = k
        BY <1>1, <3>2, <3>5 DEF e
      <4>2. e >= f
        BY <1>1, <2>2, <2>5, <4>1
      <4>3. g \in 1..N /\ g > e /\ g > f /\ (d[g] = "LF" \/ g = N)
        BY <1>1, <2>2, <3>2, <3>3, <3>5, <4>2
      <4>4. g \in ends
        BY <2>5, <4>3
      <4>5. below(g) = below(e) \cup {g}
        <5>1. ASSUME NEW j \in ends, j <= g, ~(j <= e), j # g
              PROVE  FALSE
          <6>1. j \in 1..N /\ (d[j] = "LF" \/ j = N)
            BY <2>5
          <6>2. j \in (e + 1)..(g - 1)
            BY <1>1, <3>2, <4>3, <5>1, <6>1
          <6>3. d[j] # "LF"
            BY <3>3, <3>5, <6>2
          <6> QED
            BY <1>1, <4>3, <5>1, <6>1, <6>3
        <5>2. ASSUME NEW j \in ends, j <= e
              PROVE  j <= g
          BY <1>1, <2>5, <3>2, <4>3, <5>2
        <5>3. g <= g
          BY <4>3
        <5> QED
          BY <4>4, <5>1, <5>2, <5>3
      <4>6. g \notin below(e)
        BY <1>1, <3>2, <4>3
      <4>7. Cardinality(below(g)) = k + 1
        <5> HIDE DEF below
        <5> QED
          BY <2>7, <4>1, <4>5, <4>6, FS_AddElement
      <4> QED
        BY <4>4, <4>7 DEF g
    <3>6. e = N \/ e < N
      BY <1>1, <3>2
    <3> QED
      BY <3>4, <3>5, <3>6
  <2>11. \A k \in Nat : k \in I
    <3> HIDE DEF I
    <3> QED
      BY <2>9, <2>10, InductiveSet
  <2>12. passed(n)
    BY <2>11
  <2>13. CASE n = 0
    BY <1>2, <2>4, <2>13
  <2>14. CASE n # 0 /\ n > Cardinality(ends)
    <3>1. Cardinality(below(E[n])) # n
      <4> HIDE DEF below
      <4> QED
        BY <2>7, <2>8, <2>14
    <3>2. E[n] = N
      <4> HIDE DEF below
      <4> QED
        BY <2>12, <3>1
    <3>3. topEnd(d, n) = N
      BY <1>2, <2>14
    <3> QED
      BY <2>4, <3>2, <3>3
  <2>15. CASE n # 0 /\ ~(n > Cardinality(ends))
    <3> DEFINE e == E[n]
               c == CHOOSE i \in ends : Cardinality(below(i)) = n
    <3>1. (e = f \/ e \in ends) /\ Cardinality(below(e)) = n
      <4> HIDE DEF below
      <4> QED
        BY <2>12, <2>15
    <3>2. below(f) = {}
      BY <1>1, <2>2, <2>5
    <3>3. e # f
      <4> HIDE DEF below
      <4> QED
        BY <2>15, <3>1, <3>2, FS_EmptySet
    <3>4. e \in ends
      BY <3>1, <3>3
    <3>5. c \in ends /\ Cardinality(below(c)) = n
      <4> HIDE DEF below, e
      <4> QED
        BY <3>1, <3>4
    <3> HIDE DEF c, e
    <3>6. ASSUME NEW a \in ends, NEW b \in ends, a <= b,
                 Cardinality(below(a)) = n, Cardinality(below(b)) = n
          PROVE  b <= a
      <4>1. \A j \in ends : j \in Nat
        BY <1>1, <2>5
      <4>2. below(a) \in SUBSET below(b)
        BY <3>6, <4>1
      <4>3. b \in below(b)
        BY <4>1
      <4>4. below(b) = below(a)
        <5> HIDE DEF below
        <5> QED
          BY <2>7, <3>6, <4>2, FS_Subset
      <4> QED
        BY <4>3, <4>4
    <3>7. c \in Nat /\ e \in Nat
      BY <1>1, <2>5, <3>4, <3>5
    <3>8. c <= e \/ e <= c
      BY <3>7
    <3>9. e = c
      <4> HIDE DEF below
      <4>1. c <= e /\ e <= c
        BY <3>1, <3>4, <3>5, <3>6, <3>8
      <4> QED
        BY <3>7, <4>1
    <3>10. topEnd(d, n) = c
      BY <1>2, <2>15 DEF c
    <3> QED
      BY <2>4, <3>9, <3>10 DEF e
  <2> QED
    BY <2>13, <2>14, <2>15
<1> QED
  BY <1>4, <1>5

------------------------------------------------------------------------------
(* The inductive invariant.                                                  *)

\* The line under way: what the client has of it and what is still to come.
raw == rline \o out

\* A line as dotStuffWriter writes it, perhaps not whole: a dot at its start has
\* another one behind it, and a LF comes after a CR and ends it.
wireLine(l) ==
    /\ l # <<>> /\ l[1] = "." => Len(l) >= 2 /\ l[2] = "."
    /\ \A i \in 1..Len(l) : l[i] = "LF" => i = Len(l) /\ i > 1 /\ l[i - 1] = "CR"

\* No LF yet.
unended(l) == \A i \in 1..Len(l) : l[i] # "LF"

\* s is a prefix of w.
startOf(s, w) == Len(s) <= Len(w) /\ \A i \in 1..Len(s) : s[i] = w[i]

\* The state of dotStuffWriter is the octet it was given last.
WriterOK ==
    /\ lastByte = IF pos = 0 THEN "none" ELSE body[pos]
    /\ atLineStart = (lastByte \in {"none", "LF"})

\* While the body is copied: what the client has, with the line under way, is the
\* normalised start of the body.
CopyOK ==
    /\ rstate = "reading"
    /\ wireLine(raw) /\ unended(rline)
    /\ raw = <<>> => atLineStart
    /\ raw # <<>> => raw[Len(raw)] = lastByte
    /\ text \o unstuffLine(raw) = normalisedTo(body)[pos]

\* The end r of the last line is still to come.
EndingOK(r) ==
    /\ wireLine(rline \o r) /\ unended(rline)
    /\ text \o unstuffLine(rline \o r) = completed(body)

\* While the last line is completed and the terminator is on its way.
ClosingOK ==
    /\ rstate = "reading"
    /\ \/ EndingOK(<<"LF">>) /\ out = <<"LF", ".", "CR", "LF">>
       \/ EndingOK(CRLF) /\ out = <<"CR", "LF", ".", "CR", "LF">>
       \/ /\ text = completed(body)
          /\ \/ rline = <<>> /\ out = <<".", "CR", "LF">>
             \/ rline = <<".">> /\ out = <<"CR", "LF">>
             \/ rline = <<".", "CR">> /\ out = <<"LF">>

\* After the terminator.
SentOK == rstate = "done" /\ out = <<>> /\ text = completed(body)

\* After the connection was dropped.
DroppedOK ==
    /\ out = <<>> /\ unended(rline)
    /\ LinesIntact
    /\ rstate = "reading" /\ rline # <<>> => startOf(text, completed(body))
    /\ stage = "aborted" => rstate # "done" /\ rline # <<".">>

\* The whole invariant: one part per stage.
TransferInv ==
    /\ TransferTypeOK
    /\ WriterOK
    /\ stage = "copy" => CopyOK
    /\ stage = "closing" => ClosingOK
    /\ stage = "sent" => SentOK
    /\ dropped => DroppedOK

------------------------------------------------------------------------------
(* How a line grows and ends.                                                *)

\* The places of a concatenation.
LEMMA Places ==
    ASSUME NEW s \in Seq(Octets), NEW e \in Seq(Octets)
    PROVE  /\ s \o e \in Seq(Octets)
           /\ Len(s) \in Nat /\ Len(e) \in Nat
           /\ Len(s \o e) = Len(s) + Len(e)
           /\ \A i \in 1..Len(s) : (s \o e)[i] = s[i]
           /\ \A i \in 1..Len(e) : (s \o e)[Len(s) + i] = e[i]
<1>1. Len(s) \in Nat /\ Len(e) \in Nat
  OBVIOUS
<1>2. /\ s \o e \in Seq(Octets)
      /\ Len(s \o e) = Len(s) + Len(e)
      /\ \A i \in 1..(Len(s) + Len(e)) :
            (s \o e)[i] = IF i <= Len(s) THEN s[i] ELSE e[i - Len(s)]
  BY ConcatProperties
<1>3. ASSUME NEW i \in 1..Len(s)
      PROVE  (s \o e)[i] = s[i]
  BY <1>1, <1>2
<1>4. ASSUME NEW i \in 1..Len(e)
      PROVE  (s \o e)[Len(s) + i] = e[i]
  <2>1. /\ Len(s) + i \in 1..(Len(s) + Len(e)) /\ ~(Len(s) + i <= Len(s))
        /\ (Len(s) + i) - Len(s) = i
    BY <1>1
  <2> QED
    BY <1>2, <2>1
<1> QED
  BY <1>1, <1>2, <1>3, <1>4

\* One octet that is no LF, or a CRLF, or a LF after a CR, is added to a line.
LEMMA WireGrows ==
    ASSUME NEW l \in Seq(Octets), NEW e \in Seq(Octets), wireLine(l), unended(l),
           l # << >> \/ e[1] # ".",
           \/ Len(e) = 1 /\ e[1] # "LF"
           \/ Len(e) = 1 /\ l # << >> /\ l[Len(l)] = "CR"
           \/ Len(e) = 2 /\ e[1] = "CR"
    PROVE  wireLine(l \o e)
<1> DEFINE w == l \o e
           n == Len(l)
<1>1. /\ n \in Nat /\ w \in Seq(Octets)
      /\ \A i \in 1..n : w[i] = l[i]
      /\ \A i \in 1..Len(e) : w[n + i] = e[i]
      /\ Len(w) = n + Len(e)
  BY Places
<1>2. (l = << >> <=> n = 0) /\ (Len(e) = 1 \/ Len(e) = 2)
  OBVIOUS
<1> HIDE DEF w
<1>3. ASSUME w[1] = "."
      PROVE  Len(w) >= 2 /\ w[2] = "."
  <2>1. CASE n = 0
    <3>1. w[0 + 1] = e[1]
      BY <1>1, <1>2, <2>1
    <3> QED
      BY <1>2, <1>3, <2>1, <3>1
  <2>2. CASE n > 0
    BY <1>1, <1>2, <1>3, <2>2 DEF wireLine
  <2> QED
    BY <1>1, <2>1, <2>2
<1>4. ASSUME NEW i \in 1..Len(w), w[i] = "LF"
      PROVE  i = Len(w) /\ i > 1 /\ w[i - 1] = "CR"
  <2>1. ~(i \in 1..n)
    BY <1>1, <1>4 DEF unended
  <2>2. i = n + 1 \/ (i = n + 2 /\ Len(e) = 2)
    <3> DEFINE k == Len(e)
    <3>1. i \in Nat /\ n \in Nat /\ 1 <= i /\ i <= n + k
      BY <1>1
    <3>2. k = 1 \/ k = 2
      BY <1>2
    <3> HIDE DEF n, k
    <3>3. i > n
      BY <2>1, <3>1
    <3>4. i = n + 1 \/ (i = n + 2 /\ k = 2)
      BY <3>1, <3>2, <3>3
    <3> QED
      BY <3>4 DEF k
  <2>3. CASE i = n + 1
    <3>1. w[n + 1] = e[1]
      BY <1>1, <1>2
    <3>2. Len(e) = 1 /\ n > 0 /\ l[n] = "CR"
      BY <1>1, <1>2, <1>4, <2>3, <3>1
    <3>3. w[n] = "CR"
      BY <1>1, <3>2
    <3> QED
      BY <1>1, <2>3, <3>2, <3>3
  <2>4. CASE i = n + 2 /\ Len(e) = 2
    <3>1. w[n + 1] = e[1] /\ e[1] = "CR"
      BY <1>1, <2>4
    <3> QED
      BY <1>1, <2>4, <3>1
  <2> QED
    BY <2>2, <2>3, <2>4
<1> QED
  BY <1>3, <1>4 DEF w, wireLine

\* A LF that arrives is the last octet of its line, the CR before it is there, and
\* the line is not the terminator.
LEMMA LineEnds ==
    ASSUME NEW l \in Seq(Octets), NEW e \in Seq(Octets), wireLine(l \o e), unended(l),
           e # << >>, Head(e) = "LF"
    PROVE  /\ e = <<"LF">>
           /\ l # << >> /\ l[Len(l)] = "CR"
           /\ chomp(l) # <<".">>
<1> DEFINE w == l \o e
           n == Len(l)
<1>1. /\ n \in Nat /\ w \in Seq(Octets)
      /\ \A i \in 1..n : w[i] = l[i]
      /\ \A i \in 1..Len(e) : w[n + i] = e[i]
      /\ Len(w) = n + Len(e) /\ Len(e) \in Nat
  BY Places
<1>2. Len(e) >= 1 /\ e[1] = "LF"
  OBVIOUS
<1>3. wireLine(w)
  OBVIOUS
<1> HIDE DEF w
<1>4. n + 1 \in 1..Len(w) /\ w[n + 1] = "LF"
  BY <1>1, <1>2
<1>5. n + 1 = Len(w) /\ n + 1 > 1 /\ w[(n + 1) - 1] = "CR"
  BY <1>3, <1>4 DEF wireLine
<1>6. Len(e) = 1 /\ n >= 1 /\ w[n] = "CR"
  <2> DEFINE k == Len(e)
  <2>1. n \in Nat /\ k \in Nat /\ n + 1 = n + k /\ n + 1 > 1
    BY <1>1, <1>5
  <2> HIDE DEF n, k
  <2>2. k = 1 /\ n >= 1 /\ (n + 1) - 1 = n
    BY <2>1
  <2> QED
    BY <1>5, <2>2 DEF k
<1>7. e = <<"LF">>
  BY <1>2, <1>6
<1>8. l # << >> /\ l[n] = "CR"
  BY <1>1, <1>6
<1>9. chomp(l) # <<".">>
  <2> SUFFICES ASSUME chomp(l) = <<".">>
               PROVE  FALSE
    OBVIOUS
  <2>1. l = chomp(l) \o <<"CR">>
    BY <1>8, AcceptedLine
  <2>2. l = <<".">> \o <<"CR">>
    BY <2>1
  <2>3. n = 2 /\ l[1] = "." /\ l[2] = "CR"
    BY <2>2
  <2>4. w[1] = "." /\ w[2] = "CR" /\ w # << >>
    BY <1>1, <1>4, <2>3
  <2> QED
    BY <1>3, <2>4 DEF wireLine
<1> QED
  BY <1>7, <1>8, <1>9

------------------------------------------------------------------------------
(* The types.                                                                *)

\* The types at the start, from the assumption on the messages.
LEMMA TypeInit == Init => TransferTypeOK
<1> SUFFICES ASSUME Init
             PROVE  TransferTypeOK
  OBVIOUS
<1>1. /\ Bodies \cup TopBodies \subseteq Seq(Octets)
      /\ MaxTop \in Nat
  BY TransferAssumption DEF Octets
<1>2. message \in Seq(Octets) /\ top \in Int /\ body \in Seq(Octets)
  <2>1. CASE message \in Bodies /\ top = -1 /\ body = message
    BY <1>1, <2>1
  <2>2. CASE message \in TopBodies /\ top \in 0..MaxTop /\ body = topBytes(message, top)
    BY <1>1, <2>2, TopTyped
  <2> QED
    BY <2>1, <2>2 DEF Init
<1>3. pos \in 0..Len(body) /\ left \in 0..(Len(body) - pos)
  BY <1>2 DEF Init
<1> QED
  BY <1>2, <1>3 DEF Init, TransferTypeOK

\* The octets of the terminator, and of what an octet of the body becomes.
LEMMA WrittenTyped ==
    ASSUME TransferTypeOK
    PROVE  /\ terminator \in Seq(Octets)
           /\ \A b \in Octets : encode(b) \in Seq(Octets)
<1>1. /\ << >> \in Seq(Octets) /\ <<".", "CR", "LF">> \in Seq(Octets)
      /\ <<".", ".">> \in Seq(Octets)
  BY DEF Octets
<1>2. terminator \in Seq(Octets)
  <2> DEFINE f == IF atLineStart THEN <<>> ELSE IF lastByte = "CR" THEN <<"LF">> ELSE CRLF
             t == <<".", "CR", "LF">>
  <2>1. f \in Seq(Octets) /\ t \in Seq(Octets)
    BY <1>1, Literals
  <2>2. terminator = f \o t
    BY DEF terminator
  <2> HIDE DEF f, t
  <2> QED
    BY <2>1, <2>2, ConcatProperties
<1>3. ASSUME NEW b \in Octets
      PROVE  encode(b) \in Seq(Octets)
  BY <1>1, Literals DEF encode
<1> QED
  BY <1>2, <1>3

\* What the reader makes of a line consists of octets.
LEMMA ReadTyped ==
    ASSUME NEW l \in Seq(Octets)
    PROVE  unstuffLine(l) \in Seq(Octets) /\ chomp(l) \in Seq(Octets)
<1>1. unstuffLine(l) \in Seq(Octets)
  BY DEF unstuffLine
<1>2. chomp(l) \in Seq(Octets)
  BY LastApart DEF chomp
<1> QED
  BY <1>1, <1>2

\* Accepting a line keeps the types of what the client holds.
LEMMA AcceptTyped ==
    ASSUME TransferTypeOK, NEW l \in Seq(Octets), Accept(l)
    PROVE  /\ rline' \in Seq(Octets) /\ text' \in Seq(Octets)
           /\ rstate' \in {rstate, "done"}
<1> DEFINE u == unstuffLine(l)
<1>1. u \in Seq(Octets) /\ CRLF \in Seq(Octets) /\ text \in Seq(Octets)
  BY ReadTyped, Literals DEF TransferTypeOK
<1> HIDE DEF u
<1>2. (text \o u) \o CRLF \in Seq(Octets)
  BY <1>1, ConcatProperties
<1>3. rline' = << >>
  BY DEF Accept
<1>4. \/ rstate' = "done" /\ text' = text
      \/ text' = (text \o u) \o CRLF /\ rstate' = rstate
  BY DEF Accept, u
<1>5. << >> \in Seq(Octets)
  OBVIOUS
<1>6. rline' \in Seq(Octets)
  BY <1>3, <1>5
<1>7. text' \in Seq(Octets)
  BY <1>1, <1>2, <1>4, Zenon
<1>8. rstate' \in {rstate, "done"}
  BY <1>4, Zenon
<1> QED
  BY <1>6, <1>7, <1>8

\* The types are kept by every action.
LEMMA TypeStep == TransferTypeOK /\ [Next]_tvars => TransferTypeOK'
<1> SUFFICES ASSUME TransferTypeOK, [Next]_tvars
             PROVE  TransferTypeOK'
  OBVIOUS
<1> USE DEF serverVars, clientVars, request
<1>0. Len(body) \in Nat
  BY DEF TransferTypeOK
<1>1. CASE UNCHANGED tvars
  BY <1>1 DEF tvars, TransferTypeOK
<1>2. CASE NextChunk
  <2>1. left' \in 0..(Len(body) - pos)
    BY <1>0, <1>2, TransferAssumption DEF NextChunk, TransferTypeOK
  <2> QED
    BY <1>2, <2>1 DEF NextChunk, TransferTypeOK
<1>3. CASE WriteByte
  <2>1. pos + 1 \in 1..Len(body) /\ left - 1 \in 0..(Len(body) - (pos + 1))
    BY <1>0, <1>3 DEF WriteByte, TransferTypeOK
  <2>2. body[pos + 1] \in Octets
    BY <2>1 DEF TransferTypeOK
  <2>3. out' \in Seq(Octets)
    BY <1>3, <2>2, WrittenTyped DEF WriteByte
  <2> QED
    BY <1>3, <2>1, <2>2, <2>3 DEF WriteByte, TransferTypeOK
<1>4. CASE EndOfBody
  BY <1>4, WrittenTyped DEF EndOfBody, TransferTypeOK
<1>5. CASE BodyFails \/ Break
  <2>1. out' \in Seq(Octets)
    <3>1. << >> \in Seq(Octets) /\ out \in Seq(Octets)
      BY DEF TransferTypeOK
    <3>2. out' = out \/ out' = << >>
      BY <1>5 DEF BodyFails, Break
    <3> QED
      BY <3>1, <3>2, Zenon
  <2> QED
    BY <1>5, <2>1 DEF BodyFails, Break, TransferTypeOK
<1>6. CASE Deliver
  <2>1. /\ out' \in Seq(Octets)
        /\ Append(rline, Head(out)) \in Seq(Octets)
    BY <1>6, MoveOctet DEF Deliver, TransferTypeOK
  <2>2. chomp(rline) \in Seq(Octets)
    BY ReadTyped DEF TransferTypeOK
  <2>3. /\ rline' \in Seq(Octets) /\ text' \in Seq(Octets)
        /\ rstate' \in {rstate, "done"}
    <3>1. CASE rstate # "reading"
      BY <1>6, <3>1 DEF Deliver, TransferTypeOK
    <3>2. CASE rstate = "reading" /\ Head(out) = "LF"
      <4>1. Accept(chomp(rline))
        BY <1>6, <3>2 DEF Deliver
      <4> QED
        BY <2>2, <4>1, AcceptTyped
    <3>3. CASE rstate = "reading" /\ Head(out) # "LF"
      BY <1>6, <2>1, <3>3 DEF Deliver, TransferTypeOK
    <3> QED
      BY <3>1, <3>2, <3>3
  <2>4. stage' \in {"copy", "closing", "sent", "aborted", "broken"}
    BY <1>6 DEF Deliver, TransferTypeOK
  <2> QED
    BY <1>6, <2>1, <2>3, <2>4 DEF Deliver, TransferTypeOK
<1>7. CASE HalfLine
  <2>1. /\ rline' \in Seq(Octets) /\ text' \in Seq(Octets)
        /\ rstate' \in {rstate, "done"}
    BY <1>7, AcceptTyped DEF HalfLine, TransferTypeOK
  <2> QED
    BY <1>7, <2>1 DEF HalfLine, TransferTypeOK
<1>8. CASE ConnectionEnds
  BY <1>8 DEF ConnectionEnds, TransferTypeOK
<1>9. CASE Terminated
  BY <1>9 DEF Terminated, tvars, TransferTypeOK
<1> QED
  BY <1>1, <1>2, <1>3, <1>4, <1>5, <1>6, <1>7, <1>8, <1>9 DEF Next

------------------------------------------------------------------------------
(* The invariant, action by action.                                          *)

\* dotStuffWriter remembers the octet it wrote last.
LEMMA WriterKept == TransferTypeOK /\ WriterOK /\ [Next]_tvars => WriterOK'
<1> SUFFICES ASSUME TransferTypeOK, WriterOK, [Next]_tvars
             PROVE  WriterOK'
  OBVIOUS
<1> USE DEF serverVars, clientVars, request
<1>1. ASSUME UNCHANGED <<pos, body, atLineStart, lastByte>>
      PROVE  WriterOK'
  BY <1>1 DEF WriterOK
<1>2. CASE WriteByte
  <2> DEFINE b == body[pos + 1]
  <2>1. pos \in Nat /\ pos + 1 \in 1..Len(body)
    BY <1>2 DEF WriteByte, TransferTypeOK
  <2>2. b \in Octets /\ b # "none"
    BY <2>1 DEF TransferTypeOK, Octets
  <2>3. /\ pos' = pos + 1 /\ pos' # 0 /\ body' = body
        /\ lastByte' = b /\ atLineStart' = (b = "LF")
    BY <1>2, <2>1 DEF WriteByte
  <2> HIDE DEF b
  <2>4. lastByte' = IF pos' = 0 THEN "none" ELSE body'[pos']
    BY <2>3 DEF b
  <2>5. atLineStart' = (lastByte' \in {"none", "LF"})
    <3>1. (b = "LF") = (b \in {"none", "LF"})
      BY <2>2
    <3> QED
      BY <2>3, <3>1, Zenon
  <2> QED
    BY <2>4, <2>5 DEF WriterOK
<1> QED
  BY <1>1, <1>2 DEF Next, tvars, NextChunk, EndOfBody, BodyFails, Break, Deliver,
                    HalfLine, ConnectionEnds, Terminated

\* Between two octets of the body nothing is on its way.
LEMMA AllDelivered ==
    ASSUME TransferTypeOK, out = << >>
    PROVE  raw = rline
  BY ConcatEmptySeq DEF TransferTypeOK, raw

\* Where dotStuffWriter takes it that a line begins, the client has none of it.
LEMMA StartsAgree ==
    ASSUME TransferTypeOK, WriterOK, CopyOK, out = << >>
    PROVE  /\ atLineStart <=> rline = << >>
           /\ rline # << >> => rline[Len(rline)] = lastByte
<1>1. raw = rline
  BY AllDelivered
<1>2. rline # << >> => rline[Len(rline)] = lastByte
  BY <1>1 DEF CopyOK
<1>3. rline = << >> => atLineStart
  BY <1>1 DEF CopyOK
<1>4. ASSUME rline # << >>, atLineStart
      PROVE  FALSE
  <2>1. Len(rline) \in 1..Len(rline)
    BY <1>4 DEF TransferTypeOK
  <2>2. rline[Len(rline)] \in Octets /\ rline[Len(rline)] # "LF"
    BY <2>1 DEF TransferTypeOK, CopyOK, unended
  <2>3. lastByte \in {"none", "LF"}
    BY <1>4 DEF WriterOK
  <2>4. "none" \notin Octets
    BY DEF Octets
  <2> QED
    BY <1>2, <1>4, <2>2, <2>3, <2>4, Zenon
<1> QED
  BY <1>2, <1>3, <1>4

\* Write of one octet: the line under way grows by what the octet stands for.
LEMMA CopyWrite ==
    ASSUME TransferTypeOK, WriterOK, CopyOK, WriteByte
    PROVE  CopyOK'
<1> USE DEF serverVars, clientVars, request
<1> DEFINE b == body[pos + 1]
           e == encode(b)
           p == piece(body, pos + 1)
           u == unstuffLine(rline)
<1>1. /\ out = << >> /\ pos \in Nat /\ pos + 1 \in 1..Len(body) /\ pos \in 0..Len(body)
      /\ body \in Seq(Octets) /\ rline \in Seq(Octets) /\ text \in Seq(Octets)
  BY DEF WriteByte, TransferTypeOK
<1>2. b \in Octets
  BY <1>1
<1>3. /\ rstate = "reading" /\ wireLine(rline) /\ unended(rline)
      /\ text \o u = normalisedTo(body)[pos]
  BY <1>1, AllDelivered DEF CopyOK
<1>4. /\ atLineStart <=> rline = << >>
      /\ rline # << >> => rline[Len(rline)] = lastByte
  BY <1>1, StartsAgree
<1>5. e \in Seq(Octets) /\ p \in Seq(Octets) /\ u \in Seq(Octets)
  BY <1>1, <1>2, WrittenTyped, PieceTyped, ReadTyped
<1>6. /\ raw' = rline \o e /\ rline' = rline /\ text' = text /\ rstate' = rstate
      /\ body' = body /\ pos' = pos + 1 /\ lastByte' = b
  BY DEF WriteByte, raw
<1>7. p = IF b = "LF" /\ lastByte # "CR" THEN CRLF ELSE <<b>>
  <2>1. lastByte # "CR" <=> (pos + 1 = 1 \/ body[(pos + 1) - 1] # "CR")
    BY <1>1 DEF WriterOK
  <2> QED
    BY <2>1 DEF piece, bareLF
<1>8. ASSUME wireLine(rline \o e), unstuffLine(rline \o e) = u \o p,
             rline \o e # << >>, (rline \o e)[Len(rline \o e)] = b
      PROVE  CopyOK'
  <2>1. text' \o unstuffLine(raw') = normalisedTo(body')[pos']
    <3> DEFINE N == normalisedTo(body)
    <3>1. N[pos + 1] = N[pos] \o p
      <4>1. (pos + 1) - 1 = pos
        BY <1>1
      <4>2. N[pos + 1] = N[(pos + 1) - 1] \o p
        BY <1>1, NormalisedSteps
      <4> QED
        BY <4>1, <4>2
    <3> HIDE DEF N, u, p, e, b
    <3>2. text \o (u \o p) = (text \o u) \o p
      <4>1. text \in Seq(Octets) /\ u \in Seq(Octets) /\ p \in Seq(Octets)
        BY <1>1, <1>5
      <4> QED
        BY <4>1, ConcatAssociative
    <3>3. unstuffLine(raw') = u \o p
      BY <1>6, <1>8
    <3> QED
      BY <1>3, <1>6, <3>1, <3>2, <3>3 DEF N
  <2> HIDE DEF u, p, e, b
  <2>2. wireLine(raw') /\ raw' # << >> /\ raw'[Len(raw')] = lastByte'
    BY <1>6, <1>8
  <2>3. unended(rline') /\ rstate' = "reading"
    BY <1>3, <1>6
  <2> QED
    BY <2>1, <2>2, <2>3 DEF CopyOK
\* The dot that is stuffed.
<1>9. CASE b = "." /\ atLineStart
  <2>1. rline = << >> /\ e = <<".", ".">> /\ p = <<".">> /\ u = << >>
    BY <1>4, <1>7, <1>9 DEF encode, unstuffLine
  <2>2. rline \o e = <<".", ".">>
    BY <1>5, <2>1, ConcatEmptySeq
  <2>3. wireLine(<<".", ".">>)
    BY DEF wireLine
  <2>4. unstuffLine(<<".", ".">>) = <<".">>
    BY DEF unstuffLine
  <2>5. u \o p = <<".">>
    BY <1>5, <2>1, ConcatEmptySeq
  <2>6. <<".", ".">> # << >> /\ <<".", ".">>[Len(<<".", ".">>)] = "."
    OBVIOUS
  <2> QED
    BY <1>8, <1>9, <2>2, <2>3, <2>4, <2>5, <2>6
\* Any other octet.
<1>10. CASE ~(b = "." /\ atLineStart)
  <2>1. e = p
    BY <1>7, <1>10 DEF encode
  <2>2. /\ rline # << >> \/ p[1] # "."
        /\ \/ Len(p) = 1 /\ p[1] # "LF"
           \/ Len(p) = 1 /\ rline # << >> /\ rline[Len(rline)] = "CR"
           \/ Len(p) = 2 /\ p[1] = "CR"
        /\ p # << >> /\ p[Len(p)] = b
    <3>1. CASE b = "LF" /\ lastByte # "CR"
      <4>1. p = CRLF
        BY <1>7, <3>1
      <4>2. Len(CRLF) = 2 /\ CRLF[1] = "CR" /\ CRLF[2] = "LF" /\ CRLF # << >>
        BY DEF CRLF
      <4>3. CRLF[1] # "." /\ CRLF[Len(CRLF)] = "LF"
        BY <4>2
      <4> HIDE DEF p, b
      <4> QED
        BY <3>1, <4>1, <4>2, <4>3, Zenon
    <3>2. CASE b = "LF" /\ lastByte = "CR"
      <4>1. p = <<b>>
        BY <1>7, <3>2
      <4>2. ~atLineStart
        BY <3>2 DEF WriterOK
      <4>3. Len(p) = 1 /\ p[1] = b /\ p # << >>
        BY <4>1
      <4>4. rline # << >> /\ rline[Len(rline)] = "CR"
        BY <1>4, <3>2, <4>2
      <4> HIDE DEF p, b
      <4> QED
        BY <3>2, <4>3, <4>4
    <3>3. CASE b # "LF"
      <4>1. p = <<b>>
        BY <1>7, <3>3
      <4>2. b = "." => rline # << >>
        BY <1>4, <1>10
      <4>3. Len(p) = 1 /\ p[1] = b /\ p # << >>
        BY <4>1
      <4> HIDE DEF p, b
      <4> QED
        BY <3>3, <4>2, <4>3
    <3> QED
      BY <3>1, <3>2, <3>3
  <2> HIDE DEF e, p, u, b
  <2>3. wireLine(rline \o p)
    BY <1>1, <1>3, <1>5, <2>2, WireGrows
  <2>4. unstuffLine(rline \o p) = u \o p
    BY <1>1, <1>5, <2>2, UnstuffFront DEF u
  <2>5. rline \o p # << >> /\ (rline \o p)[Len(rline \o p)] = b
    <3>1. /\ Len(rline \o p) = Len(rline) + Len(p) /\ Len(rline) \in Nat
          /\ rline \o p \in Seq(Octets)
          /\ \A i \in 1..Len(p) : (rline \o p)[Len(rline) + i] = p[i]
      BY <1>1, <1>5, Places
    <3>2. Len(p) \in 1..Len(p)
      BY <1>5, <2>2
    <3>3. (rline \o p)[Len(rline) + Len(p)] = b
      BY <2>2, <3>1, <3>2
    <3>4. rline \o p # << >>
      BY <1>1, <1>5, <2>2, ConcatEqualIffEmpty
    <3> QED
      BY <3>1, <3>3, <3>4
  <2> QED
    BY <1>8, <2>1, <2>3, <2>4, <2>5
<1> QED
  BY <1>9, <1>10

\* The caller gets the line that a LF ends.
LEMMA AcceptAdds ==
    ASSUME TransferTypeOK, NEW l \in Seq(Octets), l # << >>, l[Len(l)] = "CR",
           chomp(l) # <<".">>, Accept(chomp(l))
    PROVE  /\ rline' = << >> /\ rstate' = rstate
           /\ text' = text \o unstuffLine(l \o <<"LF">>)
<1> DEFINE u == unstuffLine(chomp(l))
<1>1. rline' = << >> /\ rstate' = rstate /\ text' = (text \o u) \o CRLF
  BY DEF Accept
<1>2. unstuffLine(l \o <<"LF">>) = u \o CRLF /\ chomp(l) \in Seq(Octets)
  BY AcceptedLine
<1>3. u \in Seq(Octets) /\ CRLF \in Seq(Octets) /\ text \in Seq(Octets)
  BY <1>2, ReadTyped, Literals DEF TransferTypeOK
<1> HIDE DEF u
<1>4. (text \o u) \o CRLF = text \o (u \o CRLF)
  BY <1>3, Joined, Zenon
<1> QED
  BY <1>1, <1>2, <1>4

\* A line stays without its end when an octet that is no LF is added.
LEMMA UnendedGrows ==
    ASSUME NEW l \in Seq(Octets), NEW o \in Octets, unended(l), o # "LF"
    PROVE  unended(Append(l, o))
<1>1. Len(l) \in Nat /\ Len(Append(l, o)) = Len(l) + 1
  OBVIOUS
<1>2. ASSUME NEW i \in 1..(Len(l) + 1)
      PROVE  Append(l, o)[i] # "LF"
  <2>1. CASE i \in 1..Len(l)
    BY <2>1 DEF unended
  <2>2. CASE i = Len(l) + 1
    BY <2>2
  <2> QED
    BY <1>1, <2>1, <2>2
<1> QED
  BY <1>1, <1>2 DEF unended

\* An octet delivered during the copy: the line under way, or its end.
LEMMA CopyDeliver ==
    ASSUME TransferTypeOK, WriterOK, CopyOK, stage = "copy", Deliver
    PROVE  stage' = "copy" /\ CopyOK'
<1> USE DEF serverVars, clientVars, request
<1>1. /\ out \in Seq(Octets) /\ rline \in Seq(Octets) /\ text \in Seq(Octets)
      /\ out # << >> /\ rstate = "reading"
      /\ wireLine(rline \o out) /\ unended(rline)
  BY DEF TransferTypeOK, Deliver, CopyOK, raw
<1>2. /\ stage' = "copy" /\ out' = Tail(out) /\ body' = body /\ pos' = pos
      /\ lastByte' = lastByte /\ atLineStart' = atLineStart
  BY DEF Deliver
<1>3. CASE Head(out) = "LF"
  <2>1. /\ out = <<"LF">> /\ rline # << >> /\ rline[Len(rline)] = "CR"
        /\ chomp(rline) # <<".">>
    BY <1>1, <1>3, LineEnds
  <2>2. Accept(chomp(rline))
    BY <1>1, <1>3 DEF Deliver
  <2>3. rline' = << >> /\ rstate' = rstate /\ text' = text \o unstuffLine(raw)
    BY <1>1, <2>1, <2>2, AcceptAdds DEF raw
  <2>4. out' = << >> /\ raw' = << >>
    BY <1>2, <2>1, <2>3 DEF raw
  <2>5. atLineStart
    <3>1. raw # << >> /\ raw[Len(raw)] = "LF"
      BY <1>1, <2>1 DEF raw
    <3> QED
      BY <3>1 DEF CopyOK, WriterOK
  <2>6. text' \o unstuffLine(raw') = normalisedTo(body')[pos']
    <3>1. text' = normalisedTo(body)[pos]
      BY <2>3 DEF CopyOK
    <3>2. text' \in Seq(Octets)
      BY <2>3, <1>1, ReadTyped, ConcatProperties DEF raw
    <3>3. unstuffLine(raw') = << >>
      BY <2>4 DEF unstuffLine
    <3> QED
      BY <1>2, <3>1, <3>2, <3>3, ConcatEmptySeq
  <2>7. wireLine(raw') /\ unended(rline')
    BY <2>3, <2>4 DEF wireLine, unended
  <2> QED
    BY <1>1, <1>2, <2>3, <2>4, <2>5, <2>6, <2>7 DEF CopyOK
<1>4. CASE Head(out) # "LF"
  <2>1. rline' = Append(rline, Head(out)) /\ text' = text /\ rstate' = rstate
    BY <1>1, <1>4 DEF Deliver
  <2>2. raw' = raw
    BY <1>1, <1>2, <2>1, MoveOctet DEF raw
  <2>3. unended(rline')
    <3>1. Head(out) \in Octets
      BY <1>1
    <3> QED
      BY <1>1, <1>4, <2>1, <3>1, UnendedGrows
  <2> QED
    BY <1>2, <2>1, <2>2, <2>3 DEF CopyOK
<1> QED
  BY <1>2, <1>3, <1>4

\* The octets of the terminator arrive one by one.
LEMMA ClosingDeliver ==
    ASSUME TransferTypeOK, ClosingOK, stage = "closing", Deliver
    PROVE  \/ stage' = "closing" /\ ClosingOK'
           \/ stage' = "sent" /\ SentOK'
<1> USE DEF serverVars, clientVars, request
<1>1. /\ out \in Seq(Octets) /\ rline \in Seq(Octets) /\ text \in Seq(Octets)
      /\ rstate = "reading" /\ out' = Tail(out) /\ body' = body
      /\ stage' = IF Len(out) = 1 THEN "sent" ELSE "closing"
  BY DEF TransferTypeOK, Deliver, ClosingOK
<1>2. ASSUME Head(out) # "LF"
      PROVE  rline' = Append(rline, Head(out)) /\ text' = text /\ rstate' = rstate
  BY <1>1, <1>2 DEF Deliver
<1>3. ASSUME Head(out) = "LF"
      PROVE  Accept(chomp(rline))
  BY <1>1, <1>3 DEF Deliver
<1>4. CASE EndingOK(<<"LF">>) /\ out = <<"LF", ".", "CR", "LF">>
  <2>1. Head(out) = "LF" /\ Len(out) = 4 /\ Tail(out) = <<".", "CR", "LF">>
    BY <1>4
  <2>2. /\ rline # << >> /\ rline[Len(rline)] = "CR" /\ chomp(rline) # <<".">>
    <3> DEFINE e == <<"LF">>
    <3>1. e \in Seq(Octets) /\ e # << >> /\ Head(e) = "LF"
      BY Literals
    <3>2. wireLine(rline \o e) /\ unended(rline)
      BY <1>4 DEF EndingOK
    <3> HIDE DEF e
    <3> QED
      BY <1>1, <3>1, <3>2, LineEnds
  <2>3. rline' = << >> /\ rstate' = rstate /\ text' = completed(body)
    BY <1>1, <1>3, <1>4, <2>1, <2>2, AcceptAdds DEF EndingOK
  <2> QED
    BY <1>1, <2>1, <2>3 DEF ClosingOK
<1>5. CASE EndingOK(CRLF) /\ out = <<"CR", "LF", ".", "CR", "LF">>
  <2>1. Head(out) = "CR" /\ Len(out) = 5 /\ Tail(out) = <<"LF", ".", "CR", "LF">>
    BY <1>5
  <2>2. rline' = Append(rline, "CR") /\ text' = text /\ rstate' = rstate
    BY <1>2, <2>1
  <2>3. rline' \o <<"LF">> = rline \o CRLF
    <3>1. CRLF \in Seq(Octets) /\ CRLF # << >> /\ Head(CRLF) = "CR" /\ Tail(CRLF) = <<"LF">>
      BY Literals DEF CRLF
    <3> QED
      BY <1>1, <2>2, <3>1, MoveOctet
  <2>4. unended(rline')
    BY <1>1, <1>5, <2>2, UnendedGrows DEF EndingOK, Octets
  <2>5. EndingOK(<<"LF">>)'
    BY <1>1, <1>5, <2>2, <2>3, <2>4 DEF EndingOK
  <2> QED
    BY <1>1, <2>1, <2>2, <2>5 DEF ClosingOK
<1>6. CASE text = completed(body) /\ rline = << >> /\ out = <<".", "CR", "LF">>
  <2>1. Head(out) = "." /\ Len(out) = 3 /\ Tail(out) = <<"CR", "LF">>
    BY <1>6
  <2>2. rline' = <<".">> /\ text' = text /\ rstate' = rstate
    BY <1>2, <1>6, <2>1
  <2> QED
    BY <1>1, <1>6, <2>1, <2>2 DEF ClosingOK
<1>7. CASE text = completed(body) /\ rline = <<".">> /\ out = <<"CR", "LF">>
  <2>1. Head(out) = "CR" /\ Len(out) = 2 /\ Tail(out) = <<"LF">>
    BY <1>7
  <2>2. rline' = <<".", "CR">> /\ text' = text /\ rstate' = rstate
    BY <1>2, <1>7, <2>1
  <2> QED
    BY <1>1, <1>7, <2>1, <2>2 DEF ClosingOK
<1>8. CASE text = completed(body) /\ rline = <<".", "CR">> /\ out = <<"LF">>
  <2>1. Head(out) = "LF" /\ Len(out) = 1 /\ Tail(out) = << >>
    BY <1>8
  <2>2. chomp(rline) = <<".">>
    <3>1. rline # << >> /\ Len(rline) = 2 /\ rline[1] = "." /\ rline[2] = "CR"
      BY <1>8
    <3> DEFINE c == chomp(rline)
               r == <<"CR">>
    <3>2. c \in Seq(Octets) /\ r \in Seq(Octets) /\ rline = c \o r /\ Len(r) = 1
      BY <1>1, <3>1, AcceptedLine, Literals
    <3> HIDE DEF c, r
    <3>3. /\ Len(rline) = Len(c) + Len(r) /\ Len(c) \in Nat
          /\ \A i \in 1..Len(c) : rline[i] = c[i]
      BY <3>2, Places
    <3>4. Len(c) = 1
      BY <3>1, <3>2, <3>3
    <3>5. c[1] = "."
      BY <3>1, <3>3, <3>4
    <3> QED
      BY <3>2, <3>4, <3>5 DEF c
  <2>3. rstate' = "done" /\ text' = text
    BY <1>3, <2>1, <2>2 DEF Accept
  <2> QED
    BY <1>1, <1>8, <2>1, <2>3 DEF SentOK
<1> QED
  BY <1>4, <1>5, <1>6, <1>7, <1>8 DEF ClosingOK

\* What the terminator consists of.
LEMMA TerminatorIs ==
    ASSUME TransferTypeOK, WriterOK
    PROVE  /\ atLineStart => terminator = <<".", "CR", "LF">> /\ closing(lastByte) = << >>
           /\ lastByte = "CR" => /\ terminator = <<"LF", ".", "CR", "LF">>
                                /\ closing(lastByte) = <<"LF">>
           /\ ~atLineStart /\ lastByte # "CR" =>
                 /\ terminator = <<"CR", "LF", ".", "CR", "LF">>
                 /\ closing(lastByte) = CRLF
<1>1. CASE atLineStart
  <2>1. terminator = << >> \o <<".", "CR", "LF">> /\ lastByte \in {"none", "LF"}
    BY <1>1 DEF terminator, WriterOK
  <2>2. << >> \o <<".", "CR", "LF">> = <<".", "CR", "LF">>
    OBVIOUS
  <2>3. closing(lastByte) = << >> /\ lastByte # "CR"
    BY <2>1 DEF closing
  <2> QED
    BY <1>1, <2>1, <2>2, <2>3
<1>2. CASE ~atLineStart
  <2>1. lastByte \notin {"none", "LF"}
    BY <1>2 DEF WriterOK
  <2> DEFINE t == <<".", "CR", "LF">>
  <2>t. t \in Seq(Octets) /\ Len(t) = 3 /\ t[1] = "." /\ t[2] = "CR" /\ t[3] = "LF"
    BY DEF Octets
  <2>2. <<"LF">> \o t = <<"LF", ".", "CR", "LF">>
    <3> DEFINE l == <<"LF">>
               w == <<"LF", ".", "CR", "LF">>
    <3>1. l \in Seq(Octets) /\ Len(l) = 1 /\ l[1] = "LF"
      BY Literals
    <3>2. /\ w \in Seq(Octets) /\ Len(w) = 4
          /\ w[1] = "LF" /\ w[2] = "." /\ w[3] = "CR" /\ w[4] = "LF"
      BY DEF Octets
    <3> HIDE DEF l, w, t
    <3>3. /\ l \o t \in Seq(Octets) /\ Len(l \o t) = Len(l) + Len(t)
          /\ \A i \in 1..Len(l) : (l \o t)[i] = l[i]
          /\ \A i \in 1..Len(t) : (l \o t)[Len(l) + i] = t[i]
      BY <2>t, <3>1, Places
    <3>4. Len(l \o t) = Len(w) /\ \A i \in 1..Len(w) : (l \o t)[i] = w[i]
      BY <2>t, <3>1, <3>2, <3>3
    <3>5. l \o t = w
      BY <3>2, <3>3, <3>4, SeqEqual
    <3> QED
      BY <3>5 DEF l, w, t
  <2>3. CRLF \o t = <<"CR", "LF", ".", "CR", "LF">>
    <3> DEFINE w == <<"CR", "LF", ".", "CR", "LF">>
    <3>1. CRLF \in Seq(Octets) /\ Len(CRLF) = 2 /\ CRLF[1] = "CR" /\ CRLF[2] = "LF"
      BY Literals DEF CRLF
    <3>2. /\ w \in Seq(Octets) /\ Len(w) = 5
          /\ w[1] = "CR" /\ w[2] = "LF" /\ w[3] = "." /\ w[4] = "CR" /\ w[5] = "LF"
      BY DEF Octets
    <3> HIDE DEF w, t
    <3>3. /\ CRLF \o t \in Seq(Octets) /\ Len(CRLF \o t) = Len(CRLF) + Len(t)
          /\ \A i \in 1..Len(CRLF) : (CRLF \o t)[i] = CRLF[i]
          /\ \A i \in 1..Len(t) : (CRLF \o t)[Len(CRLF) + i] = t[i]
      BY <2>t, <3>1, Places
    <3>4. Len(CRLF \o t) = Len(w) /\ \A i \in 1..Len(w) : (CRLF \o t)[i] = w[i]
      BY <2>t, <3>1, <3>2, <3>3
    <3>5. CRLF \o t = w
      BY <3>1, <3>2, <3>3, <3>4, SeqEqual
    <3> QED
      BY <3>5 DEF w, t
  <2>4. CASE lastByte = "CR"
    BY <1>2, <2>1, <2>2, <2>4 DEF terminator, closing
  <2>5. CASE lastByte # "CR"
    BY <1>2, <2>1, <2>3, <2>5 DEF terminator, closing
  <2> QED
    BY <2>4, <2>5
<1> QED
  BY <1>1, <1>2

\* Close: the last line is completed and the terminator follows.
LEMMA CopyEnds ==
    ASSUME TransferTypeOK, WriterOK, CopyOK, EndOfBody
    PROVE  ClosingOK'
<1> USE DEF serverVars, clientVars, request
<1> DEFINE u == unstuffLine(rline)
           c == closing(lastByte)
<1>1. /\ out = << >> /\ pos = Len(body) /\ out' = terminator
      /\ body' = body /\ rline' = rline /\ text' = text /\ rstate' = rstate
      /\ body \in Seq(Octets) /\ rline \in Seq(Octets) /\ text \in Seq(Octets)
  BY DEF EndOfBody, TransferTypeOK
<1>2. /\ rstate = "reading" /\ wireLine(rline) /\ unended(rline)
      /\ text \o u = normalised(body)
  BY <1>1, AllDelivered DEF CopyOK, normalised
<1>3. completed(body) = (text \o u) \o c
  <2>1. lastByte = IF body = << >> THEN "none" ELSE body[Len(body)]
    BY <1>1 DEF WriterOK
  <2> QED
    BY <1>1, <1>2, <2>1, CompletedAs
<1>4. /\ atLineStart <=> rline = << >>
      /\ rline # << >> => rline[Len(rline)] = lastByte
  BY <1>1, StartsAgree
<1>5. u \in Seq(Octets)
  BY <1>1, ReadTyped
<1>6. ASSUME c \in Seq(Octets), rline # << >>,
             \/ Len(c) = 1 /\ rline[Len(rline)] = "CR"
             \/ Len(c) = 2 /\ c[1] = "CR"
      PROVE  EndingOK(c)
  <2> HIDE DEF c, u
  <2>1. wireLine(rline \o c)
    BY <1>1, <1>2, <1>6, WireGrows
  <2>2. unstuffLine(rline \o c) = u \o c
    BY <1>1, <1>6, UnstuffFront DEF u
  <2>3. (text \o u) \o c = text \o (u \o c)
    BY <1>1, <1>5, <1>6, Joined, Zenon
  <2> QED
    BY <1>1, <1>2, <1>3, <2>1, <2>2, <2>3 DEF EndingOK
<1>7. CASE atLineStart
  <2>1. rline = << >> /\ u = << >> /\ c = << >> /\ out' = <<".", "CR", "LF">>
    BY <1>1, <1>4, <1>7, TerminatorIs DEF unstuffLine
  <2>2. completed(body) = text
    BY <1>1, <1>3, <2>1, ConcatEmptySeq
  <2> QED
    BY <1>1, <1>2, <2>1, <2>2 DEF ClosingOK
<1>8. CASE ~atLineStart /\ lastByte = "CR"
  <2>1. c = <<"LF">> /\ out' = <<"LF", ".", "CR", "LF">>
    BY <1>1, <1>8, TerminatorIs
  <2>2. c \in Seq(Octets) /\ Len(c) = 1
    BY <2>1, Literals
  <2>3. rline # << >> /\ rline[Len(rline)] = "CR"
    BY <1>4, <1>8
  <2> HIDE DEF c
  <2>4. EndingOK(c)
    BY <1>6, <2>2, <2>3
  <2>5. EndingOK(<<"LF">>)'
    BY <1>1, <2>1, <2>4 DEF EndingOK
  <2> QED
    BY <1>1, <1>2, <2>1, <2>5 DEF ClosingOK
<1>9. CASE ~atLineStart /\ lastByte # "CR"
  <2>1. c = CRLF /\ out' = <<"CR", "LF", ".", "CR", "LF">>
    BY <1>1, <1>9, TerminatorIs
  <2>2. c \in Seq(Octets) /\ Len(c) = 2 /\ c[1] = "CR"
    <3>1. CRLF \in Seq(Octets) /\ Len(CRLF) = 2 /\ CRLF[1] = "CR"
      BY Literals DEF CRLF
    <3> QED
      BY <2>1, <3>1
  <2>3. rline # << >>
    BY <1>4, <1>9
  <2> HIDE DEF c
  <2>4. EndingOK(c)
    BY <1>6, <2>2, <2>3
  <2>5. EndingOK(CRLF)'
    BY <1>1, <2>1, <2>4 DEF EndingOK
  <2> QED
    BY <1>1, <1>2, <2>1, <2>5 DEF ClosingOK
<1> QED
  BY <1>7, <1>8, <1>9

\* What the caller has got so far is the beginning of what it is to get.
LEMMA StartOfJoined ==
    ASSUME NEW s \in Seq(Octets), NEW t \in Seq(Octets)
    PROVE  startOf(s, s \o t)
  BY Places DEF startOf

\* The completed body is octets.
LEMMA CompletedTyped ==
    ASSUME TransferTypeOK
    PROVE  completed(body) \in Seq(Octets)
<1> DEFINE last == IF body = << >> THEN "none" ELSE body[Len(body)]
           n == normalised(body)
           c == closing(last)
<1>1. body \in Seq(Octets) /\ Len(body) \in Nat
  BY DEF TransferTypeOK
<1>2. n \in Seq(Octets)
  BY <1>1, NormalisedSteps DEF normalised
<1>3. c \in Seq(Octets)
  <2> HIDE DEF last
  <2>1. << >> \in Seq(Octets)
    OBVIOUS
  <2> QED
    BY <2>1, Literals DEF closing
<1>4. completed(body) = n \o c
  BY <1>1, CompletedAs
<1> HIDE DEF n, c
<1> QED
  BY <1>2, <1>3, <1>4, ConcatProperties

\* During the copy the client holds a start of the completed body,
LEMMA CopyStart ==
    ASSUME TransferTypeOK, CopyOK
    PROVE  startOf(text, completed(body))
<1> DEFINE u == unstuffLine(raw)
           last == IF body = << >> THEN "none" ELSE body[Len(body)]
           c == closing(last)
<1>1. /\ body \in Seq(Octets) /\ text \in Seq(Octets) /\ pos \in 0..Len(body)
      /\ raw \in Seq(Octets)
  BY Places DEF TransferTypeOK, raw
<1>2. u \in Seq(Octets)
  BY <1>1, ReadTyped
<1>3. c \in Seq(Octets)
  <2> HIDE DEF last
  <2>1. << >> \in Seq(Octets)
    OBVIOUS
  <2> QED
    BY <2>1, Literals DEF closing
<1>4. completed(body) = normalised(body) \o c
  BY <1>1, CompletedAs
<1>5. PICK r \in Seq(Octets) : normalised(body) = normalisedTo(body)[pos] \o r
  BY <1>1, NormalisedGrows
<1>6. completed(body) = ((text \o u) \o r) \o c
  BY <1>4, <1>5 DEF CopyOK
<1> DEFINE rest == u \o (r \o c)
<1>7. rest \in Seq(Octets) /\ completed(body) = text \o rest
  <2> HIDE DEF u, c
  <2>1. r \o c \in Seq(Octets)
    BY <1>3, ConcatProperties
  <2>2. rest \in Seq(Octets)
    BY <1>2, <2>1, ConcatProperties
  <2>3. text \o u \in Seq(Octets)
    BY <1>1, <1>2, ConcatProperties
  <2>4. ((text \o u) \o r) \o c = (text \o u) \o (r \o c)
    BY <1>3, <2>3, Joined, Zenon
  <2>5. (text \o u) \o (r \o c) = text \o rest
    <3> DEFINE q == r \o c
    <3>1. text \in Seq(Octets) /\ u \in Seq(Octets) /\ q \in Seq(Octets)
      BY <1>1, <1>2, <2>1
    <3> HIDE DEF q
    <3>2. (text \o u) \o q = text \o (u \o q)
      BY <3>1, Joined, Zenon
    <3> QED
      BY <3>2 DEF q
  <2> QED
    BY <1>6, <2>2, <2>4, <2>5
<1> HIDE DEF rest
<1> QED
  BY <1>1, <1>7, StartOfJoined

\* ... and while the terminator is sent,
LEMMA ClosingStart ==
    ASSUME TransferTypeOK, ClosingOK
    PROVE  startOf(text, completed(body)) /\ unended(rline)
<1>1. rline \in Seq(Octets) /\ text \in Seq(Octets)
  BY DEF TransferTypeOK
<1>2. ASSUME NEW e \in Seq(Octets), EndingOK(e)
      PROVE  startOf(text, completed(body)) /\ unended(rline)
  <2> DEFINE u == unstuffLine(rline \o e)
  <2>1. u \in Seq(Octets)
    BY <1>1, ReadTyped, ConcatProperties
  <2>2. completed(body) = text \o u /\ unended(rline)
    BY <1>2 DEF EndingOK
  <2> HIDE DEF u
  <2> QED
    BY <1>1, <2>1, <2>2, StartOfJoined
<1>3. CASE EndingOK(<<"LF">>) \/ EndingOK(CRLF)
  BY <1>2, <1>3, Literals
<1>4. CASE text = completed(body) /\ (rline = << >> \/ rline = <<".">> \/ rline = <<".", "CR">>)
  <2>1. startOf(text, completed(body))
    BY <1>1, <1>4 DEF startOf
  <2>2. unended(rline)
    BY <1>4 DEF unended
  <2> QED
    BY <2>1, <2>2
<1> QED
  BY <1>3, <1>4 DEF ClosingOK

\* ... and a start of it has its lines.
LEMMA StartIntact ==
    ASSUME TransferTypeOK, startOf(text, completed(body))
    PROVE  LinesIntact
<1> DEFINE w == completed(body)
<1>1. w \in Seq(Octets) /\ text \in Seq(Octets)
  BY CompletedTyped DEF TransferTypeOK
<1> HIDE DEF w
<1>2. ASSUME NEW i \in 1..Len(text)
      PROVE  i <= Len(w) /\ SubSeq(text, 1, i) = SubSeq(w, 1, i)
  <2>1. /\ Len(text) <= Len(w) /\ \A j \in 1..Len(text) : text[j] = w[j]
        /\ Len(text) \in Nat /\ Len(w) \in Nat
    BY <1>1 DEF startOf, w
  <2>2. i <= Len(w)
    BY <2>1
  <2>3. SubSeq(text, 1, i) = SubSeq(w, 1, i)
    BY <1>1, <2>1, <2>2
  <2> QED
    BY <2>2, <2>3
<1> QED
  BY <1>2 DEF LinesIntact, w

\* The connection is lost: nothing more comes.
LEMMA Drops ==
    ASSUME TransferTypeOK, WriterOK, stage \in {"copy", "closing"},
           stage = "copy" => CopyOK, stage = "closing" => ClosingOK,
           BodyFails \/ Break
    PROVE  dropped' /\ DroppedOK'
<1> USE DEF serverVars, clientVars, request
<1>1. /\ stage' \in {"aborted", "broken"} /\ body' = body /\ rline' = rline
      /\ text' = text /\ rstate' = rstate /\ out' = << >>
  BY DEF BodyFails, Break
<1>2. startOf(text, completed(body)) /\ unended(rline)
  BY CopyStart, ClosingStart DEF CopyOK
<1>3. TransferTypeOK'
  <2>1. [Next]_tvars
    BY DEF Next
  <2> QED
    BY <2>1, TypeStep
<1>4. LinesIntact'
  <2>1. LinesIntact
    BY <1>2, StartIntact
  <2>2. dropped'
    BY <1>1 DEF dropped
  <2> QED
    BY <1>1, <2>1, <2>2 DEF LinesIntact
<1>5. ASSUME stage' = "aborted"
      PROVE  rstate # "done" /\ rline # <<".">>
  <2>1. BodyFails /\ stage = "copy" /\ out = << >>
    BY <1>5 DEF BodyFails, Break
  <2>2. wireLine(rline) /\ rstate = "reading"
    BY <2>1, AllDelivered DEF CopyOK
  <2>3. ~wireLine(<<".">>)
    BY DEF wireLine
  <2> QED
    BY <2>2, <2>3
<1> QED
  BY <1>1, <1>2, <1>4, <1>5 DEF DroppedOK, dropped

\* The line in which the connection was lost is read as a whole one.
LEMMA HalfLineKept ==
    ASSUME TransferTypeOK, dropped, DroppedOK, HalfLine
    PROVE  dropped' /\ DroppedOK'
<1> USE DEF serverVars, clientVars, request
<1>1. /\ stage' = stage /\ body' = body /\ out' = out /\ rline' = << >>
      /\ rstate = "reading" /\ rline # << >> /\ rline \in Seq(Octets)
      /\ text \in Seq(Octets)
  BY DEF HalfLine, Accept, TransferTypeOK
<1>2. startOf(text, completed(body)) /\ unended(rline) /\ LinesIntact /\ out = << >>
  BY <1>1 DEF DroppedOK
<1>3. unended(rline') /\ dropped'
  BY <1>1 DEF unended, dropped
<1>4. CASE rline = <<".">>
  <2>1. text' = text /\ stage # "aborted"
    BY <1>4 DEF HalfLine, Accept, DroppedOK
  <2>2. LinesIntact'
    BY <1>1, <1>2, <1>3, <2>1 DEF LinesIntact
  <2> QED
    BY <1>1, <1>2, <1>3, <2>1, <2>2 DEF DroppedOK
<1>5. CASE rline # <<".">>
  <2> DEFINE u == unstuffLine(rline)
             w == completed(body)
             n == Len(text)
             k == Len(u)
  <2>1. text' = (text \o u) \o CRLF /\ rstate' = "reading"
    BY <1>1, <1>5 DEF HalfLine, Accept
  <2>2. u \in Seq(Octets) /\ w \in Seq(Octets) /\ CRLF \in Seq(Octets)
    BY <1>1, ReadTyped, CompletedTyped, Literals
  <2>3. unended(u)
    BY <1>1, <1>2 DEF unended, unstuffLine
  <2> HIDE DEF u, w
  <2>4. /\ text \o u \in Seq(Octets) /\ Len(text \o u) = n + k /\ n \in Nat /\ k \in Nat
        /\ \A i \in 1..n : (text \o u)[i] = text[i]
        /\ \A i \in 1..k : (text \o u)[n + i] = u[i]
    BY <1>1, <2>2, Places
  <2> DEFINE v == text \o u
  <2>5. Len(CRLF) = 2 /\ CRLF[1] = "CR"
    BY DEF CRLF
  <2> HIDE DEF v
  <2>6. /\ v \o CRLF \in Seq(Octets) /\ Len(v \o CRLF) = Len(v) + Len(CRLF)
        /\ \A i \in 1..Len(v) : (v \o CRLF)[i] = v[i]
        /\ \A i \in 1..Len(CRLF) : (v \o CRLF)[Len(v) + i] = CRLF[i]
    BY <2>2, <2>4, Places DEF v
  <2>7. /\ text' \in Seq(Octets) /\ Len(text') = n + k + 2
        /\ \A i \in 1..n : text'[i] = text[i]
        /\ \A i \in 1..k : text'[n + i] = u[i]
        /\ text'[n + k + 1] = "CR"
    <3>1. text' = v \o CRLF /\ Len(v) = n + k
      BY <2>1, <2>4 DEF v
    <3>2. text' \in Seq(Octets) /\ Len(text') = n + k + 2
      BY <2>4, <2>5, <2>6, <3>1
    <3>3. \A i \in 1..n : text'[i] = text[i]
      BY <2>4, <2>6, <3>1 DEF v
    <3>4. \A i \in 1..k : text'[n + i] = u[i]
      BY <2>4, <2>6, <3>1 DEF v
    <3>5. text'[n + k + 1] = "CR"
      BY <2>4, <2>5, <2>6, <3>1
    <3> QED
      BY <3>2, <3>3, <3>4, <3>5
  <2>8. ASSUME NEW i \in 1..Len(text'), text'[i] = "LF", i < Len(text')
        PROVE  i <= Len(w) /\ SubSeq(text', 1, i) = SubSeq(w, 1, i)
    <3>1. i \in 1..n
      <4>1. i \in Nat /\ 1 <= i /\ i < n + k + 2 /\ i # n + k + 1 /\ n \in Nat /\ k \in Nat
        BY <2>4, <2>7, <2>8
      <4>2. ~(i - n \in 1..k)
        <5> SUFFICES ASSUME i - n \in 1..k
                     PROVE  FALSE
          OBVIOUS
        <5>1. text'[n + (i - n)] = u[i - n]
          BY <2>7
        <5>2. n + (i - n) = i
          BY <4>1
        <5> QED
          BY <2>3, <2>8, <5>1, <5>2 DEF unended
      <4> HIDE DEF n, k
      <4> QED
        BY <4>1, <4>2
    <3>2. /\ n <= Len(w) /\ Len(w) \in Nat
          /\ \A j \in 1..n : text'[j] = w[j]
      BY <1>2, <2>2, <2>7 DEF startOf, w
    <3>3. i <= Len(w) /\ i <= Len(text')
      BY <2>4, <2>7, <3>1, <3>2
    <3>4. SubSeq(text', 1, i) = SubSeq(w, 1, i)
      BY <2>2, <2>7, <3>1, <3>2, <3>3
    <3> QED
      BY <3>3, <3>4
  <2>9. LinesIntact'
    BY <1>1, <1>3, <2>8 DEF LinesIntact, w
  <2> QED
    BY <1>1, <1>2, <1>3, <2>1, <2>9 DEF DroppedOK
<1> QED
  BY <1>4, <1>5

\* The invariant at the start,
LEMMA InvInit == Init => TransferInv
<1> SUFFICES ASSUME Init
             PROVE  TransferInv
  OBVIOUS
<1>1. TransferTypeOK
  BY TypeInit
<1>2. WriterOK
  BY DEF Init, WriterOK
<1>3. raw = << >>
  BY DEF Init, raw
<1>4. CopyOK
  <2>1. wireLine(raw) /\ unended(rline)
    BY <1>3 DEF Init, wireLine, unended
  <2>2. normalisedTo(body)[pos] = << >>
    BY <1>1, NormalisedSteps DEF Init, TransferTypeOK
  <2>3. text \o unstuffLine(raw) = << >>
    BY <1>3 DEF Init, unstuffLine
  <2> QED
    BY <1>3, <2>1, <2>2, <2>3 DEF Init, CopyOK
<1> QED
  BY <1>1, <1>2, <1>4 DEF Init, TransferInv, dropped

\* ... and one step per action.
LEMMA InvStep == TransferInv /\ [Next]_tvars => TransferInv'
<1> SUFFICES ASSUME TransferInv, [Next]_tvars
             PROVE  TransferInv'
  OBVIOUS
<1> USE DEF serverVars, clientVars, request
<1>0. TransferTypeOK' /\ WriterOK' /\ TransferTypeOK /\ WriterOK
  BY TypeStep, WriterKept DEF TransferInv
<1>1. ASSUME \/ stage' = "copy" /\ CopyOK'
             \/ stage' = "closing" /\ ClosingOK'
             \/ stage' = "sent" /\ SentOK'
             \/ dropped' /\ DroppedOK'
      PROVE  TransferInv'
  BY <1>0, <1>1 DEF TransferInv, dropped
<1>2. CASE UNCHANGED tvars
  <2>1. /\ (CopyOK' <=> CopyOK) /\ (ClosingOK' <=> ClosingOK) /\ (SentOK' <=> SentOK)
        /\ (DroppedOK' <=> DroppedOK) /\ (dropped' <=> dropped) /\ stage' = stage
    BY <1>2 DEF tvars, CopyOK, ClosingOK, EndingOK, SentOK, DroppedOK, LinesIntact, dropped, raw
  <2> QED
    BY <1>0, <2>1 DEF TransferInv
<1>3. CASE NextChunk
  <2>1. stage' = "copy" /\ CopyOK'
    BY <1>3 DEF NextChunk, TransferInv, CopyOK, raw
  <2> QED
    BY <1>1, <2>1
<1>4. CASE WriteByte
  <2>1. stage' = "copy" /\ CopyOK'
    BY <1>0, <1>4, CopyWrite DEF WriteByte, TransferInv
  <2> QED
    BY <1>1, <2>1
<1>5. CASE EndOfBody
  <2>1. stage' = "closing" /\ ClosingOK'
    BY <1>0, <1>5, CopyEnds DEF EndOfBody, TransferInv
  <2> QED
    BY <1>1, <2>1
<1>6. CASE BodyFails \/ Break
  <2>1. stage \in {"copy", "closing"}
    BY <1>6 DEF BodyFails, Break
  <2>2. dropped' /\ DroppedOK'
    BY <1>0, <1>6, <2>1, Drops DEF TransferInv
  <2> QED
    BY <1>1, <2>2
<1>7. CASE Deliver
  <2>1. stage \in {"copy", "closing"}
    BY <1>0, <1>7 DEF Deliver, TransferInv, TransferTypeOK, SentOK, DroppedOK, dropped
  <2>2. CASE stage = "copy"
    BY <1>0, <1>1, <1>7, <2>2, CopyDeliver DEF TransferInv
  <2>3. CASE stage = "closing"
    BY <1>0, <1>1, <1>7, <2>3, ClosingDeliver DEF TransferInv
  <2> QED
    BY <2>1, <2>2, <2>3
<1>8. CASE HalfLine
  <2>1. dropped /\ DroppedOK
    BY <1>8 DEF HalfLine, TransferInv
  <2> QED
    BY <1>0, <1>1, <1>8, <2>1, HalfLineKept
<1>9. CASE ConnectionEnds
  <2>1. dropped /\ DroppedOK
    BY <1>9 DEF ConnectionEnds, TransferInv
  <2>2. dropped' /\ DroppedOK'
    BY <1>9, <2>1 DEF ConnectionEnds, DroppedOK, dropped, LinesIntact
  <2> QED
    BY <1>1, <2>2
<1>10. CASE Terminated
  BY <1>2, <1>10 DEF Terminated
<1> QED
  BY <1>2, <1>3, <1>4, <1>5, <1>6, <1>7, <1>8, <1>9, <1>10 DEF Next

(* The invariant holds in every reachable state, for all bodies, chunk sizes *)
(* and failures: dotStuffWriter and bodyReader agree on where they are.      *)
THEOREM Invariance == Spec => []TransferInv
  BY InvInit, InvStep, PTL DEF Spec

(* Every variable keeps its type and io.Copy never hands the writer more     *)
(* than the Session's reader gave.                                           *)
THEOREM TransferTyped == Spec => []TransferTypeOK
<1>1. TransferInv => TransferTypeOK
  BY DEF TransferInv
<1> QED
  BY <1>1, Invariance, PTL

(* A client that has seen the terminator has the normalised body with its    *)
(* last line completed: bodyReader undoes what dotStuffWriter did, for a     *)
(* body of any length cut into chunks of any size.                           *)
THEOREM BodyArrived == Spec => []BodyArrives
<1>1. TransferInv => BodyArrives
  BY DEF TransferInv, TransferTypeOK, CopyOK, ClosingOK, SentOK, DroppedOK, dropped, BodyArrives
<1> QED
  BY <1>1, Invariance, PTL

(* No line of a body is taken for the terminator, and a server that drops    *)
(* the connection because the Session's reader failed has sent none.         *)
THEOREM TerminatorLast == Spec => []TerminatorIsLast
<1>1. TransferInv => TerminatorIsLast
  BY DEF TransferInv, TransferTypeOK, CopyOK, ClosingOK, SentOK, DroppedOK, dropped,
         TerminatorIsLast
<1> QED
  BY <1>1, Invariance, PTL

(* Wherever the connection breaks, the caller of bodyReader.Read has only    *)
(* lines of the message, in their places, but for the one that broke.        *)
THEOREM LinesStayIntact == Spec => []LinesIntact
<1>1. ASSUME TransferInv
      PROVE  LinesIntact
  <2>1. TransferTypeOK
    BY <1>1 DEF TransferInv
  <2>2. CASE stage = "copy"
    BY <1>1, <2>1, <2>2, CopyStart, StartIntact DEF TransferInv
  <2>3. CASE stage = "closing"
    BY <1>1, <2>1, <2>3, ClosingStart, StartIntact DEF TransferInv
  <2>4. CASE stage = "sent"
    <3>1. text = completed(body) /\ text \in Seq(Octets)
      BY <1>1, <2>4 DEF TransferInv, SentOK, TransferTypeOK
    <3>2. startOf(text, completed(body))
      BY <3>1 DEF startOf
    <3> QED
      BY <2>1, <3>2, StartIntact
  <2>5. CASE dropped
    BY <1>1, <2>5 DEF TransferInv, DroppedOK
  <2> QED
    BY <2>1, <2>2, <2>3, <2>4, <2>5 DEF TransferTypeOK, dropped
<1> QED
  BY <1>1, Invariance, PTL

\* The body of a TOP stays what topBytes gave.
BodyIsTop == top >= 0 => top \in Nat /\ body = topBytes(message, top)

\* The message, the count and the body never change.
LEMMA BodyStaysTop == Spec => []BodyIsTop
<1>1. Init => BodyIsTop
  BY TransferAssumption DEF Init, BodyIsTop
<1>2. BodyIsTop /\ [Next]_tvars => BodyIsTop'
  BY DEF BodyIsTop, Next, tvars, serverVars, request, NextChunk, WriteByte, EndOfBody, BodyFails,
         Break, Deliver, HalfLine, ConnectionEnds, Terminated
<1> QED
  BY <1>1, <1>2, PTL DEF Spec

(* TOP of a message that begins with a header line and has one kind of line  *)
(* end gives the client its header block, the first blank line and the first *)
(* n lines after it, completed: handleTop, topBytes and dotStuffWriter, for  *)
(* messages and counts of any size.                                          *)
THEOREM TopExactly == Spec => []TopExact
<1>1. ASSUME TransferInv, BodyIsTop
      PROVE  TopExact
  <2> SUFFICES ASSUME rstate = "done", stage # "broken", top >= 0,
                      uniform(message), blanks(message) \cap {1, 2} = {}
               PROVE  text = completed(SubSeq(message, 1, topEnd(message, top)))
    BY DEF TopExact
  <2>1. text = completed(body)
    BY <1>1 DEF TransferInv, TransferTypeOK, CopyOK, ClosingOK, SentOK, DroppedOK, dropped
  <2>2. message \in Seq(Octets) /\ top \in Nat /\ body = topBytes(message, top)
    BY <1>1 DEF TransferInv, TransferTypeOK, BodyIsTop
  <2>3. body = SubSeq(message, 1, topEnd(message, top))
    BY <2>2, TopIsReference
  <2> QED
    BY <2>1, <2>3
<1> QED
  BY <1>1, Invariance, BodyStaysTop, PTL
=============================================================================
