--------------------------- MODULE RequestsProofs ---------------------------
(***************************************************************************)
(* Proofs about LineReader and Conversions, for input, arguments,          *)
(* credentials and errors of any length and every size of the buffer.      *)
(***************************************************************************)
EXTENDS LineReader, Conversions, Induction, SequenceTheorems, FiniteSetTheorems

------------------------------------------------------------------------------
(* parseInt.                                                                 *)

\* The platform's int holds every value n*10 + digit of an n within the limit, as
\* Go's 64-bit int does for math.MaxInt32.
WideInt == 10 * MaxVal + 9 <= MaxInt

\* A value that an int can hold is not changed.
LEMMA WrapSmall ==
    ASSUME NEW x \in 0..MaxInt
    PROVE  wrap(x) = x
<1>1. PICK m \in Nat : m = MaxInt + 1
  BY ParseIntAssumption
<1>2. x + MaxInt + 1 = x + m /\ 0 <= x + m /\ x + m < 2 * m /\ x + m \in Nat
  BY <1>1, ParseIntAssumption
<1>3. (x + m) % (2 * m) = x + m
  BY <1>2
<1> QED
  BY <1>1, <1>2, <1>3 DEF wrap

Digits == 0..9 \cup {-1}
Parsed == [ok : BOOLEAN, n : Int]

\* Every turn of the loop leaves an int.
LEMMA DigitTyped == \A n \in Int : \A c \in Digits : addDigit(n, c) \in Parsed
<1>1. ASSUME NEW x \in Int PROVE wrap(x) \in Int
  BY ParseIntAssumption DEF wrap
<1>2. ASSUME NEW n \in Int, NEW c \in Digits PROVE n * 10 + c \in Int
  BY DEF Digits
<1>3. ASSUME NEW n \in Int, NEW c \in Digits PROVE addDigit(n, c) \in Parsed
  <2>1. PICK x \in Int : x = wrap(n * 10 + c)
    BY <1>1, <1>2
  <2>2. addDigit(n, c) = invalid \/ addDigit(n, c) = [ok |-> TRUE, n |-> x]
    BY <2>1 DEF addDigit
  <2>3. invalid \in Parsed /\ [ok |-> TRUE, n |-> x] \in Parsed
    BY DEF invalid, Parsed
  <2> QED
    BY <2>2, <2>3
<1> QED
  BY <1>3

\* The turns of parseInt.
LEMMA ParseTurns ==
    ASSUME NEW s \in Seq(Digits)
    PROVE  \E g \in [0..Len(s) -> Parsed] :
             /\ g[0] = [ok |-> s # <<>>, n |-> 0] /\ parseInt(s) = g[Len(s)]
             /\ \A i \in 1..Len(s) :
                   g[i] = IF g[i - 1].ok THEN addDigit(g[i - 1].n, s[i]) ELSE invalid
<1> DEFINE n == Len(s)
           b == [ok |-> s # <<>>, n |-> 0]
           Then(x, i) == IF x.ok THEN addDigit(x.n, s[i]) ELSE invalid
           step == [i \in 1..n |-> [x \in Parsed |-> Then(x, i)]]
           Turn(f, i) == IF i = 0 THEN b ELSE Then(f[i - 1], i)
           Is(f) == f = [i \in 0..n |-> Turn(f, i)]
           N == CHOOSE f : Is(f)
<1>1. n \in Nat /\ b \in Parsed
  BY DEF Parsed
<1>2. \A i \in 1..n : \A x \in Parsed : Then(x, i) \in Parsed
  <2> SUFFICES ASSUME NEW i \in 1..n, NEW x \in Parsed PROVE Then(x, i) \in Parsed
    OBVIOUS
  <2>1. s[i] \in Digits /\ x.n \in Int /\ invalid \in Parsed
    BY DEF Parsed, invalid
  <2> QED
    BY <2>1, DigitTyped
<1> HIDE DEF Then, b, n
<1>3. step \in Steps(n, Parsed)
  BY <1>2 DEF Steps
<1>4. \A i \in 1..n : \A x \in Parsed : step[i][x] = Then(x, i)
  OBVIOUS
<1> HIDE DEF step
<1>5. PICK g : Loop(g, n, Parsed, b, step)
  BY <1>1, <1>3, LoopFunction
<1>6. Is(g)
  <2>1. \A i \in 0..n : g[i] = Turn(g, i)
    <3> SUFFICES ASSUME NEW i \in 0..n PROVE g[i] = Turn(g, i)
      OBVIOUS
    <3>1. CASE i = 0
      BY <1>5, <3>1 DEF Loop
    <3>2. CASE i # 0
      <4>1. i \in 1..n /\ i - 1 \in 0..n
        BY <1>1, <3>2
      <4>2. g[i - 1] \in Parsed /\ g[i] = step[i][g[i - 1]]
        BY <1>5, <4>1 DEF Loop
      <4> QED
        BY <1>4, <3>2, <4>1, <4>2
    <3> QED
      BY <3>1, <3>2
  <2> HIDE DEF Turn
  <2>2. g = [i \in 0..n |-> g[i]]
    BY <1>5 DEF Loop
  <2> QED
    BY <2>1, <2>2
<1>7. Is(N)
  <2> HIDE DEF Is
  <2> QED
    BY <1>6
<1>8. parseInt(s) = N[n]
  BY DEF parseInt, Then, n, b
<1> HIDE DEF N
<1>9. \A i \in 0..n : N[i] = Turn(N, i)
  <2> HIDE DEF Turn
  <2> QED
    BY <1>7
<1>10. N = [i \in 0..n |-> N[i]]
  <2> HIDE DEF Turn
  <2> QED
    BY <1>7
<1> HIDE DEF Is
<1>11. N[0] = b /\ \A i \in 1..n : N[i] = Then(N[i - 1], i)
  <2>1. 0 \in 0..n /\ \A i \in 1..n : i \in 0..n /\ i # 0
    BY <1>1
  <2> QED
    BY <1>9, <2>1, Zenon
<1>12. Loop(N, n, Parsed, b, step)
  <2>1. \A i \in 1..n : N[i - 1] \in Parsed => N[i] = step[i][N[i - 1]]
    BY <1>4, <1>11
  <2> QED
    BY <1>1, <1>3, <1>10, <1>11, <2>1, LoopIs
<1>13. N \in [0..n -> Parsed]
  BY <1>12 DEF Loop
<1> QED
  BY <1>8, <1>11, <1>13 DEF Then, n, b

\* The turns of value, the reference.
LEMMA ValueTurns ==
    ASSUME NEW s \in Seq(Digits)
    PROVE  \E g \in [0..Len(s) -> Int] :
             /\ g[0] = 0 /\ value(s) = g[Len(s)]
             /\ \A i \in 1..Len(s) : g[i] = g[i - 1] * 10 + s[i]
<1> DEFINE n == Len(s)
           b == 0
           Then(x, i) == x * 10 + s[i]
           step == [i \in 1..n |-> [x \in Int |-> Then(x, i)]]
           Turn(f, i) == IF i = 0 THEN b ELSE Then(f[i - 1], i)
           Is(f) == f = [i \in 0..n |-> Turn(f, i)]
           N == CHOOSE f : Is(f)
<1>1. n \in Nat /\ b \in Int
  OBVIOUS
<1>2. \A i \in 1..n : \A x \in Int : Then(x, i) \in Int
  <2> SUFFICES ASSUME NEW i \in 1..n, NEW x \in Int PROVE x * 10 + s[i] \in Int
    OBVIOUS
  <2>1. s[i] \in Digits
    OBVIOUS
  <2> QED
    BY <2>1 DEF Digits
<1> HIDE DEF Then, b, n
<1>3. step \in Steps(n, Int)
  BY <1>2 DEF Steps
<1>4. \A i \in 1..n : \A x \in Int : step[i][x] = Then(x, i)
  OBVIOUS
<1> HIDE DEF step
<1>5. PICK g : Loop(g, n, Int, b, step)
  BY <1>1, <1>3, LoopFunction
<1>6. Is(g)
  <2>1. \A i \in 0..n : g[i] = Turn(g, i)
    <3> SUFFICES ASSUME NEW i \in 0..n PROVE g[i] = Turn(g, i)
      OBVIOUS
    <3>1. CASE i = 0
      BY <1>5, <3>1 DEF Loop
    <3>2. CASE i # 0
      <4>1. i \in 1..n /\ i - 1 \in 0..n
        BY <1>1, <3>2
      <4>2. g[i - 1] \in Int /\ g[i] = step[i][g[i - 1]]
        BY <1>5, <4>1 DEF Loop
      <4> QED
        BY <1>4, <3>2, <4>1, <4>2
    <3> QED
      BY <3>1, <3>2
  <2> HIDE DEF Turn
  <2>2. g = [i \in 0..n |-> g[i]]
    BY <1>5 DEF Loop
  <2> QED
    BY <2>1, <2>2
<1>7. Is(N)
  <2> HIDE DEF Is
  <2> QED
    BY <1>6
<1>8. value(s) = N[n]
  BY DEF value, Then, n, b
<1> HIDE DEF N
<1>9. \A i \in 0..n : N[i] = Turn(N, i)
  <2> HIDE DEF Turn
  <2> QED
    BY <1>7
<1>10. N = [i \in 0..n |-> N[i]]
  <2> HIDE DEF Turn
  <2> QED
    BY <1>7
<1> HIDE DEF Is
<1>11. N[0] = b /\ \A i \in 1..n : N[i] = Then(N[i - 1], i)
  <2>1. 0 \in 0..n /\ \A i \in 1..n : i \in 0..n /\ i # 0
    BY <1>1
  <2> QED
    BY <1>9, <2>1, Zenon
<1>12. Loop(N, n, Int, b, step)
  <2>1. \A i \in 1..n : N[i - 1] \in Int => N[i] = step[i][N[i - 1]]
    BY <1>4, <1>11
  <2> QED
    BY <1>1, <1>3, <1>10, <1>11, <2>1, LoopIs
<1>13. N \in [0..n -> Int]
  BY <1>12 DEF Loop
<1> QED
  BY <1>8, <1>11, <1>13 DEF Then, n, b

(* parseInt accepts exactly the numbers up to the limit, for what they are:  *)
(* no prefix of an argument of any length wraps around, and once the limit   *)
(* is passed no further digit leads back.                                    *)
LEMMA ParseIs ==
    ASSUME WideInt, NEW s \in Seq(Digits)
    PROVE  /\ parseInt(s).ok <=> isNumber(s) /\ value(s) <= MaxVal
           /\ parseInt(s).ok => parseInt(s).n = value(s)
<1>1. PICK g \in [0..Len(s) -> Parsed] :
             /\ g[0] = [ok |-> s # <<>>, n |-> 0] /\ parseInt(s) = g[Len(s)]
             /\ \A i \in 1..Len(s) :
                   g[i] = IF g[i - 1].ok THEN addDigit(g[i - 1].n, s[i]) ELSE invalid
  BY ParseTurns
<1>2. PICK v \in [0..Len(s) -> Int] :
             /\ v[0] = 0 /\ value(s) = v[Len(s)]
             /\ \A i \in 1..Len(s) : v[i] = v[i - 1] * 10 + s[i]
  BY ValueTurns
<1> DEFINE digits(i) == \A j \in 1..i : s[j] # NotDigit
           Good(i) == /\ digits(i) => v[i] >= 0
                      /\ g[i].ok <=> s # <<>> /\ digits(i) /\ v[i] <= MaxVal
                      /\ g[i].ok => g[i].n = v[i]
           I == {i \in Nat : i <= Len(s) => Good(i)}
<1>3. 0 \in I
  <2>1. digits(0) /\ v[0] = 0 /\ g[0].ok = (s # <<>>) /\ g[0].n = 0
    BY <1>1, <1>2
  <2>2. 0 <= MaxVal
    BY ParseIntAssumption
  <2>3. Good(0)
    BY <2>1, <2>2
  <2> HIDE DEF Good
  <2> QED
    BY <2>3
<1>4. ASSUME NEW k \in Nat, k \in I
      PROVE  k + 1 \in I
  <2> SUFFICES ASSUME k + 1 <= Len(s) PROVE Good(k + 1)
    <3> HIDE DEF Good
    <3> QED
      OBVIOUS
  <2>1. /\ k + 1 \in 1..Len(s) /\ (k + 1) - 1 = k /\ k \in 0..Len(s) /\ k + 1 \in 0..Len(s)
        /\ Good(k)
    <3> HIDE DEF Good
    <3> QED
      BY <1>4
  <2>2. PICK c \in Digits : c = s[k + 1]
    BY <2>1
  <2>3. PICK w \in Int : w = v[k]
    BY <2>1
  <2>4. PICK z \in Int : z = v[k + 1] /\ z = w * 10 + c
    BY <1>2, <2>1, <2>2, <2>3
  <2>5. PICK p \in Parsed : p = g[k]
    BY <2>1
  <2>6. PICK q \in Parsed : q = g[k + 1] /\ q = IF p.ok THEN addDigit(p.n, c) ELSE invalid
    BY <1>1, <2>1, <2>2, <2>5
  <2>7. digits(k + 1) <=> digits(k) /\ c # NotDigit
    BY <2>1, <2>2
  <2>8. PICK d, e \in BOOLEAN : d = digits(k) /\ e = (s # <<>>)
    OBVIOUS
  <2>9. (d => w >= 0) /\ (p.ok <=> e /\ d /\ w <= MaxVal) /\ (p.ok => p.n = w)
    BY <2>1, <2>3, <2>5, <2>8
  <2>10. /\ d /\ c # NotDigit => z >= 0
         /\ q.ok <=> e /\ d /\ c # NotDigit /\ z <= MaxVal
         /\ q.ok => q.n = z
    <3>1. MaxVal \in Nat /\ MaxInt \in Nat /\ 10 * MaxVal + 9 <= MaxInt
      BY ParseIntAssumption DEF WideInt
    <3>2. CASE p.ok /\ c # NotDigit
      <4>1. c \in 0..9 /\ w \in 0..MaxVal
        BY <2>9, <3>1, <3>2 DEF Digits, NotDigit
      <4>2. z \in 0..MaxInt
        BY <2>4, <3>1, <4>1
      <4>3. wrap(z) = z
        BY <4>2, WrapSmall
      <4>4. q = IF z <= MaxVal THEN [ok |-> TRUE, n |-> z] ELSE invalid
        BY <2>4, <2>6, <2>9, <3>2, <4>3 DEF addDigit, inRange
      <4> QED
        BY <2>9, <3>2, <4>2, <4>4 DEF invalid
    <3>3. CASE p.ok /\ c = NotDigit
      BY <2>6, <3>3 DEF addDigit, invalid
    <3>4. CASE ~p.ok
      <4>1. q.ok = FALSE
        BY <2>6, <3>4 DEF invalid
      <4>2. d /\ c # NotDigit => c \in 0..9 /\ w >= 0
        BY <2>9 DEF Digits, NotDigit
      <4>3. d /\ c # NotDigit => z >= 0 /\ z >= w
        BY <2>4, <4>2
      <4>4. e /\ d /\ c # NotDigit => z > MaxVal
        BY <2>9, <3>1, <3>4, <4>3
      <4> QED
        BY <3>1, <4>1, <4>3, <4>4
    <3> QED
      BY <3>2, <3>3, <3>4
  <2> QED
    BY <2>4, <2>6, <2>7, <2>8, <2>10
<1>5. \A k \in Nat : k \in I
  <2> HIDE DEF I
  <2> QED
    BY <1>3, <1>4, InductiveSet
<1>6. Good(Len(s))
  <2> HIDE DEF Good
  <2> QED
    BY <1>5
<1> QED
  BY <1>1, <1>2, <1>6 DEF isNumber

------------------------------------------------------------------------------
(* The calls.                                                                *)

\* What a call has returned is what its function gives for its arguments.
Returned ==
    /\ call \in Calls
    /\ returned =>
         /\ call.fn = "parseInt" => result = parseInt(call.s)
         /\ call.fn = "User" => result = User(call.username, call.password)
         /\ call.fn = "AuthPlain" =>
                result = AuthPlain(call.identity, call.username, call.password)
         /\ call.fn = "sessionError" => result = sessionError(call.err, call.strict)
         /\ call.fn = "reject" => result = reject(call.err)

\* The arguments of a call, by its function.
LEMMA CallArguments ==
    ASSUME NEW c \in Calls
    PROVE  /\ c.fn = "parseInt" => c.s \in Args
           /\ c.fn = "User" => c.username \in Usernames /\ c.password \in Passwords
           /\ c.fn = "AuthPlain" =>
                  c.identity \in Identities /\ c.username \in Usernames /\ c.password \in Passwords
           /\ c.fn = "sessionError" => c.err \in Errors /\ c.strict \in BOOLEAN
           /\ c.fn = "reject" => c.err \in Errors
<1>1. CASE c \in [fn : {"parseInt"}, s : Args]
  BY <1>1
<1>2. CASE c \in [fn : {"User"}, username : Usernames, password : Passwords]
  BY <1>2
<1>3. CASE c \in [fn : {"AuthPlain"}, identity : Identities, username : Usernames,
                  password : Passwords]
  BY <1>3
<1>4. CASE c \in [fn : {"sessionError"}, err : Errors, strict : BOOLEAN]
  BY <1>4
<1>5. CASE c \in [fn : {"reject"}, err : Errors]
  BY <1>5
<1> QED
  BY <1>1, <1>2, <1>3, <1>4, <1>5 DEF Calls

\* Every call returns what its function gives.
LEMMA CallReturns == CallSpec => []Returned
<1>1. CallInit => Returned
  BY DEF CallInit, Returned
<1>2. Returned /\ [Call]_callVars => Returned'
  <2> SUFFICES ASSUME Returned, [Call]_callVars PROVE Returned'
    OBVIOUS
  <2>1. CASE CallParseInt
    BY <2>1 DEF CallParseInt, Return, Returned
  <2>2. CASE CallUser
    BY <2>2 DEF CallUser, Return, Returned
  <2>3. CASE CallAuthPlain
    BY <2>3 DEF CallAuthPlain, Return, Returned
  <2>4. CASE CallSessionError
    BY <2>4 DEF CallSessionError, Return, Returned
  <2>5. CASE CallReject
    BY <2>5 DEF CallReject, Return, Returned
  <2>6. CASE UNCHANGED callVars
    BY <2>6 DEF callVars, Returned
  <2> QED
    BY <2>1, <2>2, <2>3, <2>4, <2>5, <2>6 DEF Call
<1> QED
  BY <1>1, <1>2, PTL DEF CallSpec

(* parseInt accepts exactly the numbers up to the limit, for what they are,  *)
(* whatever the length of the argument: with Go's 64-bit int nothing wraps   *)
(* around, and no digit after the limit was passed leads back under it.      *)
THEOREM ParseIntExact ==
    ASSUME WideInt
    PROVE  CallSpec => []ParseExact
<1>1. Returned => ParseExact
  <2> SUFFICES ASSUME Returned, call.fn = "parseInt", returned
               PROVE  /\ result.ok <=> isNumber(call.s) /\ value(call.s) <= MaxVal
                      /\ result.ok => result.n = value(call.s)
    BY DEF ParseExact, after
  <2>1. result = parseInt(call.s)
    BY DEF Returned
  <2>2. PICK c \in Calls : c = call
    BY DEF Returned
  <2>3. c.s \in Args
    BY <2>2, CallArguments
  <2>4. PICK a \in Seq(Digits) : a = call.s
    BY <2>2, <2>3, ConversionsAssumption DEF Digits
  <2>5. /\ parseInt(a).ok <=> isNumber(a) /\ value(a) <= MaxVal
        /\ parseInt(a).ok => parseInt(a).n = value(a)
    BY ParseIs
  <2> QED
    BY <2>1, <2>4, <2>5
<1> QED
  BY <1>1, CallReturns, PTL

------------------------------------------------------------------------------
(* Session errors.                                                           *)

Pieces == {"code", "own", "internal", "generic", "reject", "NL"}

\* An *Error's message is made of its code, its own text and the generic one.
LEMMA WirePieces ==
    ASSUME NEW e \in Perr
    PROVE  wireMessage(e) \in Seq(Pieces \ {"internal"})
<1>1. <<>> \in Seq(Pieces \ {"internal"}) /\ <<"code">> \in Seq(Pieces \ {"internal"})
  BY DEF Pieces
<1>2. <<"generic">> \in Seq(Pieces \ {"internal"}) /\ <<"own">> \in Seq(Pieces \ {"internal"})
  BY DEF Pieces
<1>3. <<"own", "NL", "own">> \in Seq(Pieces \ {"internal"})
  BY DEF Pieces
<1>4. e.text \in Seq(Pieces \ {"internal"})
  BY <1>1, <1>2, <1>3 DEF Perr
<1>5. \A a, b \in Seq(Pieces \ {"internal"}) : a \o b \in Seq(Pieces \ {"internal"})
  OBVIOUS
<1> QED
  BY <1>1, <1>2, <1>4, <1>5 DEF wireMessage

\* The text of what an error wraps.
LEMMA LeafPieces ==
    ASSUME NEW l \in Leaf
    PROVE  leafText(l) \in Seq(Pieces)
<1>1. \A a \in Seq(Pieces \ {"internal"}) : a \in Seq(Pieces)
  OBVIOUS
<1>2. <<"internal">> \in Seq(Pieces)
  BY DEF Pieces
<1>3. l.type = "Error" => l \in Perr
  BY DEF Leaf
<1> QED
  BY <1>1, <1>2, <1>3, WirePieces DEF leafText

\* Two texts in a row are a text.
LEMMA PiecesJoin == \A a, b \in Seq(Pieces) : a \o b \in Seq(Pieces)
  OBVIOUS

\* The empty text and a line break.
LEMMA PiecesLine == <<>> \in Seq(Pieces) /\ <<"NL">> \in Seq(Pieces)
  BY DEF Pieces

\* The turns of errorText.
LEMMA ErrorTextTurns ==
    ASSUME NEW s \in Seq(Leaf)
    PROVE  \E g \in [0..Len(s) -> Seq(Pieces)] :
             /\ g[0] = <<>> /\ errorText(s) = g[Len(s)]
             /\ \A i \in 1..Len(s) : g[i] = g[i - 1] \o (IF i = 1 THEN <<>> ELSE <<"NL">>) \o leafText(s[i])
<1> DEFINE n == Len(s)
           b == <<>>
           Then(x, i) == x \o (IF i = 1 THEN <<>> ELSE <<"NL">>) \o leafText(s[i])
           step == [i \in 1..n |-> [x \in Seq(Pieces) |-> Then(x, i)]]
           Turn(f, i) == IF i = 0 THEN b ELSE Then(f[i - 1], i)
           Is(f) == f = [i \in 0..n |-> Turn(f, i)]
           N == CHOOSE f : Is(f)
<1>1. n \in Nat /\ b \in Seq(Pieces)
  BY PiecesLine
<1>2. \A i \in 1..n : \A x \in Seq(Pieces) : Then(x, i) \in Seq(Pieces)
  <2> SUFFICES ASSUME NEW i \in 1..n, NEW x \in Seq(Pieces) PROVE Then(x, i) \in Seq(Pieces)
    OBVIOUS
  <2>1. PICK a \in Seq(Pieces) : a = IF i = 1 THEN <<>> ELSE <<"NL">>
    BY PiecesLine, Zenon
  <2>2. PICK l \in Leaf : l = s[i]
    OBVIOUS
  <2>3. leafText(s[i]) \in Seq(Pieces)
    BY <2>2, LeafPieces
  <2>4. PICK c \in Seq(Pieces) : c = leafText(s[i])
    BY <2>3, Zenon
  <2>5. x \o a \o c \in Seq(Pieces)
    BY PiecesJoin
  <2> QED
    BY <2>1, <2>4, <2>5
<1> HIDE DEF Then, b, n
<1>3. step \in Steps(n, Seq(Pieces))
  BY <1>2 DEF Steps
<1>4. \A i \in 1..n : \A x \in Seq(Pieces) : step[i][x] = Then(x, i)
  OBVIOUS
<1> HIDE DEF step
<1>5. PICK g : Loop(g, n, Seq(Pieces), b, step)
  BY <1>1, <1>3, LoopFunction
<1>6. Is(g)
  <2>1. \A i \in 0..n : g[i] = Turn(g, i)
    <3> SUFFICES ASSUME NEW i \in 0..n PROVE g[i] = Turn(g, i)
      OBVIOUS
    <3>1. CASE i = 0
      BY <1>5, <3>1 DEF Loop
    <3>2. CASE i # 0
      <4>1. i \in 1..n /\ i - 1 \in 0..n
        BY <1>1, <3>2
      <4>2. g[i - 1] \in Seq(Pieces) /\ g[i] = step[i][g[i - 1]]
        BY <1>5, <4>1 DEF Loop
      <4> QED
        BY <1>4, <3>2, <4>1, <4>2
    <3> QED
      BY <3>1, <3>2
  <2> HIDE DEF Turn
  <2>2. g = [i \in 0..n |-> g[i]]
    BY <1>5 DEF Loop
  <2> QED
    BY <2>1, <2>2
<1>7. Is(N)
  <2> HIDE DEF Is
  <2> QED
    BY <1>6
<1>8. errorText(s) = N[n]
  BY DEF errorText, Then, n, b
<1> HIDE DEF N
<1>9. \A i \in 0..n : N[i] = Turn(N, i)
  <2> HIDE DEF Turn
  <2> QED
    BY <1>7
<1>10. N = [i \in 0..n |-> N[i]]
  <2> HIDE DEF Turn
  <2> QED
    BY <1>7
<1> HIDE DEF Is
<1>11. N[0] = b /\ \A i \in 1..n : N[i] = Then(N[i - 1], i)
  <2>1. 0 \in 0..n /\ \A i \in 1..n : i \in 0..n /\ i # 0
    BY <1>1
  <2> QED
    BY <1>9, <2>1, Zenon
<1>12. Loop(N, n, Seq(Pieces), b, step)
  <2>1. \A i \in 1..n : N[i - 1] \in Seq(Pieces) => N[i] = step[i][N[i - 1]]
    BY <1>4, <1>11
  <2> QED
    BY <1>1, <1>3, <1>10, <1>11, <2>1, LoopIs
<1>13. N \in [0..n -> Seq(Pieces)]
  BY <1>12 DEF Loop
<1> QED
  BY <1>8, <1>11, <1>13 DEF Then, n, b

\* The turns of sanitizeResponse.
LEMMA SanitizeTurns ==
    ASSUME NEW s \in Seq(Pieces)
    PROVE  \E g \in [0..Len(s) -> Seq(Pieces)] :
             /\ g[0] = <<>> /\ sanitizeResponse(s) = g[Len(s)]
             /\ \A i \in 1..Len(s) : g[i] = IF s[i] = "NL" THEN g[i - 1] ELSE Append(g[i - 1], s[i])
<1> DEFINE n == Len(s)
           b == <<>>
           Then(x, i) == IF s[i] = "NL" THEN x ELSE Append(x, s[i])
           step == [i \in 1..n |-> [x \in Seq(Pieces) |-> Then(x, i)]]
           Turn(f, i) == IF i = 0 THEN b ELSE Then(f[i - 1], i)
           Is(f) == f = [i \in 0..n |-> Turn(f, i)]
           N == CHOOSE f : Is(f)
<1>1. n \in Nat /\ b \in Seq(Pieces)
  BY PiecesLine
<1>2. \A i \in 1..n : \A x \in Seq(Pieces) : Then(x, i) \in Seq(Pieces)
  <2> SUFFICES ASSUME NEW i \in 1..n, NEW x \in Seq(Pieces) PROVE Then(x, i) \in Seq(Pieces)
    OBVIOUS
  <2>1. s[i] \in Pieces
    OBVIOUS
  <2> QED
    BY <2>1
<1> HIDE DEF Then, b, n
<1>3. step \in Steps(n, Seq(Pieces))
  BY <1>2 DEF Steps
<1>4. \A i \in 1..n : \A x \in Seq(Pieces) : step[i][x] = Then(x, i)
  OBVIOUS
<1> HIDE DEF step
<1>5. PICK g : Loop(g, n, Seq(Pieces), b, step)
  BY <1>1, <1>3, LoopFunction
<1>6. Is(g)
  <2>1. \A i \in 0..n : g[i] = Turn(g, i)
    <3> SUFFICES ASSUME NEW i \in 0..n PROVE g[i] = Turn(g, i)
      OBVIOUS
    <3>1. CASE i = 0
      BY <1>5, <3>1 DEF Loop
    <3>2. CASE i # 0
      <4>1. i \in 1..n /\ i - 1 \in 0..n
        BY <1>1, <3>2
      <4>2. g[i - 1] \in Seq(Pieces) /\ g[i] = step[i][g[i - 1]]
        BY <1>5, <4>1 DEF Loop
      <4> QED
        BY <1>4, <3>2, <4>1, <4>2
    <3> QED
      BY <3>1, <3>2
  <2> HIDE DEF Turn
  <2>2. g = [i \in 0..n |-> g[i]]
    BY <1>5 DEF Loop
  <2> QED
    BY <2>1, <2>2
<1>7. Is(N)
  <2> HIDE DEF Is
  <2> QED
    BY <1>6
<1>8. sanitizeResponse(s) = N[n]
  BY DEF sanitizeResponse, Then, n, b
<1> HIDE DEF N
<1>9. \A i \in 0..n : N[i] = Turn(N, i)
  <2> HIDE DEF Turn
  <2> QED
    BY <1>7
<1>10. N = [i \in 0..n |-> N[i]]
  <2> HIDE DEF Turn
  <2> QED
    BY <1>7
<1> HIDE DEF Is
<1>11. N[0] = b /\ \A i \in 1..n : N[i] = Then(N[i - 1], i)
  <2>1. 0 \in 0..n /\ \A i \in 1..n : i \in 0..n /\ i # 0
    BY <1>1
  <2> QED
    BY <1>9, <2>1, Zenon
<1>12. Loop(N, n, Seq(Pieces), b, step)
  <2>1. \A i \in 1..n : N[i - 1] \in Seq(Pieces) => N[i] = step[i][N[i - 1]]
    BY <1>4, <1>11
  <2> QED
    BY <1>1, <1>3, <1>10, <1>11, <2>1, LoopIs
<1>13. N \in [0..n -> Seq(Pieces)]
  BY <1>12 DEF Loop
<1> QED
  BY <1>8, <1>11, <1>13 DEF Then, n, b

\* What sanitizeResponse leaves is of the text, and has no line break.
LEMMA Sanitized ==
    ASSUME NEW s \in Seq(Pieces)
    PROVE  /\ sanitizeResponse(s) \in Seq(Pieces)
           /\ \A m \in 1..Len(sanitizeResponse(s)) :
                 /\ sanitizeResponse(s)[m] # "NL"
                 /\ \E j \in 1..Len(s) : sanitizeResponse(s)[m] = s[j]
<1>1. PICK g \in [0..Len(s) -> Seq(Pieces)] :
         /\ g[0] = <<>> /\ sanitizeResponse(s) = g[Len(s)]
         /\ \A i \in 1..Len(s) :
               g[i] = IF s[i] = "NL" THEN g[i - 1] ELSE Append(g[i - 1], s[i])
  BY SanitizeTurns
<1> DEFINE Clean(x) == \A m \in 1..Len(x) :
                          x[m] # "NL" /\ \E j \in 1..Len(s) : x[m] = s[j]
           I == {i \in Nat : i <= Len(s) => Clean(g[i])}
<1>2. 0 \in I
  BY <1>1
<1>3. ASSUME NEW k \in Nat, k \in I
      PROVE  k + 1 \in I
  <2> SUFFICES ASSUME k + 1 <= Len(s) PROVE Clean(g[k + 1])
    <3> HIDE DEF Clean
    <3> QED
      OBVIOUS
  <2>1. k + 1 \in 1..Len(s) /\ (k + 1) - 1 = k /\ k \in 0..Len(s) /\ Clean(g[k])
    <3> HIDE DEF Clean
    <3> QED
      BY <1>3
  <2>2. PICK x \in Seq(Pieces) : x = g[k]
    BY <2>1
  <2>3. PICK p \in Pieces : p = s[k + 1]
    BY <2>1
  <2>4. g[k + 1] = IF p = "NL" THEN x ELSE Append(x, p)
    BY <1>1, <2>1, <2>2, <2>3
  <2>5. CASE p = "NL"
    BY <2>1, <2>2, <2>4, <2>5
  <2>6. CASE p # "NL"
    <3>1. Clean(x)
      BY <2>1, <2>2
    <3>2. \A m \in 1..Len(Append(x, p)) :
             (m \in 1..Len(x) /\ Append(x, p)[m] = x[m]) \/ Append(x, p)[m] = p
      <4> SUFFICES ASSUME NEW m \in 1..Len(Append(x, p)), m \notin 1..Len(x)
                   PROVE  Append(x, p)[m] = p
        OBVIOUS
      <4>1. m = Len(x) + 1
        OBVIOUS
      <4> QED
        BY <4>1
    <3>3. p # "NL" /\ \E j \in 1..Len(s) : p = s[j]
      BY <2>1, <2>3, <2>6
    <3>4. PICK y \in Seq(Pieces) : y = Append(x, p)
      OBVIOUS
    <3>5. Clean(y)
      BY <3>1, <3>2, <3>3, <3>4
    <3> QED
      BY <2>4, <2>6, <3>4, <3>5
  <2> QED
    BY <2>5, <2>6
<1>4. \A k \in Nat : k \in I
  <2> HIDE DEF I
  <2> QED
    BY <1>2, <1>3, InductiveSet
<1>5. Clean(g[Len(s)]) /\ g[Len(s)] \in Seq(Pieces)
  <2> HIDE DEF Clean
  <2> QED
    BY <1>4
<1> QED
  BY <1>1, <1>5

\* What errors.As finds is one of the *Errors wrapped.
LEMMA FirstErrorIs ==
    ASSUME NEW err \in Seq(Leaf), has(err, "Error")
    PROVE  firstError(err) \in Perr
<1> DEFINE Is(i) == err[i].type = "Error" /\ \A j \in 1..(i - 1) : err[j].type # "Error"
           S == {i \in 1..Len(err) : err[i].type = "Error"}
<1>1. S # {} /\ S \in SUBSET Nat
  BY DEF has
<1>2. PICK i \in S : \A j \in S : i <= j
  BY <1>1, SmallestElement
<1>3. i \in 1..Len(err) /\ Is(i)
  BY <1>2
<1>4. PICK k \in 1..Len(err) : k = CHOOSE m \in 1..Len(err) : Is(m)
  <2> HIDE DEF Is
  <2> QED
    BY <1>3
<1>5. Is(k)
  <2> HIDE DEF Is
  <2> QED
    BY <1>3, <1>4
<1>6. firstError(err) = err[k]
  BY <1>4 DEF firstError
<1>7. err[k] \in Leaf /\ err[k].type = "Error"
  BY <1>5
<1> QED
  BY <1>6, <1>7 DEF Leaf

\* A response is one line of pieces of the text it is made from.
LEMMA ResponsePieces ==
    ASSUME NEW t \in Seq(Pieces), NEW close
    PROVE  \A m \in 1..Len(respond(t, close).wire) :
              /\ respond(t, close).wire[m] # "NL"
              /\ \E j \in 1..Len(t) : respond(t, close).wire[m] = t[j]
  BY Sanitized DEF respond

\* What an error, of a length up to the bound, is.
LEMMA ErrorsAre == \A err \in Errors : err \in Seq(Leaf)
<1> SUFFICES ASSUME NEW n \in 1..MaxWrapped, NEW err \in [1..n -> Leaf] PROVE err \in Seq(Leaf)
  BY DEF Errors
<1>1. n \in Nat
  BY ConversionsAssumption
<1> QED
  BY <1>1

\* Texts without the text of an ordinary error.
LEMMA NotInternal ==
    ASSUME NEW t \in Seq(Pieces \ {"internal"}), NEW close
    PROVE  \A m \in 1..Len(respond(t, close).wire) :
              respond(t, close).wire[m] # "NL" /\ respond(t, close).wire[m] # "internal"
<1>1. t \in Seq(Pieces) /\ \A j \in 1..Len(t) : t[j] # "internal"
  OBVIOUS
<1> QED
  BY <1>1, ResponsePieces

\* The response to an error of a Session method.
LEMMA SessionErrorIs ==
    ASSUME NEW err \in Seq(Leaf), NEW strict \in BOOLEAN,
           NEW w, w = sessionError(err, strict).wire, NEW m \in 1..Len(w)
    PROVE  /\ w[m] # "NL"
           /\ w[m] = "internal" =>
                 ~strict /\ ~has(err, "Error") /\ ~has(err, "ErrCloseConnection")
<1>1. <<"generic">> \in Seq(Pieces \ {"internal"})
  BY DEF Pieces
<1>2. CASE has(err, "Error")
  <2>1. PICK e \in Perr : e = firstError(err)
    BY <1>2, FirstErrorIs
  <2>2. sessionError(err, strict) = respond(wireMessage(e), e.close)
    BY <1>2, <2>1 DEF sessionError
  <2>3. wireMessage(e) \in Seq(Pieces \ {"internal"})
    BY WirePieces
  <2>4. PICK t \in Seq(Pieces \ {"internal"}) : t = wireMessage(e)
    BY <2>3, Zenon
  <2> QED
    BY <2>2, <2>4, NotInternal
<1>3. CASE ~has(err, "Error") /\ has(err, "ErrCloseConnection")
  <2>1. sessionError(err, strict) = respond(<<"generic">>, TRUE)
    BY <1>3 DEF sessionError
  <2> QED
    BY <1>1, <2>1, NotInternal
<1>4. CASE ~has(err, "Error") /\ ~has(err, "ErrCloseConnection") /\ strict
  <2>1. sessionError(err, strict) = respond(<<"generic">>, FALSE)
    BY <1>4 DEF sessionError
  <2> QED
    BY <1>1, <2>1, NotInternal
<1>5. CASE ~has(err, "Error") /\ ~has(err, "ErrCloseConnection") /\ ~strict
  <2>1. PICK g \in [0..Len(err) -> Seq(Pieces)] : errorText(err) = g[Len(err)]
    BY ErrorTextTurns
  <2>2. PICK t \in Seq(Pieces) : t = errorText(err)
    BY <2>1
  <2>3. sessionError(err, strict) = respond(t, FALSE)
    BY <1>5, <2>2 DEF sessionError
  <2> QED
    BY <1>5, <2>3, ResponsePieces
<1> QED
  BY <1>2, <1>3, <1>4, <1>5

\* The response to an error of NewSession.
LEMMA RejectIs ==
    ASSUME NEW err \in Seq(Leaf), NEW w, w = reject(err).wire, NEW m \in 1..Len(w)
    PROVE  w[m] # "NL" /\ w[m] # "internal"
<1>1. CASE has(err, "ErrSilentReject")
  BY <1>1 DEF reject
<1>2. CASE ~has(err, "ErrSilentReject") /\ has(err, "Error")
  <2>1. PICK e \in Perr : e = firstError(err)
    BY <1>2, FirstErrorIs
  <2>2. reject(err) = respond(wireMessage(e), TRUE)
    BY <1>2, <2>1 DEF reject
  <2>3. wireMessage(e) \in Seq(Pieces \ {"internal"})
    BY WirePieces
  <2>4. PICK t \in Seq(Pieces \ {"internal"}) : t = wireMessage(e)
    BY <2>3, Zenon
  <2> QED
    BY <2>2, <2>4, NotInternal
<1>3. CASE ~has(err, "ErrSilentReject") /\ ~has(err, "Error")
  <2>1. reject(err) = respond(<<"reject">>, TRUE)
    BY <1>3 DEF reject
  <2>2. <<"reject">> \in Seq(Pieces \ {"internal"})
    BY DEF Pieces
  <2> QED
    BY <2>1, <2>2, NotInternal
<1> QED
  BY <1>1, <1>2, <1>3

(* Whatever errors a Session or NewSession wraps in one another, the         *)
(* response is one line, and only an ordinary error of a Session method is   *)
(* shown to the client, with StrictSessionErrors off.                        *)
THEOREM InternalTextKept == CallSpec => []InternalTextStaysInside
<1>1. Returned => InternalTextStaysInside
  <2> SUFFICES ASSUME Returned PROVE InternalTextStaysInside
    OBVIOUS
  <2>1. PICK c \in Calls : c = call
    BY DEF Returned
  <2>2. CASE ~after("sessionError") /\ ~after("reject")
    BY <2>2 DEF InternalTextStaysInside
  <2>3. CASE after("sessionError")
    <3>1. c.fn = "sessionError" /\ c.err \in Errors /\ c.strict \in BOOLEAN
      BY <2>1, <2>3, CallArguments DEF after
    <3>2. PICK err \in Seq(Leaf), strict \in BOOLEAN : err = call.err /\ strict = call.strict
      BY <2>1, <3>1, ErrorsAre
    <3>3. result = sessionError(err, strict)
      BY <2>3, <3>2 DEF Returned, after
    <3>4. PICK w : w = sessionError(err, strict).wire
      OBVIOUS
    <3>5. \A m \in 1..Len(w) :
             /\ w[m] # "NL"
             /\ w[m] = "internal" =>
                   ~strict /\ ~has(err, "Error") /\ ~has(err, "ErrCloseConnection")
      BY <3>4, SessionErrorIs
    <3>6. ~after("reject")
      BY <2>3 DEF after
    <3>7. result.wire = w
      BY <3>3, <3>4
    <3>8. ~wrote("NL")
      BY <3>5, <3>7 DEF wrote
    <3>9. wrote("internal") =>
             ~call.strict /\ ~has(call.err, "Error") /\ ~has(call.err, "ErrCloseConnection")
      BY <3>2, <3>5, <3>7 DEF wrote
    <3> QED
      BY <3>6, <3>8, <3>9 DEF InternalTextStaysInside
  <2>4. CASE after("reject")
    <3>1. c.fn = "reject" /\ c.err \in Errors
      BY <2>1, <2>4, CallArguments DEF after
    <3>2. PICK err \in Seq(Leaf) : err = call.err
      BY <2>1, <3>1, ErrorsAre
    <3>3. result = reject(err)
      BY <2>4, <3>2 DEF Returned, after
    <3>4. PICK w : w = reject(err).wire
      OBVIOUS
    <3>5. \A m \in 1..Len(w) : w[m] # "NL" /\ w[m] # "internal"
      BY <3>4, RejectIs
    <3>6. ~after("sessionError")
      BY <2>4 DEF after
    <3>7. result.wire = w
      BY <3>3, <3>4
    <3>8. ~wrote("NL") /\ ~wrote("internal")
      BY <3>5, <3>7 DEF wrote
    <3> QED
      BY <3>6, <3>8 DEF InternalTextStaysInside
  <2> QED
    BY <2>2, <2>3, <2>4
<1> QED
  BY <1>1, CallReturns, PTL

------------------------------------------------------------------------------
(* Credentials.                                                              *)

\* A part of a sequence.
LEMMA Cut ==
    ASSUME NEW S, NEW s \in Seq(S), NEW a \in Nat \ {0}, NEW b \in Int, b <= Len(s)
    PROVE  /\ SubSeq(s, a, b) \in Seq(S)
           /\ Len(SubSeq(s, a, b)) = IF a <= b THEN b - a + 1 ELSE 0
           /\ \A i \in 1..Len(SubSeq(s, a, b)) : SubSeq(s, a, b)[i] = s[a + i - 1]
<1>1. \A i \in a..b : s[i] \in S
  OBVIOUS
<1>2. /\ SubSeq(s, a, b) \in Seq(S)
      /\ Len(SubSeq(s, a, b)) = IF a <= b THEN b - a + 1 ELSE 0
      /\ \A i \in 1..(b - a + 1) : SubSeq(s, a, b)[i] = s[a + i - 1]
  BY <1>1, SubSeqProperties
<1>3. \A i \in 1..Len(SubSeq(s, a, b)) : i \in 1..(b - a + 1)
  BY <1>2
<1> QED
  BY <1>2, <1>3

Splitting == [parts : Seq(Seq(Chars)), current : Seq(Chars)]

\* Every turn of splitNull leaves parts of the text.
LEMMA SplitTyped ==
    ASSUME NEW w \in Splitting, NEW c \in Chars
    PROVE  splitOn(w, c) \in Splitting
<1>1. w.parts \in Seq(Seq(Chars)) /\ w.current \in Seq(Chars)
  BY DEF Splitting
<1>2. Append(w.parts, w.current) \in Seq(Seq(Chars)) /\ Append(w.current, c) \in Seq(Chars)
  BY <1>1
<1>3. PICK p \in Seq(Seq(Chars)), q \in Seq(Chars) :
         p = Append(w.parts, w.current) /\ q = Append(w.current, c)
  BY <1>2, Zenon
<1>4. [parts |-> p, current |-> <<>>] \in Splitting
  BY DEF Splitting
<1>5. [w EXCEPT !.current = q] \in Splitting
  BY DEF Splitting
<1> QED
  BY <1>3, <1>4, <1>5 DEF splitOn

\* The turns of splitNull.
LEMMA SplitTurns ==
    ASSUME NEW s \in Seq(Chars)
    PROVE  \E g \in [0..Len(s) -> Splitting] :
             /\ g[0] = NoParts /\ splitNull(s) = Append(g[Len(s)].parts, g[Len(s)].current)
             /\ \A i \in 1..Len(s) : g[i] = splitOn(g[i - 1], s[i])
<1> DEFINE n == Len(s)
           b == NoParts
           Then(x, i) == splitOn(x, s[i])
           step == [i \in 1..n |-> [x \in Splitting |-> Then(x, i)]]
           Turn(f, i) == IF i = 0 THEN b ELSE Then(f[i - 1], i)
           Is(f) == f = [i \in 0..n |-> Turn(f, i)]
           N == CHOOSE f : Is(f)
<1>1. n \in Nat /\ b \in Splitting
  BY DEF NoParts, Splitting
<1>2. \A i \in 1..n : \A x \in Splitting : Then(x, i) \in Splitting
  <2> SUFFICES ASSUME NEW i \in 1..n, NEW x \in Splitting PROVE Then(x, i) \in Splitting
    OBVIOUS
  <2>1. s[i] \in Chars
    OBVIOUS
  <2> QED
    BY <2>1, SplitTyped
<1> HIDE DEF Then, b, n
<1>3. step \in Steps(n, Splitting)
  BY <1>2 DEF Steps
<1>4. \A i \in 1..n : \A x \in Splitting : step[i][x] = Then(x, i)
  OBVIOUS
<1> HIDE DEF step
<1>5. PICK g : Loop(g, n, Splitting, b, step)
  BY <1>1, <1>3, LoopFunction
<1>6. Is(g)
  <2>1. \A i \in 0..n : g[i] = Turn(g, i)
    <3> SUFFICES ASSUME NEW i \in 0..n PROVE g[i] = Turn(g, i)
      OBVIOUS
    <3>1. CASE i = 0
      BY <1>5, <3>1 DEF Loop
    <3>2. CASE i # 0
      <4>1. i \in 1..n /\ i - 1 \in 0..n
        BY <1>1, <3>2
      <4>2. g[i - 1] \in Splitting /\ g[i] = step[i][g[i - 1]]
        BY <1>5, <4>1 DEF Loop
      <4> QED
        BY <1>4, <3>2, <4>1, <4>2
    <3> QED
      BY <3>1, <3>2
  <2> HIDE DEF Turn
  <2>2. g = [i \in 0..n |-> g[i]]
    BY <1>5 DEF Loop
  <2> QED
    BY <2>1, <2>2
<1>7. Is(N)
  <2> HIDE DEF Is
  <2> QED
    BY <1>6
<1>8. splitNull(s) = Append(N[n].parts, N[n].current)
  BY DEF splitNull, Then, n, b
<1> HIDE DEF N
<1>9. \A i \in 0..n : N[i] = Turn(N, i)
  <2> HIDE DEF Turn
  <2> QED
    BY <1>7
<1>10. N = [i \in 0..n |-> N[i]]
  <2> HIDE DEF Turn
  <2> QED
    BY <1>7
<1> HIDE DEF Is
<1>11. N[0] = b /\ \A i \in 1..n : N[i] = Then(N[i - 1], i)
  <2>1. 0 \in 0..n /\ \A i \in 1..n : i \in 0..n /\ i # 0
    BY <1>1
  <2> QED
    BY <1>9, <2>1, Zenon
<1>12. Loop(N, n, Splitting, b, step)
  <2>1. \A i \in 1..n : N[i - 1] \in Splitting => N[i] = step[i][N[i - 1]]
    BY <1>4, <1>11
  <2> QED
    BY <1>1, <1>3, <1>10, <1>11, <2>1, LoopIs
<1>13. N \in [0..n -> Splitting]
  BY <1>12 DEF Loop
<1> QED
  BY <1>8, <1>11, <1>13 DEF Then, n, b

\* The turns of splitNull as a function of their own.
SplitsBy(g, s) ==
    /\ g \in [0..Len(s) -> Splitting] /\ g[0] = NoParts
    /\ \A i \in 1..Len(s) : g[i] = splitOn(g[i - 1], s[i])

\* One turn.
LEMMA SplitOne ==
    ASSUME NEW s \in Seq(Chars), NEW g, SplitsBy(g, s), NEW i \in 1..Len(s)
    PROVE  /\ g[i - 1] \in Splitting /\ g[i] \in Splitting
           /\ s[i] = "NUL" => /\ g[i].parts = Append(g[i - 1].parts, g[i - 1].current)
                              /\ g[i].current = <<>>
           /\ s[i] # "NUL" => /\ g[i].parts = g[i - 1].parts
                              /\ g[i].current = Append(g[i - 1].current, s[i])
<1>1. i - 1 \in 0..Len(s) /\ i \in 0..Len(s)
  OBVIOUS
<1>2. PICK w \in Splitting : w = g[i - 1]
  BY <1>1 DEF SplitsBy
<1>3. g[i] \in Splitting
  BY <1>1 DEF SplitsBy
<1>4. g[i] = splitOn(w, s[i])
  BY <1>2 DEF SplitsBy
<1>5. s[i] = "NUL" => g[i] = [parts |-> Append(w.parts, w.current), current |-> <<>>]
  BY <1>4 DEF splitOn
<1>6. s[i] # "NUL" => g[i] = [w EXCEPT !.current = Append(w.current, s[i])]
  BY <1>4 DEF splitOn
<1>7. s[i] # "NUL" => g[i].parts = w.parts /\ g[i].current = Append(w.current, s[i])
  BY <1>6 DEF Splitting
<1> QED
  BY <1>2, <1>3, <1>5, <1>7

\* From the beginning of a part on, the characters are collected up to a NUL.
LEMMA SplitRun ==
    ASSUME NEW s \in Seq(Chars), NEW g, SplitsBy(g, s), NEW j \in 0..Len(s),
           g[j].current = <<>>,
           NEW k \in j..Len(s), \A i \in (j + 1)..k : s[i] # "NUL"
    PROVE  g[k].parts = g[j].parts /\ g[k].current = SubSeq(s, j + 1, k)
<1> DEFINE At(i) == g[i].parts = g[j].parts /\ g[i].current = SubSeq(s, j + 1, i)
           I == {d \in Nat : j + d <= k => At(j + d)}
<1>1. 0 \in I
  <2>1. SubSeq(s, j + 1, j) = <<>> /\ j + 0 = j
    BY SubSeqEmpty
  <2>2. At(j + 0)
    BY <2>1
  <2> HIDE DEF At
  <2> QED
    BY <2>2
<1>2. ASSUME NEW d \in Nat, d \in I PROVE d + 1 \in I
  <2> SUFFICES ASSUME j + (d + 1) <= k PROVE At(j + (d + 1))
    <3> HIDE DEF At
    <3> QED
      OBVIOUS
  <2>1. PICK i \in 1..Len(s) : i = j + (d + 1) /\ i - 1 = j + d /\ i \in (j + 1)..k
    OBVIOUS
  <2>2. At(i - 1)
    <3> HIDE DEF At
    <3> QED
      BY <1>2, <2>1
  <2>3. g[i].parts = g[i - 1].parts /\ g[i].current = Append(g[i - 1].current, s[i])
    BY <2>1, SplitOne
  <2>4. SubSeq(s, j + 1, i) = SubSeq(s, j + 1, i - 1) \o <<s[i]>>
    BY <2>1, SubSeqRecursiveSecond
  <2>5. SubSeq(s, j + 1, i - 1) \in Seq(Chars) /\ s[i] \in Chars
    BY <2>1, Cut
  <2>6. Append(SubSeq(s, j + 1, i - 1), s[i]) = SubSeq(s, j + 1, i - 1) \o <<s[i]>>
    BY <2>5, AppendIsConcat
  <2>7. At(i)
    BY <2>2, <2>3, <2>4, <2>6
  <2> QED
    BY <2>1, <2>7
<1>3. \A d \in Nat : d \in I
  <2> HIDE DEF I
  <2> QED
    BY <1>1, <1>2, InductiveSet
<1>4. k - j \in Nat /\ j + (k - j) = k
  OBVIOUS
<1>5. At(j + (k - j))
  <2>1. PICK d \in Nat : d = k - j /\ j + d <= k
    BY <1>4
  <2>2. d \in I
    BY <1>3, Zenon
  <2>3. At(j + d)
    <3> HIDE DEF At
    <3> QED
      BY <2>1, <2>2
  <2> QED
    BY <2>1, <2>3
<1>6. At(k)
  BY <1>4, <1>5
<1> QED
  BY <1>6

\* No turn takes a part away.
LEMMA SplitGrows ==
    ASSUME NEW s \in Seq(Chars), NEW g, SplitsBy(g, s), NEW j \in 0..Len(s),
           NEW k \in j..Len(s)
    PROVE  Len(g[j].parts) \in Nat /\ Len(g[k].parts) \in Nat
           /\ Len(g[j].parts) <= Len(g[k].parts)
<1> DEFINE L == [i \in 0..Len(s) |-> Len(g[i].parts)]
           I == {d \in Nat : j + d <= k => L[j] <= L[j + d]}
<1>1. \A i \in 0..Len(s) : L[i] \in Nat
  <2> SUFFICES ASSUME NEW i \in 0..Len(s) PROVE Len(g[i].parts) \in Nat
    OBVIOUS
  <2>1. g[i].parts \in Seq(Seq(Chars))
    BY DEF SplitsBy, Splitting
  <2> QED
    BY <2>1
<1>2. 0 \in I
  BY <1>1
<1>3. ASSUME NEW d \in Nat, d \in I PROVE d + 1 \in I
  <2> SUFFICES ASSUME j + (d + 1) <= k PROVE L[j] <= L[j + (d + 1)]
    OBVIOUS
  <2>1. PICK i \in 1..Len(s) : i = j + (d + 1) /\ i - 1 = j + d /\ i \in 0..Len(s)
    OBVIOUS
  <2>2. L[j] <= L[i - 1]
    BY <1>3, <2>1
  <2>3. g[i - 1].parts \in Seq(Seq(Chars)) /\ g[i - 1].current \in Seq(Chars)
    BY <2>1, SplitOne DEF Splitting
  <2>4. PICK p \in Seq(Seq(Chars)), q \in Seq(Chars) : p = g[i - 1].parts /\ q = g[i - 1].current
    BY <2>3, Zenon
  <2>5. g[i].parts = p \/ g[i].parts = Append(p, q)
    BY <2>1, <2>4, SplitOne
  <2>6. Len(p) <= Len(g[i].parts)
    BY <2>5
  <2>7. L[i - 1] <= L[i]
    BY <2>1, <2>4, <2>6
  <2>8. L[j] \in Nat /\ L[i - 1] \in Nat /\ L[i] \in Nat
    BY <1>1, <2>1
  <2> HIDE DEF L
  <2> QED
    BY <2>1, <2>2, <2>7, <2>8
<1>4. \A d \in Nat : d \in I
  <2> HIDE DEF I
  <2> QED
    BY <1>2, <1>3, InductiveSet
<1>5. k - j \in Nat /\ j + (k - j) = k
  OBVIOUS
<1>6. L[j] <= L[k]
  <2> HIDE DEF L
  <2> QED
    BY <1>4, <1>5
<1> QED
  BY <1>1, <1>6

\* A NUL ends a part.
LEMMA SplitAtNUL ==
    ASSUME NEW s \in Seq(Chars), NEW g, SplitsBy(g, s), NEW i \in 1..Len(s), s[i] = "NUL"
    PROVE  Len(g[i].parts) = Len(g[i - 1].parts) + 1
<1>1. g[i - 1].parts \in Seq(Seq(Chars)) /\ g[i - 1].current \in Seq(Chars)
  BY SplitOne DEF Splitting
<1>2. g[i].parts = Append(g[i - 1].parts, g[i - 1].current)
  BY SplitOne
<1> QED
  BY <1>1, <1>2

\* With three NULs there are more than three parts.
LEMMA ThreeNULs ==
    ASSUME NEW s \in Seq(Chars), NEW i \in 1..Len(s), NEW j \in 1..Len(s), NEW k \in 1..Len(s),
           i < j, j < k, s[i] = "NUL", s[j] = "NUL", s[k] = "NUL"
    PROVE  Len(splitNull(s)) # 3
<1>1. PICK g : SplitsBy(g, s) /\ splitNull(s) = Append(g[Len(s)].parts, g[Len(s)].current)
  BY SplitTurns DEF SplitsBy
<1> DEFINE L(x) == Len(g[x].parts)
<1>2. L(i - 1) \in Nat /\ L(i) \in Nat /\ L(j - 1) \in Nat /\ L(j) \in Nat
      /\ L(k - 1) \in Nat /\ L(k) \in Nat /\ L(Len(s)) \in Nat
  <2>1. ASSUME NEW x \in 0..Len(s) PROVE L(x) \in Nat
    BY <1>1, SplitGrows
  <2> HIDE DEF L
  <2> QED
    BY <2>1
<1>3. L(i) = L(i - 1) + 1 /\ L(j) = L(j - 1) + 1 /\ L(k) = L(k - 1) + 1
  BY <1>1, SplitAtNUL
<1>4. ASSUME NEW x \in 0..Len(s), NEW y \in x..Len(s) PROVE L(x) <= L(y)
  BY <1>1, SplitGrows
<1>5. L(i) <= L(j - 1) /\ L(j) <= L(k - 1) /\ L(k) <= L(Len(s))
  <2> HIDE DEF L
  <2> QED
    BY <1>4
<1>6. Len(splitNull(s)) = L(Len(s)) + 1
  <2>1. g[Len(s)] \in Splitting
    <3>1. Len(s) \in 0..Len(s)
      OBVIOUS
    <3> QED
      BY <1>1, <3>1 DEF SplitsBy
  <2>2. PICK p \in Seq(Seq(Chars)), q \in Seq(Chars) :
           p = g[Len(s)].parts /\ q = g[Len(s)].current
    BY <2>1 DEF Splitting
  <2> QED
    BY <1>1, <2>2
<1> HIDE DEF L
<1>7. PICK a1 \in Nat, a2 \in Nat, b1 \in Nat, b2 \in Nat :
         a1 = L(i - 1) /\ a2 = L(i) /\ b1 = L(j - 1) /\ b2 = L(j)
  BY <1>2
<1>8. PICK c1 \in Nat, c2 \in Nat, z \in Nat : c1 = L(k - 1) /\ c2 = L(k) /\ z = L(Len(s))
  BY <1>2
<1>9. a2 = a1 + 1 /\ b2 = b1 + 1 /\ a2 <= b1
  BY <1>3, <1>5, <1>7
<1>10. c2 = c1 + 1 /\ b2 <= c1 /\ c2 <= z
  BY <1>3, <1>5, <1>7, <1>8
<1>11. z + 1 # 3
  BY <1>9, <1>10
<1> QED
  BY <1>6, <1>8, <1>11

\* The frame of AUTH PLAIN.
frame(a, b, c) == a \o <<"NUL">> \o b \o <<"NUL">> \o c

\* Two texts in a row.
LEMMA TextJoin ==
    ASSUME NEW u \in Seq(Chars), NEW v \in Seq(Chars)
    PROVE  \E w \in Seq(Chars) :
              /\ w = u \o v /\ Len(w) = Len(u) + Len(v)
              /\ \A i \in 1..Len(u) : w[i] = u[i]
              /\ \A i \in 1..Len(v) : w[Len(u) + i] = v[i]
<1>1. u \o v \in Seq(Chars)
  OBVIOUS
<1>2. Len(u \o v) = Len(u) + Len(v)
  OBVIOUS
<1>3. \A i \in 1..Len(u) : (u \o v)[i] = u[i]
  OBVIOUS
<1>4. \A i \in 1..Len(v) : (u \o v)[Len(u) + i] = v[i]
  OBVIOUS
<1> QED
  BY <1>1, <1>2, <1>3, <1>4

\* Which character is where in a frame: NULs at p and q.
Framed(s, a, b, c, p, q) ==
    /\ p = Len(a) + 1 /\ q = p + Len(b) + 1 /\ Len(s) = q + Len(c)
    /\ s[p] = "NUL" /\ s[q] = "NUL"
    /\ \A i \in 1..Len(a) : s[i] = a[i]
    /\ \A i \in 1..Len(b) : s[p + i] = b[i]
    /\ \A i \in 1..Len(c) : s[q + i] = c[i]

\* A frame has two NULs between the three.
LEMMA FrameIs ==
    ASSUME NEW a \in Seq(Chars), NEW b \in Seq(Chars), NEW c \in Seq(Chars)
    PROVE  \E s \in Seq(Chars), p \in Nat, q \in Nat :
              s = frame(a, b, c) /\ Framed(s, a, b, c, p, q)
<1>1. PICK n \in Seq(Chars) : n = <<"NUL">> /\ Len(n) = 1 /\ n[1] = "NUL"
  <2>1. <<"NUL">> \in Seq(Chars)
    BY DEF Chars
  <2> QED
    BY <2>1
<1>2. PICK v \in Seq(Chars) :
         /\ v = a \o n /\ Len(v) = Len(a) + Len(n)
         /\ \A i \in 1..Len(a) : v[i] = a[i]
         /\ \A i \in 1..Len(n) : v[Len(a) + i] = n[i]
  BY TextJoin, Zenon
<1>3. PICK p \in Nat : p = Len(a) + 1 /\ p = Len(v)
  BY <1>1, <1>2
<1>4. v[p] = "NUL"
  BY <1>1, <1>2, <1>3
<1>5. PICK w \in Seq(Chars) :
         /\ w = v \o b /\ Len(w) = Len(v) + Len(b)
         /\ \A i \in 1..Len(v) : w[i] = v[i]
         /\ \A i \in 1..Len(b) : w[Len(v) + i] = b[i]
  BY TextJoin, Zenon
<1>6. PICK x \in Seq(Chars) :
         /\ x = w \o n /\ Len(x) = Len(w) + Len(n)
         /\ \A i \in 1..Len(w) : x[i] = w[i]
         /\ \A i \in 1..Len(n) : x[Len(w) + i] = n[i]
  BY TextJoin, Zenon
<1>7. PICK q \in Nat : q = p + Len(b) + 1 /\ q = Len(x) /\ q = Len(w) + 1
  <2>1. PICK m \in Nat : m = Len(b)
    OBVIOUS
  <2>2. Len(w) = p + m /\ Len(x) = p + m + 1
    BY <1>1, <1>3, <1>5, <1>6, <2>1
  <2>3. p + m + 1 \in Nat
    OBVIOUS
  <2> QED
    BY <2>1, <2>2, <2>3
<1>8. x[q] = "NUL"
  BY <1>1, <1>6, <1>7
<1>9. PICK y \in Seq(Chars) :
         /\ y = x \o c /\ Len(y) = Len(x) + Len(c)
         /\ \A i \in 1..Len(x) : y[i] = x[i]
         /\ \A i \in 1..Len(c) : y[Len(x) + i] = c[i]
  BY TextJoin, Zenon
<1>10. y = frame(a, b, c)
  BY <1>1, <1>2, <1>5, <1>6, <1>9 DEF frame
<1>11. p \in 1..Len(v) /\ p \in 1..Len(w) /\ p \in 1..Len(x) /\ q \in 1..Len(x)
  BY <1>3, <1>5, <1>7
<1>12. y[p] = "NUL" /\ y[q] = "NUL"
  BY <1>4, <1>5, <1>6, <1>8, <1>9, <1>11
<1>13. ASSUME NEW i \in 1..Len(a) PROVE y[i] = a[i]
  <2>1. i \in 1..Len(v) /\ i \in 1..Len(w) /\ i \in 1..Len(x)
    BY <1>3, <1>5, <1>7
  <2> QED
    BY <1>2, <1>5, <1>6, <1>9, <2>1
<1>14. ASSUME NEW i \in 1..Len(b) PROVE y[p + i] = b[i]
  <2>1. p + i \in 1..Len(w) /\ p + i \in 1..Len(x)
    BY <1>3, <1>5, <1>7
  <2> QED
    BY <1>3, <1>5, <1>6, <1>9, <2>1
<1>15. ASSUME NEW i \in 1..Len(c) PROVE y[q + i] = c[i]
  BY <1>7, <1>9
<1>16. Len(y) = q + Len(c)
  BY <1>7, <1>9
<1>17. Framed(y, a, b, c, p, q)
  BY <1>3, <1>7, <1>12, <1>13, <1>14, <1>15, <1>16 DEF Framed
<1> QED
  BY <1>10, <1>17

\* A text with the length and the characters of a part is that part.
LEMMA PartIs ==
    ASSUME NEW s \in Seq(Chars), NEW t \in Seq(Chars), NEW k \in Nat, k + Len(t) <= Len(s),
           \A i \in 1..Len(t) : s[k + i] = t[i], NEW n \in Nat, n = k + Len(t)
    PROVE  SubSeq(s, k + 1, n) = t
<1>1. /\ SubSeq(s, k + 1, n) \in Seq(Chars)
      /\ Len(SubSeq(s, k + 1, n)) = IF k + 1 <= n THEN n - (k + 1) + 1 ELSE 0
      /\ \A i \in 1..Len(SubSeq(s, k + 1, n)) : SubSeq(s, k + 1, n)[i] = s[(k + 1) + i - 1]
  <2>1. k + 1 \in Nat \ {0} /\ n \in Int /\ n <= Len(s)
    OBVIOUS
  <2> QED
    BY <2>1, Cut
<1>2. PICK u \in Seq(Chars) : u = SubSeq(s, k + 1, n)
  BY <1>1, Zenon
<1>3. Len(u) = Len(t) /\ \A i \in 1..Len(u) : u[i] = s[k + i]
  <2>1. Len(u) = Len(t)
    BY <1>1, <1>2
  <2>2. \A i \in 1..Len(u) : u[i] = s[(k + 1) + i - 1] /\ (k + 1) + i - 1 = k + i
    BY <1>1, <1>2
  <2> QED
    BY <2>1, <2>2
<1>4. u = t
  BY <1>3, SeqEqual
<1> QED
  BY <1>2, <1>4

\* A part added to others.
LEMMA PartAdded ==
    ASSUME NEW P \in Seq(Seq(Chars)), NEW t \in Seq(Chars)
    PROVE  /\ Append(P, t) \in Seq(Seq(Chars)) /\ Len(Append(P, t)) = Len(P) + 1
           /\ Append(P, t)[Len(P) + 1] = t
           /\ \A i \in 1..Len(P) : Append(P, t)[i] = P[i]
<1> DEFINE T == Seq(Chars)
<1> P \in Seq(T) /\ t \in T
  OBVIOUS
<1> HIDE DEF T
<1>1. /\ Append(P, t) \in Seq(T) /\ Len(Append(P, t)) = Len(P) + 1
      /\ Append(P, t)[Len(P) + 1] = t
      /\ \A i \in 1..Len(P) : Append(P, t)[i] = P[i]
  OBVIOUS
<1> QED
  BY <1>1 DEF T

\* The first parts of what is split are these, of which there are n.
Parts(P, n, a, b, c) ==
    /\ P \in Seq(Seq(Chars)) /\ Len(P) = n
    /\ n >= 1 => P[1] = a
    /\ n >= 2 => P[2] = b
    /\ n >= 3 => P[3] = c

\* The next part is added.
LEMMA NextPart ==
    ASSUME NEW a \in Seq(Chars), NEW b \in Seq(Chars), NEW c \in Seq(Chars),
           NEW n \in 0..2, NEW P, Parts(P, n, a, b, c),
           NEW t \in Seq(Chars), t = IF n = 0 THEN a ELSE IF n = 1 THEN b ELSE c
    PROVE  Parts(Append(P, t), n + 1, a, b, c)
<1>1. P \in Seq(Seq(Chars)) /\ Len(P) = n
  BY DEF Parts
<1>2. PICK Q \in Seq(Seq(Chars)) :
         /\ Q = Append(P, t) /\ Len(Q) = Len(P) + 1 /\ Q[Len(P) + 1] = t
         /\ \A i \in 1..Len(P) : Q[i] = P[i]
  BY <1>1, PartAdded
<1>3. n = 0 => Q[1] = a
  BY <1>1, <1>2
<1>4. n = 1 => Q[1] = a /\ Q[2] = b
  BY <1>1, <1>2 DEF Parts
<1>5. n = 2 => Q[1] = a /\ Q[2] = b /\ Q[3] = c
  BY <1>1, <1>2 DEF Parts
<1>6. Parts(Q, n + 1, a, b, c)
  BY <1>1, <1>2, <1>3, <1>4, <1>5 DEF Parts
<1> QED
  BY <1>2, <1>6

\* Without a NUL in them, the three come out as they went in.
LEMMA FrameSplits ==
    ASSUME NEW a \in Seq(Chars), NEW b \in Seq(Chars), NEW c \in Seq(Chars),
           ~hasNUL(a), ~hasNUL(b), ~hasNUL(c)
    PROVE  Parts(splitNull(frame(a, b, c)), 3, a, b, c)
<1>1. PICK s \in Seq(Chars), p \in Nat, q \in Nat :
         s = frame(a, b, c) /\ Framed(s, a, b, c, p, q)
  BY FrameIs
<1>2. /\ p = Len(a) + 1 /\ q = p + Len(b) + 1 /\ Len(s) = q + Len(c)
      /\ Len(a) \in Nat /\ Len(b) \in Nat /\ Len(c) \in Nat
  BY <1>1 DEF Framed
<1>3. /\ s[p] = "NUL" /\ s[q] = "NUL"
      /\ \A i \in 1..Len(a) : s[i] = a[i]
      /\ \A i \in 1..Len(b) : s[p + i] = b[i]
      /\ \A i \in 1..Len(c) : s[q + i] = c[i]
  BY <1>1 DEF Framed
<1>4. PICK g : SplitsBy(g, s) /\ splitNull(s) = Append(g[Len(s)].parts, g[Len(s)].current)
  BY <1>3, SplitTurns DEF SplitsBy
<1>5. g[0].parts = <<>> /\ g[0].current = <<>>
  BY <1>4 DEF SplitsBy, NoParts
<1>6. Parts(g[p - 1].parts, 0, a, b, c) /\ g[p - 1].current = a
  <2>1. 0 \in 0..Len(s) /\ p - 1 \in 0..Len(s) /\ p - 1 = 0 + Len(a)
    BY <1>2, <1>3
  <2>2. \A i \in (0 + 1)..(p - 1) : s[i] # "NUL"
    BY <1>2, <1>3 DEF hasNUL
  <2>3. g[p - 1].parts = g[0].parts /\ g[p - 1].current = SubSeq(s, 0 + 1, p - 1)
    BY <1>3, <1>4, <1>5, <2>1, <2>2, SplitRun
  <2>4. \A i \in 1..Len(a) : s[0 + i] = a[i]
    BY <1>3
  <2>5. p - 1 \in Nat /\ 0 + Len(a) <= Len(s)
    BY <1>2, <1>3
  <2>6. SubSeq(s, 0 + 1, p - 1) = a
    BY <1>3, <2>1, <2>4, <2>5, PartIs
  <2> QED
    BY <1>5, <2>3, <2>6 DEF Parts
<1>7. Parts(g[p].parts, 1, a, b, c) /\ g[p].current = <<>>
  <2>1. p \in 1..Len(s)
    BY <1>2, <1>3
  <2>2. s[p] = "NUL" /\ SplitsBy(g, s)
    BY <1>3, <1>4
  <2>3. g[p].parts = Append(g[p - 1].parts, g[p - 1].current) /\ g[p].current = <<>>
    BY <2>1, <2>2, SplitOne
  <2>4. Parts(Append(g[p - 1].parts, a), 0 + 1, a, b, c)
    BY <1>6, NextPart
  <2> QED
    BY <1>6, <2>3, <2>4
<1>8. Parts(g[q - 1].parts, 1, a, b, c) /\ g[q - 1].current = b
  <2>1. p \in 0..Len(s) /\ q - 1 \in p..Len(s) /\ q - 1 = p + Len(b)
    BY <1>2, <1>3
  <2>2. \A i \in (p + 1)..(q - 1) : s[i] # "NUL"
    <3> SUFFICES ASSUME NEW i \in (p + 1)..(q - 1) PROVE s[i] # "NUL"
      OBVIOUS
    <3>1. i - p \in 1..Len(b) /\ p + (i - p) = i
      BY <2>1
    <3>2. s[p + (i - p)] = b[i - p]
      BY <1>3, <3>1
    <3> QED
      BY <3>1, <3>2 DEF hasNUL
  <2>3. g[q - 1].parts = g[p].parts /\ g[q - 1].current = SubSeq(s, p + 1, q - 1)
    BY <1>3, <1>4, <1>7, <2>1, <2>2, SplitRun
  <2>4. q - 1 \in Nat /\ p + Len(b) <= Len(s)
    BY <1>2, <1>3
  <2>5. SubSeq(s, p + 1, q - 1) = b
    BY <1>3, <2>1, <2>4, PartIs
  <2> QED
    BY <1>7, <2>3, <2>5
<1>9. Parts(g[q].parts, 2, a, b, c) /\ g[q].current = <<>>
  <2>1. q \in 1..Len(s)
    BY <1>2, <1>3
  <2>2. s[q] = "NUL" /\ SplitsBy(g, s)
    BY <1>3, <1>4
  <2>3. g[q].parts = Append(g[q - 1].parts, g[q - 1].current) /\ g[q].current = <<>>
    BY <2>1, <2>2, SplitOne
  <2>4. Parts(Append(g[q - 1].parts, b), 1 + 1, a, b, c)
    BY <1>8, NextPart
  <2> QED
    BY <1>8, <2>3, <2>4
<1>10. Parts(g[Len(s)].parts, 2, a, b, c) /\ g[Len(s)].current = c
  <2>1. q \in 0..Len(s) /\ Len(s) \in q..Len(s) /\ Len(s) = q + Len(c)
    BY <1>2, <1>3
  <2>2. \A i \in (q + 1)..Len(s) : s[i] # "NUL"
    <3> SUFFICES ASSUME NEW i \in (q + 1)..Len(s) PROVE s[i] # "NUL"
      OBVIOUS
    <3>1. i - q \in 1..Len(c) /\ q + (i - q) = i
      BY <2>1
    <3>2. s[q + (i - q)] = c[i - q]
      BY <1>3, <3>1
    <3> QED
      BY <3>1, <3>2 DEF hasNUL
  <2>3. g[Len(s)].parts = g[q].parts /\ g[Len(s)].current = SubSeq(s, q + 1, Len(s))
    BY <1>3, <1>4, <1>9, <2>1, <2>2, SplitRun
  <2>4. Len(s) \in Nat /\ q + Len(c) <= Len(s)
    BY <1>2, <1>3
  <2>5. SubSeq(s, q + 1, Len(s)) = c
    BY <1>3, <2>1, <2>4, PartIs
  <2> QED
    BY <1>9, <2>3, <2>5
<1>11. Parts(Append(g[Len(s)].parts, c), 2 + 1, a, b, c)
  BY <1>10, NextPart
<1> QED
  BY <1>1, <1>4, <1>10, <1>11

\* A NUL in any of the three makes another part.
LEMMA FrameBroken ==
    ASSUME NEW a \in Seq(Chars), NEW b \in Seq(Chars), NEW c \in Seq(Chars),
           hasNUL(a) \/ hasNUL(b) \/ hasNUL(c)
    PROVE  Len(splitNull(frame(a, b, c))) # 3
<1>1. PICK s \in Seq(Chars), p \in Nat, q \in Nat :
         s = frame(a, b, c) /\ Framed(s, a, b, c, p, q)
  BY FrameIs
<1>2. /\ p = Len(a) + 1 /\ q = p + Len(b) + 1 /\ Len(s) = q + Len(c)
      /\ Len(a) \in Nat /\ Len(b) \in Nat /\ Len(c) \in Nat
  BY <1>1 DEF Framed
<1>3. /\ s[p] = "NUL" /\ s[q] = "NUL"
      /\ \A i \in 1..Len(a) : s[i] = a[i]
      /\ \A i \in 1..Len(b) : s[p + i] = b[i]
      /\ \A i \in 1..Len(c) : s[q + i] = c[i]
  BY <1>1 DEF Framed
<1>4. p \in 1..Len(s) /\ q \in 1..Len(s) /\ p < q
  BY <1>2, <1>3
<1>5. CASE hasNUL(a)
  <2>1. PICK i \in 1..Len(a) : a[i] = "NUL"
    BY <1>5 DEF hasNUL
  <2>2. i \in 1..Len(s) /\ i < p /\ s[i] = "NUL"
    BY <1>2, <1>3, <2>1
  <2>3. Len(splitNull(s)) # 3
    BY <1>3, <1>4, <2>2, ThreeNULs
  <2> QED
    BY <1>1, <2>3
<1>6. CASE hasNUL(b)
  <2>1. PICK i \in 1..Len(b) : b[i] = "NUL"
    BY <1>6 DEF hasNUL
  <2>2. PICK k \in 1..Len(s) : k = p + i /\ p < k /\ k < q
    <3>1. p + i \in 1..Len(s) /\ p < p + i /\ p + i < q
      BY <1>2
    <3> QED
      BY <3>1
  <2>3. s[k] = "NUL"
    BY <1>3, <2>1, <2>2
  <2>4. Len(splitNull(s)) # 3
    BY <1>3, <1>4, <2>2, <2>3, ThreeNULs
  <2> QED
    BY <1>1, <2>4
<1>7. CASE hasNUL(c)
  <2>1. PICK i \in 1..Len(c) : c[i] = "NUL"
    BY <1>7 DEF hasNUL
  <2>2. PICK k \in 1..Len(s) : k = q + i /\ q < k
    <3>1. q + i \in 1..Len(s) /\ q < q + i
      BY <1>2
    <3> QED
      BY <3>1
  <2>3. s[k] = "NUL"
    BY <1>3, <2>1, <2>2
  <2>4. Len(splitNull(s)) # 3
    BY <1>3, <1>4, <2>2, <2>3, ThreeNULs
  <2> QED
    BY <1>1, <2>4
<1> QED
  BY <1>5, <1>6, <1>7

\* What TrimSpace leaves of a text that is not all white space.
LEMMA TrimIs ==
    ASSUME NEW x \in Seq(Chars), NEW k \in 1..Len(x), x[k] \notin Spaces
    PROVE  \E a \in 1..k, b \in k..Len(x) :
              /\ trimSpace(x) = SubSeq(x, a, b) /\ x[a] \notin Spaces /\ x[b] \notin Spaces
              /\ \A j \in 1..(a - 1) : x[j] \in Spaces
              /\ \A j \in (b + 1)..Len(x) : x[j] \in Spaces
<1> DEFINE S == solid(x)
           First(i) == \A j \in S : i <= j
           Last(i) == \A j \in S : i >= j
<1>1. S \in SUBSET (1..Len(x)) /\ k \in S
  BY DEF solid
<1> HIDE DEF S
<1>2. \E i \in S : First(i)
  <2>1. S \in SUBSET Nat
    BY <1>1
  <2> QED
    BY <1>1, <2>1, SmallestElement
<1>3. \E i \in S : Last(i)
  <2> DEFINE T == {n \in Nat : \A j \in S : j <= n}
  <2>1. Len(x) \in T /\ T \subseteq Nat
    BY <1>1
  <2>2. PICK n \in T : \A m \in T : n <= m
    BY <2>1, SmallestElement
  <2>3. n \in S
    <3> SUFFICES ASSUME n \notin S PROVE FALSE
      OBVIOUS
    <3>1. \A j \in S : j \in Nat /\ j >= 1 /\ j <= n /\ j # n
      BY <1>1, <2>2
    <3>2. n - 1 \in T
      BY <1>1, <3>1
    <3> QED
      BY <2>2, <3>2
  <2> QED
    BY <2>2, <2>3
<1>4. PICK a \in S : a = (CHOOSE i \in S : First(i)) /\ First(a)
  <2> HIDE DEF First
  <2> QED
    BY <1>2
<1>5. PICK b \in S : b = (CHOOSE i \in S : Last(i)) /\ Last(b)
  <2> HIDE DEF Last
  <2> QED
    BY <1>3
<1>6. trimSpace(x) = SubSeq(x, a, b)
  BY <1>1, <1>4, <1>5 DEF trimSpace, S
<1>7. a \in 1..k /\ b \in k..Len(x)
  <2>1. (\A j \in S : a <= j) /\ (\A j \in S : b >= j)
    BY <1>4, <1>5
  <2> QED
    BY <1>1, <2>1
<1>8. x[a] \notin Spaces /\ x[b] \notin Spaces
  BY <1>4, <1>5 DEF S, solid
<1>9. ASSUME NEW j \in 1..Len(x), j < a \/ j > b PROVE x[j] \in Spaces
  <2>1. (\A i \in S : a <= i) /\ (\A i \in S : b >= i)
    BY <1>4, <1>5
  <2>2. j \notin S
    BY <1>7, <1>9, <2>1
  <2> QED
    BY <2>2 DEF S, solid
<1>10. \A j \in 1..(a - 1) : x[j] \in Spaces
  BY <1>7, <1>9
<1>11. \A j \in (b + 1)..Len(x) : x[j] \in Spaces
  BY <1>7, <1>9
<1> QED
  BY <1>6, <1>7, <1>8, <1>10, <1>11

\* The text up to the first of some characters.
LEMMA UpToIs ==
    ASSUME NEW s \in Seq(Chars), NEW ends
    PROVE  \E n \in 0..Len(s) :
              /\ textUpTo(s, ends) = SubSeq(s, 1, n)
              /\ textUpTo(s, ends) \in Seq(Chars) /\ Len(textUpTo(s, ends)) = n
              /\ \A i \in 1..n : textUpTo(s, ends)[i] = s[i] /\ s[i] \notin ends
              /\ n < Len(s) => s[n + 1] \in ends
<1> DEFINE Is(k) == /\ \A i \in 1..k : s[i] \notin ends
                    /\ k < Len(s) => s[k + 1] \in ends
<1>1. \E k \in 0..Len(s) : Is(k)
  <2> DEFINE T == {m \in Nat : m < Len(s) => s[m + 1] \in ends}
  <2>1. Len(s) \in T /\ T \subseteq Nat
    OBVIOUS
  <2>2. PICK m \in T : \A j \in T : m <= j
    BY <2>1, SmallestElement
  <2>3. m \in 0..Len(s)
    BY <2>1, <2>2
  <2>4. ASSUME NEW i \in 1..m PROVE s[i] \notin ends
    <3>1. i - 1 \in Nat /\ ~(m <= i - 1) /\ (i - 1) + 1 = i
      OBVIOUS
    <3>2. i - 1 \notin T
      BY <2>2, <3>1
    <3> QED
      BY <3>1, <3>2
  <2> QED
    BY <2>2, <2>3, <2>4
<1>2. PICK n \in 0..Len(s) : n = (CHOOSE k \in 0..Len(s) : Is(k)) /\ Is(n)
  <2> HIDE DEF Is
  <2> QED
    BY <1>1
<1>3. PICK u : u = SubSeq(s, 1, n) /\ u = textUpTo(s, ends)
  BY <1>2 DEF textUpTo
<1>4. u \in Seq(Chars) /\ Len(u) = n /\ \A i \in 1..n : u[i] = s[i]
  <2>1. 1 \in Nat \ {0} /\ n \in Int /\ n <= Len(s)
    OBVIOUS
  <2>2. /\ SubSeq(s, 1, n) \in Seq(Chars)
        /\ Len(SubSeq(s, 1, n)) = IF 1 <= n THEN n - 1 + 1 ELSE 0
        /\ \A i \in 1..Len(SubSeq(s, 1, n)) : SubSeq(s, 1, n)[i] = s[1 + i - 1]
    BY <2>1, Cut
  <2>3. u \in Seq(Chars) /\ Len(u) = n
    BY <1>3, <2>2
  <2>4. \A i \in 1..n : u[i] = s[1 + i - 1] /\ 1 + i - 1 = i
    BY <1>3, <2>2, <2>3
  <2> QED
    BY <2>3, <2>4
<1> QED
  BY <1>2, <1>3, <1>4

\* A line that begins with a verb of one character and a blank.
LEMMA VerbIs ==
    ASSUME NEW l \in Seq(Chars), l # <<>>, l[1] \notin Blanks,
           Len(l) > 1 => l[2] \in Blanks
    PROVE  Len(textUpTo(l, Blanks)) = 1
<1>1. PICK n \in 0..Len(l) :
         /\ Len(textUpTo(l, Blanks)) = n
         /\ \A i \in 1..n : l[i] \notin Blanks
         /\ n < Len(l) => l[n + 1] \in Blanks
  BY UpToIs
<1>2. n # 0
  <2>1. Len(l) > 0
    OBVIOUS
  <2> QED
    BY <1>1, <2>1
<1>3. ~(n > 1)
  <2> SUFFICES ASSUME n > 1 PROVE FALSE
    OBVIOUS
  <2>1. 2 \in 1..n /\ Len(l) > 1
    OBVIOUS
  <2> QED
    BY <1>1, <2>1
<1> QED
  BY <1>1, <1>2, <1>3

\* The argument that the server finds in the line is the one that was sent, but
\* for the white space at its end.
LEMMA ArgumentIs ==
    ASSUME NEW arg \in Seq(Chars)
    PROVE  \E n \in 0..Len(arg) :
              /\ rawArg(commandLine(arg)) = SubSeq(arg, 1, n)
              /\ \A j \in (n + 1)..Len(arg) : arg[j] \in Spaces
<1>1. PICK v \in Seq(Chars) : v = <<"a", "SP">> /\ Len(v) = 2 /\ v[1] = "a" /\ v[2] = "SP"
  <2>1. <<"a", "SP">> \in Seq(Chars)
    BY DEF Chars
  <2> QED
    BY <2>1
<1>2. PICK x \in Seq(Chars) :
         /\ x = v \o arg /\ Len(x) = Len(v) + Len(arg)
         /\ \A i \in 1..Len(v) : x[i] = v[i]
         /\ \A i \in 1..Len(arg) : x[Len(v) + i] = arg[i]
  BY TextJoin, Zenon
<1>3. /\ Len(x) = Len(arg) + 2 /\ x[1] = "a" /\ x[2] = "SP"
      /\ \A i \in 1..Len(arg) : x[2 + i] = arg[i]
  BY <1>1, <1>2
<1>4. x # <<>> /\ x[1] \notin Spaces
  BY <1>3 DEF Spaces, Blanks
<1>5. PICK b \in 1..Len(x) :
         /\ trimSpace(x) = SubSeq(x, 1, b) /\ x[b] \notin Spaces
         /\ \A j \in (b + 1)..Len(x) : x[j] \in Spaces
  <2>1. 1 \in 1..Len(x)
    BY <1>3
  <2>2. PICK a \in 1..1, b \in 1..Len(x) :
           /\ trimSpace(x) = SubSeq(x, a, b) /\ x[b] \notin Spaces
           /\ \A j \in (b + 1)..Len(x) : x[j] \in Spaces
    BY <1>4, <2>1, TrimIs
  <2>3. a = 1
    OBVIOUS
  <2> QED
    BY <2>2, <2>3
<1>6. b # 2
  BY <1>3, <1>5 DEF Spaces, Blanks
<1>7. /\ SubSeq(x, 1, b) \in Seq(Chars)
      /\ Len(SubSeq(x, 1, b)) = IF 1 <= b THEN b - 1 + 1 ELSE 0
      /\ \A i \in 1..Len(SubSeq(x, 1, b)) : SubSeq(x, 1, b)[i] = x[1 + i - 1]
  <2>1. 1 \in Nat \ {0} /\ b \in Int /\ b <= Len(x)
    OBVIOUS
  <2> QED
    BY <2>1, Cut
<1>8. PICK l \in Seq(Chars) : l = commandLine(arg) /\ l = SubSeq(x, 1, b)
  BY <1>1, <1>2, <1>5, <1>7 DEF commandLine
<1>9. Len(l) = b /\ \A i \in 1..b : l[i] = x[i]
  <2>1. Len(l) = b
    BY <1>7, <1>8
  <2>2. \A i \in 1..b : l[i] = x[1 + i - 1] /\ 1 + i - 1 = i
    BY <1>7, <1>8, <2>1
  <2> QED
    BY <2>1, <2>2
<1>10. l # <<>> /\ l[1] \notin Blanks /\ (Len(l) > 1 => l[2] \in Blanks)
  BY <1>3, <1>9 DEF Blanks
<1>11. rawArg(l) = SubSeq(l, 3, b)
  <2>1. Len(textUpTo(l, Blanks)) = 1
    BY <1>10, VerbIs
  <2> QED
    BY <1>9, <2>1 DEF rawArg
<1>12. CASE b = 1
  <2>1. SubSeq(l, 3, 1) = <<>> /\ SubSeq(arg, 1, 0) = <<>>
    BY SubSeqEmpty
  <2>2. \A j \in (0 + 1)..Len(arg) : arg[j] \in Spaces
    <3> SUFFICES ASSUME NEW j \in 1..Len(arg) PROVE arg[j] \in Spaces
      OBVIOUS
    <3>1. 2 + j \in (b + 1)..Len(x)
      BY <1>3, <1>12
    <3> QED
      BY <1>3, <1>5, <3>1
  <2>3. 0 \in 0..Len(arg)
    OBVIOUS
  <2> QED
    BY <1>8, <1>11, <1>12, <2>1, <2>2, <2>3
<1>13. CASE b > 2
  <2>1. PICK n \in 0..Len(arg) : n = b - 2
    BY <1>3, <1>13
  <2>2. /\ SubSeq(l, 3, b) \in Seq(Chars)
        /\ Len(SubSeq(l, 3, b)) = IF 3 <= b THEN b - 3 + 1 ELSE 0
        /\ \A i \in 1..Len(SubSeq(l, 3, b)) : SubSeq(l, 3, b)[i] = l[3 + i - 1]
    <3>1. 3 \in Nat \ {0} /\ b \in Int /\ b <= Len(l)
      BY <1>9
    <3> QED
      BY <3>1, Cut
  <2>3. PICK u \in Seq(Chars) : u = SubSeq(l, 3, b)
    BY <2>2, Zenon
  <2>4. Len(u) = n
    BY <1>13, <2>1, <2>2, <2>3
  <2>5. \A i \in 1..n : u[i] = arg[0 + i]
    <3> SUFFICES ASSUME NEW i \in 1..n PROVE u[i] = arg[i]
      OBVIOUS
    <3>1. u[i] = l[3 + i - 1] /\ 3 + i - 1 = 2 + i
      BY <2>2, <2>3, <2>4
    <3>2. 2 + i \in 1..b /\ i \in 1..Len(arg)
      BY <2>1
    <3>3. l[2 + i] = x[2 + i] /\ x[2 + i] = arg[i]
      BY <1>3, <1>9, <3>2
    <3> QED
      BY <3>1, <3>3
  <2>6. SubSeq(arg, 0 + 1, n) = u
    <3>1. 0 + Len(u) <= Len(arg) /\ n = 0 + Len(u) /\ n \in Nat
      BY <2>1, <2>4
    <3>2. \A i \in 1..Len(u) : arg[0 + i] = u[i]
      BY <2>4, <2>5
    <3> QED
      BY <3>1, <3>2, PartIs
  <2>7. \A j \in (n + 1)..Len(arg) : arg[j] \in Spaces
    <3> SUFFICES ASSUME NEW j \in (n + 1)..Len(arg) PROVE arg[j] \in Spaces
      OBVIOUS
    <3>1. 2 + j \in (b + 1)..Len(x) /\ j \in 1..Len(arg)
      BY <1>3, <2>1
    <3> QED
      BY <1>3, <1>5, <3>1
  <2>8. rawArg(commandLine(arg)) = SubSeq(arg, 1, n)
    <3>1. 0 + 1 = 1
      OBVIOUS
    <3>2. SubSeq(arg, 1, n) = u
      BY <2>6, <3>1, Zenon
    <3> QED
      BY <1>8, <1>11, <2>3, <3>2, Zenon
  <2> QED
    BY <2>7, <2>8
<1>14. b = 1 \/ b > 2
  BY <1>6
<1> QED
  BY <1>12, <1>13, <1>14

\* The first field of a text, if there is one, is its first word.
LEMMA FirstFieldIs ==
    ASSUME NEW s \in Seq(Chars), firstField(s) # <<>>
    PROVE  \E k \in 0..Len(s) :
              /\ firstField(s) \in Seq(Chars) /\ k + Len(firstField(s)) <= Len(s)
              /\ wordAt(s, k, Len(firstField(s)))
              /\ \A i \in 1..Len(firstField(s)) : firstField(s)[i] = s[k + i]
<1>1. solid(s) # {}
  <2> SUFFICES ASSUME solid(s) = {} PROVE FALSE
    OBVIOUS
  <2>1. trimSpace(s) = <<>> /\ <<>> \in Seq(Chars)
    BY DEF trimSpace
  <2>2. Len(firstField(s)) = 0 /\ firstField(s) \in Seq(Chars)
    <3>1. PICK n \in 0..Len(<<>>) :
             textUpTo(<<>>, Spaces) \in Seq(Chars) /\ Len(textUpTo(<<>>, Spaces)) = n
      BY <2>1, UpToIs
    <3> QED
      BY <2>1, <3>1 DEF firstField
  <2> QED
    BY <2>2
<1>2. PICK m \in 1..Len(s) : s[m] \notin Spaces
  BY <1>1 DEF solid
<1>3. PICK a \in 1..m, b \in m..Len(s) :
         /\ trimSpace(s) = SubSeq(s, a, b) /\ s[a] \notin Spaces
         /\ \A j \in 1..(a - 1) : s[j] \in Spaces
         /\ \A j \in (b + 1)..Len(s) : s[j] \in Spaces
  BY <1>2, TrimIs
<1>4. PICK k \in 0..Len(s) : k = a - 1 /\ b - k \in Nat /\ b - k >= 1 /\ b <= Len(s)
  BY <1>3
<1>5. PICK y \in Seq(Chars) :
         /\ y = trimSpace(s) /\ Len(y) = b - k /\ \A i \in 1..(b - k) : y[i] = s[k + i]
  <2>1. a \in Nat \ {0} /\ b \in Int /\ b <= Len(s) /\ a <= b
    BY <1>3
  <2>2. /\ SubSeq(s, a, b) \in Seq(Chars)
        /\ Len(SubSeq(s, a, b)) = IF a <= b THEN b - a + 1 ELSE 0
        /\ \A i \in 1..Len(SubSeq(s, a, b)) : SubSeq(s, a, b)[i] = s[a + i - 1]
    BY <2>1, Cut
  <2>3. PICK y \in Seq(Chars) : y = SubSeq(s, a, b)
    BY <2>2, Zenon
  <2>4. Len(y) = b - k
    BY <1>4, <2>1, <2>2, <2>3
  <2>5. \A i \in 1..(b - k) : y[i] = s[a + i - 1] /\ a + i - 1 = k + i
    BY <1>4, <2>2, <2>3, <2>4
  <2> QED
    BY <1>3, <2>3, <2>4, <2>5
<1>6. PICK n \in 0..Len(y), f \in Seq(Chars) :
         /\ f = textUpTo(y, Spaces) /\ Len(f) = n
         /\ \A i \in 1..n : f[i] = y[i] /\ y[i] \notin Spaces
         /\ n < Len(y) => y[n + 1] \in Spaces
  BY UpToIs
<1>7. f = firstField(s)
  BY <1>5, <1>6 DEF firstField
<1>8. n > 0
  <2>1. f # <<>>
    BY <1>7
  <2> QED
    BY <1>6, <2>1
<1>9. k + n <= Len(s)
  BY <1>4, <1>5, <1>6
<1>10. ASSUME NEW i \in 1..n PROVE f[i] = s[k + i] /\ s[k + i] \notin Spaces
  <2>1. i \in 1..(b - k)
    BY <1>5, <1>6
  <2> QED
    BY <1>5, <1>6, <2>1
<1>11. k + n < Len(s) => s[k + n + 1] \in Spaces
  <2>1. CASE n < b - k
    <3>1. n + 1 \in 1..(b - k) /\ k + (n + 1) = k + n + 1
      BY <1>4, <2>1
    <3>2. y[n + 1] = s[k + n + 1]
      BY <1>5, <3>1
    <3> QED
      BY <1>5, <1>6, <2>1, <3>2
  <2>2. CASE n = b - k
    <3>1. k + n = b
      BY <1>4, <2>2
    <3> QED
      BY <1>3, <3>1
  <2>3. n < b - k \/ n = b - k
    BY <1>5, <1>6
  <2> QED
    BY <2>1, <2>2, <2>3
<1>12. wordAt(s, k, n)
  BY <1>3, <1>4, <1>8, <1>10, <1>11 DEF wordAt
<1> QED
  BY <1>6, <1>7, <1>9, <1>10, <1>12

\* The name that the server finds in the line of USER is the first word of the one
\* that was given.
LEMMA NameIs ==
    ASSUME NEW u \in Seq(Chars), firstField(rawArg(commandLine(u))) # <<>>
    PROVE  \E k \in 0..Len(u) :
              LET name == firstField(rawArg(commandLine(u)))
              IN  /\ k + Len(name) <= Len(u) /\ wordAt(u, k, Len(name))
                  /\ name = SubSeq(u, k + 1, k + Len(name))
<1>1. PICK n \in 0..Len(u) :
         /\ rawArg(commandLine(u)) = SubSeq(u, 1, n)
         /\ \A j \in (n + 1)..Len(u) : u[j] \in Spaces
  BY ArgumentIs
<1>2. PICK s \in Seq(Chars) :
         s = SubSeq(u, 1, n) /\ Len(s) = n /\ \A i \in 1..n : s[i] = u[i]
  <2>1. 1 \in Nat \ {0} /\ n \in Int /\ n <= Len(u)
    OBVIOUS
  <2>2. /\ SubSeq(u, 1, n) \in Seq(Chars)
        /\ Len(SubSeq(u, 1, n)) = IF 1 <= n THEN n - 1 + 1 ELSE 0
        /\ \A i \in 1..Len(SubSeq(u, 1, n)) : SubSeq(u, 1, n)[i] = u[1 + i - 1]
    BY <2>1, Cut
  <2>3. PICK s \in Seq(Chars) : s = SubSeq(u, 1, n)
    BY <2>2, Zenon
  <2>4. Len(s) = n
    BY <2>2, <2>3
  <2>5. \A i \in 1..n : s[i] = u[1 + i - 1] /\ 1 + i - 1 = i
    BY <2>2, <2>3, <2>4
  <2> QED
    BY <2>3, <2>4, <2>5
<1>3. firstField(s) # <<>>
  BY <1>1, <1>2
<1>4. PICK k \in 0..n, f \in Seq(Chars) :
         /\ f = firstField(s) /\ k + Len(f) <= n /\ wordAt(s, k, Len(f))
         /\ \A i \in 1..Len(f) : f[i] = s[k + i]
  <2>1. PICK k \in 0..Len(s) :
           /\ firstField(s) \in Seq(Chars) /\ k + Len(firstField(s)) <= Len(s)
           /\ wordAt(s, k, Len(firstField(s)))
           /\ \A i \in 1..Len(firstField(s)) : firstField(s)[i] = s[k + i]
    BY <1>3, FirstFieldIs
  <2> QED
    BY <1>2, <2>1
<1>5. PICK m \in Nat : m = Len(f)
  OBVIOUS
<1>6. wordAt(u, k, m)
  <2>1. /\ m > 0 /\ \A i \in 1..k : s[i] \in Spaces
        /\ \A i \in 1..m : s[k + i] \notin Spaces
        /\ k + m < n => s[k + m + 1] \in Spaces
    BY <1>2, <1>4, <1>5 DEF wordAt
  <2>2. \A i \in 1..k : u[i] \in Spaces
    BY <1>2, <2>1
  <2>3. \A i \in 1..m : k + i \in 1..n
    BY <1>4, <1>5
  <2>4. \A i \in 1..m : u[k + i] \notin Spaces
    BY <1>2, <2>1, <2>3
  <2>5. k + m < Len(u) => u[k + m + 1] \in Spaces
    <3>1. CASE k + m < n
      <4>1. k + m + 1 \in 1..n
        BY <3>1
      <4> QED
        BY <1>2, <2>1, <3>1, <4>1
    <3>2. CASE k + m = n
      BY <1>1, <3>2
    <3>3. k + m <= n
      BY <1>4, <1>5
    <3>4. k + m < n \/ k + m = n
      BY <3>3
    <3> QED
      BY <3>1, <3>2, <3>4
  <2> QED
    BY <2>1, <2>2, <2>4, <2>5 DEF wordAt
<1>7. f = SubSeq(u, k + 1, k + m)
  <2>1. k \in Nat /\ k + Len(f) <= Len(u) /\ k + m \in Nat /\ k + m = k + Len(f)
    BY <1>4, <1>5
  <2>2. \A i \in 1..Len(f) : k + i \in 1..n
    BY <1>4
  <2>3. \A i \in 1..Len(f) : u[k + i] = f[i]
    BY <1>2, <1>4, <2>2
  <2> QED
    BY <2>1, <2>3, PartIs
<1>8. k \in 0..Len(u) /\ k + m <= Len(u)
  BY <1>4, <1>5
<1>9. f = firstField(rawArg(commandLine(u)))
  BY <1>1, <1>2, <1>4
<1> QED
  BY <1>5, <1>6, <1>7, <1>8, <1>9

(* What the Session gets of credentials of any length that a caller of       *)
(* pop3client gives: by AUTH PLAIN all three unchanged, or they are refused; *)
(* by USER the first word of the name, whatever is around or behind it; by   *)
(* PASS the password but for the white space at its end; and no name with a  *)
(* control character.                                                        *)
THEOREM CredentialsKept == CallSpec => []CredentialsArrive
<1>1. Returned => CredentialsArrive
  <2> SUFFICES ASSUME Returned PROVE CredentialsArrive
    OBVIOUS
  <2>1. PICK k \in Calls : k = call
    BY DEF Returned
  <2>2. ASSUME after("AuthPlain")
        PROVE  PlainExact /\ NamesHaveNoCTL
    <3>1. /\ k.fn = "AuthPlain" /\ k.identity \in Identities /\ k.username \in Usernames
          /\ k.password \in Passwords
      BY <2>1, <2>2, CallArguments DEF after
    <3>2. PICK a \in Seq(Chars), b \in Seq(Chars), c \in Seq(Chars) :
             a = call.identity /\ b = call.username /\ c = call.password
      BY <2>1, <3>1, ConversionsAssumption
    <3>3. result = AuthPlain(a, b, c)
      BY <2>2, <3>2 DEF Returned, after
    <3>4. PICK parts : parts = splitNull(frame(a, b, c))
      OBVIOUS
    <3>5. result = IF Len(parts) # 3 THEN refused
                   ELSE IF containsCTL(parts[1]) \/ containsCTL(parts[2]) THEN refused
                   ELSE [ok |-> TRUE, identity |-> parts[1], username |-> parts[2],
                         password |-> parts[3]]
      BY <3>3, <3>4 DEF AuthPlain, frame
    <3>6. ~after("User")
      BY <2>2 DEF after
    <3>7. CASE hasNUL(a) \/ hasNUL(b) \/ hasNUL(c)
      <4>1. Len(parts) # 3
        BY <3>4, <3>7, FrameBroken
      <4>2. ~result.ok
        BY <3>5, <4>1 DEF refused
      <4>3. hasNUL(a) => containsCTL(a)
        BY DEF hasNUL, containsCTL, CTLs
      <4>4. hasNUL(b) => containsCTL(b)
        BY DEF hasNUL, containsCTL, CTLs
      <4> QED
        BY <3>2, <3>6, <3>7, <4>2, <4>3, <4>4 DEF PlainExact, NamesHaveNoCTL
    <3>8. CASE ~hasNUL(a) /\ ~hasNUL(b) /\ ~hasNUL(c)
      <4>1. Len(parts) = 3 /\ parts[1] = a /\ parts[2] = b /\ parts[3] = c
        BY <3>4, <3>8, FrameSplits DEF Parts
      <4>2. result = IF containsCTL(a) \/ containsCTL(b) THEN refused
                     ELSE [ok |-> TRUE, identity |-> a, username |-> b, password |-> c]
        BY <3>5, <4>1
      <4>3. ~result.ok => containsCTL(a) \/ containsCTL(b)
        BY <4>2
      <4>4. result.ok => /\ result.identity = a /\ result.username = b /\ result.password = c
                         /\ ~containsCTL(a) /\ ~containsCTL(b)
        BY <4>2 DEF refused
      <4>5. PlainExact
        BY <3>2, <4>3, <4>4 DEF PlainExact
      <4>6. NamesHaveNoCTL
        BY <4>4 DEF NamesHaveNoCTL, containsCTL
      <4> QED
        BY <4>5, <4>6
    <3> QED
      BY <3>7, <3>8
  <2>3. ASSUME after("User")
        PROVE  UserIsFirstWord /\ PassKeepsWhitespace /\ NamesHaveNoCTL
    <3>1. k.fn = "User" /\ k.username \in Usernames /\ k.password \in Passwords
      BY <2>1, <2>3, CallArguments DEF after
    <3>2. PICK b \in Seq(Chars), c \in Seq(Chars) : b = call.username /\ c = call.password
      BY <2>1, <3>1, ConversionsAssumption
    <3>3. result = User(b, c)
      BY <2>3, <3>2 DEF Returned, after
    <3>4. PICK name : name = firstField(rawArg(commandLine(b)))
      OBVIOUS
    <3>5. PICK n \in 0..Len(c) :
             /\ rawArg(commandLine(c)) = SubSeq(c, 1, n)
             /\ \A j \in (n + 1)..Len(c) : c[j] \in Spaces
      BY ArgumentIs
    <3>6. PICK pass : pass = SubSeq(c, 1, n)
      OBVIOUS
    <3>7. result = IF name = <<>> \/ containsCTL(name) \/ pass = <<>> THEN refused
                   ELSE [ok |-> TRUE, identity |-> <<>>, username |-> name,
                         password |-> pass]
      BY <3>3, <3>4, <3>5, <3>6 DEF User
    <3>8. result.ok => /\ result.identity = <<>> /\ result.username = name
                       /\ result.password = pass /\ ~containsCTL(name) /\ name # <<>>
      BY <3>7 DEF refused
    <3>9. Len(pass) = n
      <4>1. 1 \in Nat \ {0} /\ n \in Int /\ n <= Len(c)
        OBVIOUS
      <4>2. Len(SubSeq(c, 1, n)) = IF 1 <= n THEN n - 1 + 1 ELSE 0
        BY <4>1, Cut
      <4> QED
        BY <3>6, <4>2
    <3>10. PassKeepsWhitespace
      <4> SUFFICES ASSUME result.ok
                   PROVE  /\ Len(pass) <= Len(c) /\ pass = SubSeq(c, 1, Len(pass))
                          /\ \A i \in (Len(pass) + 1)..Len(c) : c[i] \in Spaces
        BY <3>2, <3>8 DEF PassKeepsWhitespace
      <4> QED
        BY <3>5, <3>6, <3>9
    <3>11. NamesHaveNoCTL
      BY <3>8 DEF NamesHaveNoCTL, containsCTL
    <3>12. UserIsFirstWord
      <4> SUFFICES ASSUME result.ok
                   PROVE  \E i \in 0..Len(b) :
                             /\ i + Len(name) <= Len(b) /\ wordAt(b, i, Len(name))
                             /\ name = SubSeq(b, i + 1, i + Len(name))
        BY <3>2, <3>8 DEF UserIsFirstWord
      <4> QED
        BY <3>4, <3>8, NameIs
    <3> QED
      BY <3>10, <3>11, <3>12
  <2>4. ~after("AuthPlain") => PlainExact
    BY DEF PlainExact
  <2>5. ~after("User") => UserIsFirstWord /\ PassKeepsWhitespace
    BY DEF UserIsFirstWord, PassKeepsWhitespace
  <2>6. ~after("User") /\ ~after("AuthPlain") => NamesHaveNoCTL
    BY DEF NamesHaveNoCTL
  <2> QED
    BY <2>2, <2>3, <2>4, <2>5, <2>6 DEF CredentialsArrive
<1> QED
  BY <1>1, CallReturns, PTL

------------------------------------------------------------------------------
(* Reading lines.                                                            *)

Octets == {"x", "CR", "LF"}
Text   == {"x", "CR"}

\* Octets without an LF are text.
LEMMA NoLF ==
    ASSUME NEW u \in Seq(Octets), \A i \in 1..Len(u) : u[i] # "LF"
    PROVE  u \in Seq(Text)
<1>1. \A i \in 1..Len(u) : u[i] \in Text
  BY DEF Octets, Text
<1> QED
  BY <1>1

\* All but the last octet.
LEMMA LastDropped ==
    ASSUME NEW S, NEW u \in Seq(S), u # <<>>
    PROVE  /\ dropLast(u) \in Seq(S) /\ Len(dropLast(u)) = Len(u) - 1
           /\ \A i \in 1..(Len(u) - 1) : dropLast(u)[i] = u[i]
<1>1. 1 \in Nat \ {0} /\ Len(u) - 1 \in Int /\ Len(u) - 1 <= Len(u) /\ Len(u) > 0
  OBVIOUS
<1>2. PICK n \in Nat : n = Len(u) - 1
  BY <1>1
<1>3. PICK d : d = SubSeq(u, 1, n)
  OBVIOUS
<1>4. /\ d \in Seq(S) /\ Len(d) = IF 1 <= n THEN n - 1 + 1 ELSE 0
      /\ \A i \in 1..Len(d) : d[i] = u[1 + i - 1]
  BY <1>1, <1>2, <1>3, Cut
<1>5. Len(d) = n
  BY <1>4
<1>6. \A i \in 1..n : d[i] = u[1 + i - 1] /\ 1 + i - 1 = i
  BY <1>4, <1>5
<1>7. d = dropLast(u)
  BY <1>2, <1>3 DEF dropLast
<1> QED
  BY <1>2, <1>4, <1>5, <1>6, <1>7

\* A line without a CR at its end.
dropCR(u) == IF endsIn(u, "CR") THEN dropLast(u) ELSE u

\* What is left of the line, one octet at most is gone.
LEMMA DroppedCR ==
    ASSUME NEW S, NEW u \in Seq(S)
    PROVE  /\ dropCR(u) \in Seq(S) /\ Len(dropCR(u)) <= Len(u) /\ Len(dropCR(u)) >= Len(u) - 1
           /\ \A i \in 1..Len(dropCR(u)) : dropCR(u)[i] = u[i]
<1>1. CASE endsIn(u, "CR")
  <2>1. u # <<>>
    BY <1>1 DEF endsIn
  <2>2. PICK d \in Seq(S) : /\ d = dropLast(u) /\ Len(d) = Len(u) - 1
                            /\ \A i \in 1..(Len(u) - 1) : d[i] = u[i]
    BY <2>1, LastDropped
  <2>3. dropCR(u) = d
    BY <1>1, <2>2 DEF dropCR
  <2> QED
    BY <2>2, <2>3
<1>2. CASE ~endsIn(u, "CR")
  BY <1>2 DEF dropCR
<1> QED
  BY <1>1, <1>2

\* The first LF.
LEMMA FirstLF ==
    ASSUME NEW r \in Seq(Octets), \E i \in 1..Len(r) : r[i] = "LF", NEW e,
           e = CHOOSE i \in 1..Len(r) : r[i] = "LF" /\ (\A j \in 1..(i - 1) : r[j] # "LF")
    PROVE  e \in 1..Len(r) /\ r[e] = "LF" /\ \A j \in 1..(e - 1) : r[j] # "LF"
<1> DEFINE Is(i) == r[i] = "LF" /\ (\A j \in 1..(i - 1) : r[j] # "LF")
           S == {i \in 1..Len(r) : r[i] = "LF"}
<1>1. S # {} /\ S \in SUBSET Nat
  OBVIOUS
<1>2. PICK i \in S : \A j \in S : i <= j
  BY <1>1, SmallestElement
<1>3. i \in 1..Len(r) /\ Is(i)
  BY <1>2
<1>4. e = CHOOSE k \in 1..Len(r) : Is(k)
  OBVIOUS
<1>5. e \in 1..Len(r) /\ Is(e)
  <2> HIDE DEF Is
  <2> QED
    BY <1>3, <1>4
<1> QED
  BY <1>5

\* What is before the first LF of a buffer is text, and without a CR at its end too.
LEMMA PieceTyped ==
    ASSUME NEW r \in Seq(Octets), NEW e \in 1..Len(r), \A j \in 1..(e - 1) : r[j] # "LF"
    PROVE  dropCR(SubSeq(r, 1, e - 1)) \in Seq(Text)
<1>1. PICK u : u = SubSeq(r, 1, e - 1)
  OBVIOUS
<1>2. 1 \in Nat \ {0} /\ e - 1 \in Int /\ e - 1 <= Len(r)
  OBVIOUS
<1>3. /\ u \in Seq(Octets) /\ Len(u) = IF 1 <= e - 1 THEN (e - 1) - 1 + 1 ELSE 0
      /\ \A i \in 1..Len(u) : u[i] = r[1 + i - 1]
  BY <1>1, <1>2, Cut
<1>4. \A i \in 1..Len(u) : u[i] = r[i] /\ i \in 1..(e - 1)
  BY <1>3
<1>5. u \in Seq(Text)
  BY <1>3, <1>4, NoLF
<1> QED
  BY <1>1, <1>5, DroppedCR

\* The pieces of a line in a row.
LEMMA TextsJoin == \A u, v \in Seq(Text) : u \o v \in Seq(Text) /\ Len(u \o v) = Len(u) + Len(v)
  OBVIOUS

\* The last piece of a line keeps the types.
LEMMA EndLineTyped ==
    ASSUME LineReaderTypeOK, status = "reading", NEW chunk \in Seq(Text), EndLine(chunk)
    PROVE  /\ line' \in Seq({"x", "CR"}) /\ Len(line') <= MaxLineLength
           /\ lines' \in Seq(Seq({"x", "CR"})) /\ status' \in {"reading", "tooLong", "failed"}
<1>1. line \in Seq(Text) /\ lines \in Seq(Seq(Text)) /\ Len(line) <= MaxLineLength
  BY DEF LineReaderTypeOK, Text
<1>2. PICK j \in Seq(Text) : j = join(chunk)
  BY <1>1, TextsJoin DEF join
<1>3. CASE tooLong(j)
  <2>1. status' = "tooLong" /\ line' = line /\ lines' = lines
    BY <1>2, <1>3 DEF EndLine
  <2> QED
    BY <1>1, <2>1 DEF Text
<1>4. CASE ~tooLong(j)
  <2>1. lines' = Append(lines, j) /\ line' = <<>> /\ status' = status
    BY <1>2, <1>4 DEF EndLine
  <2>2. Append(lines, j) \in Seq(Seq(Text))
    BY <1>1
  <2>3. <<>> \in Seq({"x", "CR"}) /\ Len(<<>>) <= MaxLineLength
    BY LineReaderAssumption
  <2> QED
    BY <2>1, <2>2, <2>3 DEF Text
<1> QED
  BY <1>3, <1>4

(* Every variable keeps its type, and a client that sends without a line end *)
(* makes the server keep no more than MaxLineLength octets and one buffer.   *)
THEOREM ReaderTyped == Spec => []LineReaderTypeOK
<1>1. Init => LineReaderTypeOK
  <2> SUFFICES ASSUME Init PROVE LineReaderTypeOK
    OBVIOUS
  <2>1. input \in Seq({"x", "CR", "LF"}) /\ 0 \in 0..Len(input)
    BY LineReaderAssumption DEF Init
  <2>2. <<>> \in Seq({"x", "CR", "LF"}) /\ <<>> \in Seq({"x", "CR"}) /\ <<>> \in Seq(Seq({"x", "CR"}))
    OBVIOUS
  <2>3. Len(<<>>) <= BufSize /\ Len(<<>>) <= MaxLineLength
    BY LineReaderAssumption
  <2> QED
    BY <2>1, <2>2, <2>3 DEF Init, LineReaderTypeOK
<1>2. LineReaderTypeOK /\ [Next]_lvars => LineReaderTypeOK'
  <2> SUFFICES ASSUME LineReaderTypeOK, [Next]_lvars PROVE LineReaderTypeOK'
    OBVIOUS
  <2>0. /\ input \in Seq(Octets) /\ pos \in 0..Len(input)
        /\ rbuf \in Seq(Octets) /\ Len(rbuf) <= BufSize /\ line \in Seq(Text)
        /\ BufSize \in Nat /\ BufSize >= 2 /\ MaxLineLength \in Nat
    BY LineReaderAssumption DEF LineReaderTypeOK, Octets, Text
  <2>1. CASE Fill
    <3>1. PICK n \in 1..(BufSize - Len(rbuf)) :
             /\ pos + n <= Len(input)
             /\ rbuf' = rbuf \o SubSeq(input, pos + 1, pos + n)
             /\ pos' = pos + n
      BY <2>1 DEF Fill
    <3>2. PICK s \in Seq(Octets), k \in Nat : s = input /\ k = pos
      BY <2>0
    <3>3. SubSeq(s, k + 1, k + n) \in Seq(Octets) /\ Len(SubSeq(s, k + 1, k + n)) = n
      <4>1. k + 1 \in Nat \ {0} /\ k + n \in Int /\ k + n <= Len(s) /\ k + 1 <= k + n
        BY <2>0, <3>1, <3>2
      <4>2. /\ SubSeq(s, k + 1, k + n) \in Seq(Octets)
            /\ Len(SubSeq(s, k + 1, k + n)) = (k + n) - (k + 1) + 1
        BY <4>1, Cut
      <4> QED
        BY <4>2
    <3>4. PICK m \in Seq(Octets) : m = SubSeq(input, pos + 1, pos + n) /\ Len(m) = n
      BY <3>2, <3>3
    <3>5. rbuf' \in Seq(Octets) /\ Len(rbuf') = Len(rbuf) + n
      BY <2>0, <3>1, <3>4
    <3>6. Len(rbuf') <= BufSize /\ pos' \in 0..Len(input)
      BY <2>0, <3>1, <3>5
    <3>7. UNCHANGED <<input, line, lines, halved, status>>
      BY <2>1 DEF Fill
    <3> QED
      BY <3>5, <3>6, <3>7 DEF LineReaderTypeOK, Octets
  <2>2. CASE WholeLine
    <3>0. PICK r \in Seq(Octets) : r = rbuf
      BY <2>0
    <3>1. PICK e : /\ r = rbuf
             /\ e = CHOOSE i \in 1..Len(r) : r[i] = "LF" /\ (\A j \in 1..(i - 1) : r[j] # "LF")
      BY <3>0
    <3>2. e \in 1..Len(r) /\ r[e] = "LF" /\ \A j \in 1..(e - 1) : r[j] # "LF"
      <4>1. \E i \in 1..Len(r) : r[i] = "LF"
        BY <2>2, <3>1 DEF WholeLine, hasLF
      <4> QED
        BY <3>1, <4>1, FirstLF
    <3>3. PICK u : u = SubSeq(r, 1, e - 1)
      OBVIOUS
    <3>4. rbuf' = SubSeq(r, e + 1, Len(r)) /\ EndLine(dropCR(u))
      BY <2>2, <3>1, <3>3 DEF WholeLine, dropCR
    <3>5. dropCR(u) \in Seq(Text)
      BY <3>2, <3>3, PieceTyped
    <3>6. PICK chunk \in Seq(Text) : chunk = dropCR(u)
      BY <3>5, Zenon
    <3>7. SubSeq(r, e + 1, Len(r)) \in Seq(Octets) /\ Len(SubSeq(r, e + 1, Len(r))) <= Len(r)
      <4>1. e + 1 \in Nat \ {0} /\ Len(r) \in Int /\ Len(r) <= Len(r)
        BY <3>2
      <4>2. /\ SubSeq(r, e + 1, Len(r)) \in Seq(Octets)
            /\ Len(SubSeq(r, e + 1, Len(r))) = IF e + 1 <= Len(r) THEN Len(r) - (e + 1) + 1 ELSE 0
        BY <4>1, Cut
      <4> QED
        BY <3>2, <4>2
    <3>8. rbuf' \in Seq(Octets) /\ Len(rbuf') <= BufSize
      BY <2>0, <3>1, <3>4, <3>7
    <3>9. /\ line' \in Seq({"x", "CR"}) /\ Len(line') <= MaxLineLength
          /\ lines' \in Seq(Seq({"x", "CR"})) /\ status' \in {"reading", "tooLong", "failed"}
      <4>1. status = "reading"
        BY <2>2 DEF WholeLine
      <4> QED
        BY <3>4, <3>6, <4>1, EndLineTyped
    <3>10. UNCHANGED <<input, pos, halved>>
      BY <2>2 DEF WholeLine
    <3> QED
      BY <3>8, <3>9, <3>10 DEF LineReaderTypeOK, Octets
  <2>3. CASE Prefix
    <3>1. PICK r \in Seq(Octets) : r = rbuf
      BY <2>0
    <3>2. r \in Seq(Text)
      BY <2>3, <3>1, NoLF DEF Prefix, hasLF
    <3>3. PICK chunk \in Seq(Text) : chunk = dropCR(r)
      BY <3>2, DroppedCR
    <3>4. PICK l \in Seq(Text) : l = line \o chunk
      BY <2>0, TextsJoin
    <3>5. IF tooLong(l) THEN status' = "tooLong" /\ UNCHANGED line
          ELSE line' = l /\ UNCHANGED status
      BY <2>3, <3>1, <3>3, <3>4 DEF Prefix, dropCR, join
    <3>6. line' \in Seq(Text) /\ Len(line') <= MaxLineLength
      <4>1. CASE tooLong(l)
        BY <2>0, <3>5, <4>1 DEF LineReaderTypeOK
      <4>2. CASE ~tooLong(l)
        <5>1. line' = l
          BY <3>5, <4>2
        <5>2. Len(l) \in Nat /\ ~(Len(l) > MaxLineLength)
          BY <4>2 DEF tooLong
        <5> QED
          BY <2>0, <5>1, <5>2
      <4> QED
        BY <4>1, <4>2
    <3>7. status' \in {"reading", "tooLong", "failed"}
      BY <3>5 DEF LineReaderTypeOK
    <3>8. rbuf' \in Seq(Octets) /\ Len(rbuf') <= BufSize
      <4>1. rbuf' = <<"CR">> \/ rbuf' = <<>>
        BY <2>3 DEF Prefix
      <4>2. <<"CR">> \in Seq(Octets) /\ <<>> \in Seq(Octets)
        BY DEF Octets
      <4>3. Len(<<"CR">>) = 1 /\ Len(<<>>) = 0
        OBVIOUS
      <4>4. CASE rbuf' = <<"CR">>
        BY <2>0, <4>2, <4>3, <4>4
      <4>5. CASE rbuf' = <<>>
        BY <2>0, <4>2, <4>3, <4>5
      <4> QED
        BY <4>1, <4>4, <4>5
    <3>9. UNCHANGED <<input, pos, lines, halved>>
      BY <2>3 DEF Prefix
    <3> QED
      BY <3>6, <3>7, <3>8, <3>9 DEF LineReaderTypeOK, Octets, Text
  <2>4. CASE ReadFails
    BY <2>4 DEF ReadFails, LineReaderTypeOK
  <2>5. CASE HalfLine
    <3>1. PICK r \in Seq(Octets) : r = rbuf
      BY <2>0
    <3>2. r \in Seq(Text)
      BY <2>5, <3>1, NoLF DEF HalfLine, hasLF
    <3>3. /\ line' \in Seq({"x", "CR"}) /\ Len(line') <= MaxLineLength
          /\ lines' \in Seq(Seq({"x", "CR"})) /\ status' \in {"reading", "tooLong", "failed"}
      <4>1. status = "reading" /\ EndLine(r)
        BY <2>5, <3>1 DEF HalfLine
      <4> QED
        BY <3>2, <4>1, EndLineTyped
    <3>4. rbuf' = <<>> /\ halved' = TRUE /\ UNCHANGED <<input, pos>>
      BY <2>5 DEF HalfLine
    <3>5. <<>> \in Seq(Octets) /\ Len(<<>>) <= BufSize
      BY <2>0
    <3> QED
      BY <3>3, <3>4, <3>5 DEF LineReaderTypeOK, Octets
  <2>6. CASE Quiet \/ UNCHANGED lvars
    BY <2>6 DEF Quiet, lvars, LineReaderTypeOK
  <2> QED
    BY <2>1, <2>2, <2>3, <2>4, <2>5, <2>6 DEF Next
<1> QED
  BY <1>1, <1>2, PTL DEF Spec

\* The reference, with what is sent and the number of returned lines as arguments.
lfs(s)        == {i \in 1..Len(s) : s[i] = "LF"}
upToLF(s, p)  == {j \in lfs(s) : j <= p}
lfOf(s, k)    == IF k = 0 THEN 0 ELSE CHOOSE i \in lfs(s) : Cardinality(upToLF(s, i)) = k
sentOf(s, k)  == dropCR(SubSeq(s, lfOf(s, k - 1) + 1, lfOf(s, k) - 1))
pendingOf(s, n) ==
    IF n + 1 <= Cardinality(lfs(s)) THEN sentOf(s, n + 1)
    ELSE dropCR(SubSeq(s, lfOf(s, (n + 1) - 1) + 1, Len(s)))

\* The k-th LF is at p; the 0-th is before the first octet.
isLF(s, k, p) == (p = 0 \/ p \in lfs(s)) /\ Cardinality(upToLF(s, p)) = k

\* LFs can be counted.
LEMMA LFsFinite ==
    ASSUME NEW s \in Seq(Octets), NEW p
    PROVE  /\ IsFiniteSet(lfs(s)) /\ Cardinality(lfs(s)) \in Nat
           /\ IsFiniteSet(upToLF(s, p)) /\ Cardinality(upToLF(s, p)) \in Nat
           /\ Cardinality(upToLF(s, p)) <= Cardinality(lfs(s))
<1>1. IsFiniteSet(1..Len(s))
  BY FS_Interval
<1>2. lfs(s) \in SUBSET (1..Len(s)) /\ upToLF(s, p) \in SUBSET lfs(s)
  BY DEF lfs, upToLF
<1>3. IsFiniteSet(lfs(s))
  BY <1>1, <1>2, FS_Subset
<1>4. IsFiniteSet(upToLF(s, p)) /\ Cardinality(upToLF(s, p)) <= Cardinality(lfs(s))
  BY <1>2, <1>3, FS_Subset
<1> QED
  BY <1>3, <1>4, FS_CardinalityType

\* Before the first octet there is none.
LEMMA ZerothLF ==
    ASSUME NEW s \in Seq(Octets)
    PROVE  isLF(s, 0, 0)
<1>1. upToLF(s, 0) = {}
  BY DEF upToLF, lfs
<1> QED
  BY <1>1, FS_EmptySet DEF isLF

\* Where the k-th LF is.
LEMMA LFWhere ==
    ASSUME NEW s \in Seq(Octets), NEW k, NEW p, isLF(s, k, p)
    PROVE  p \in 0..Len(s) /\ k \in Nat /\ k <= Cardinality(lfs(s))
<1>1. p = 0 \/ p \in 1..Len(s)
  BY DEF isLF, lfs
<1>2. k \in Nat /\ k <= Cardinality(lfs(s))
  BY LFsFinite DEF isLF
<1> QED
  BY <1>1, <1>2

\* The next LF.
LEMMA NextLF ==
    ASSUME NEW s \in Seq(Octets), NEW k, NEW p, isLF(s, k, p),
           NEW q \in lfs(s), p < q, \A i \in (p + 1)..(q - 1) : s[i] # "LF"
    PROVE  isLF(s, k + 1, q)
<1>1. p \in 0..Len(s) /\ q \in 1..Len(s) /\ s[q] = "LF"
  BY LFWhere DEF lfs
<1>2. upToLF(s, q) = upToLF(s, p) \cup {q}
  <2>1. ASSUME NEW j \in upToLF(s, q) PROVE j \in upToLF(s, p) \cup {q}
    <3>1. j \in 1..Len(s) /\ s[j] = "LF" /\ j <= q
      BY DEF upToLF, lfs
    <3>2. j \notin (p + 1)..(q - 1)
      BY <3>1
    <3>3. j <= p \/ j = q
      BY <1>1, <3>1, <3>2
    <3> QED
      BY <3>1, <3>3 DEF upToLF, lfs
  <2>2. ASSUME NEW j \in upToLF(s, p) PROVE j \in upToLF(s, q)
    BY <1>1 DEF upToLF, lfs
  <2>3. q \in upToLF(s, q)
    BY <1>1 DEF upToLF, lfs
  <2> QED
    BY <2>1, <2>2, <2>3
<1>3. q \notin upToLF(s, p)
  BY <1>1 DEF upToLF
<1>4. Cardinality(upToLF(s, q)) = Cardinality(upToLF(s, p)) + 1
  BY <1>2, <1>3, LFsFinite, FS_AddElement
<1> QED
  BY <1>4 DEF isLF

\* A later LF has a higher number.
LEMMA LFsOrdered ==
    ASSUME NEW s \in Seq(Octets), NEW k, NEW p, isLF(s, k, p), NEW m, NEW q, isLF(s, m, q), p < q
    PROVE  k < m
<1>1. p \in 0..Len(s) /\ q \in 0..Len(s) /\ k \in Nat /\ m \in Nat
  BY LFWhere
<1>2. q \in lfs(s) /\ q \notin upToLF(s, p)
  BY <1>1 DEF isLF, upToLF
<1>3. upToLF(s, p) \cup {q} \in SUBSET upToLF(s, q)
  BY <1>1, <1>2 DEF upToLF, lfs
<1>4. PICK T \in SUBSET upToLF(s, q) : T = upToLF(s, p) \cup {q}
  BY <1>3
<1>5. Cardinality(T) <= Cardinality(upToLF(s, q))
  BY LFsFinite, FS_Subset
<1>6. Cardinality(T) = Cardinality(upToLF(s, p)) + 1
  BY <1>2, <1>4, LFsFinite, FS_AddElement
<1> QED
  BY <1>1, <1>5, <1>6 DEF isLF

\* The reference finds it.
LEMMA LFIs ==
    ASSUME NEW s \in Seq(Octets), NEW k, NEW p, isLF(s, k, p)
    PROVE  lfOf(s, k) = p
<1> DEFINE Is(i) == Cardinality(upToLF(s, i)) = k
<1>1. p \in 0..Len(s) /\ k \in Nat
  BY LFWhere
<1>2. CASE k = 0
  <2>1. isLF(s, 0, 0)
    BY ZerothLF
  <2>2. ~(0 < p)
    <3> SUFFICES ASSUME 0 < p PROVE FALSE
      OBVIOUS
    <3>1. 0 < k
      BY <2>1, LFsOrdered
    <3> QED
      BY <1>2, <3>1
  <2> QED
    BY <1>1, <1>2, <2>2 DEF lfOf
<1>3. CASE k # 0
  <2>1. p \in lfs(s)
    <3>1. p # 0
      <4>1. upToLF(s, 0) = {}
        BY DEF upToLF, lfs
      <4> QED
        BY <1>3, <4>1, FS_EmptySet DEF isLF
    <3> QED
      BY <3>1 DEF isLF
  <2>2. Is(p)
    BY DEF isLF
  <2>3. PICK q \in lfs(s) : q = (CHOOSE i \in lfs(s) : Is(i)) /\ Is(q)
    <3> HIDE DEF Is
    <3> QED
      BY <2>1, <2>2
  <2>4. lfOf(s, k) = q
    BY <1>3, <2>3 DEF lfOf
  <2>5. isLF(s, k, q)
    BY <2>3 DEF isLF
  <2>6. q \in 0..Len(s)
    BY <2>5, LFWhere
  <2>7. ~(p < q) /\ ~(q < p)
    <3>1. p < q => k < k
      BY <2>5, LFsOrdered
    <3>2. q < p => k < k
      BY <2>5, LFsOrdered
    <3> QED
      BY <1>1, <3>1, <3>2
  <2> QED
    BY <1>1, <2>4, <2>6, <2>7
<1> QED
  BY <1>2, <1>3

\* As long as there are more LFs, there is a next one.
LEMMA LFAfter ==
    ASSUME NEW s \in Seq(Octets), NEW k, NEW p, isLF(s, k, p), k + 1 <= Cardinality(lfs(s))
    PROVE  \E q \in lfs(s) : /\ p < q /\ isLF(s, k + 1, q)
                             /\ \A i \in (p + 1)..(q - 1) : s[i] # "LF"
<1> DEFINE S == {i \in lfs(s) : p < i}
<1>1. p \in 0..Len(s) /\ k \in Nat
  BY LFWhere
<1>2. S # {}
  <2> SUFFICES ASSUME S = {} PROVE FALSE
    OBVIOUS
  <2>1. lfs(s) \in SUBSET (1..Len(s))
    BY DEF lfs
  <2>2. \A i \in lfs(s) : i <= p
    BY <1>1, <2>1
  <2>3. upToLF(s, p) = lfs(s)
    BY <2>2 DEF upToLF
  <2>4. Cardinality(lfs(s)) = k
    BY <2>3 DEF isLF
  <2> QED
    BY <1>1, <2>4
<1>3. S \in SUBSET Nat
  BY DEF lfs
<1>4. PICK q \in S : \A j \in S : q <= j
  BY <1>2, <1>3, SmallestElement
<1>5. q \in lfs(s) /\ p < q /\ q \in 1..Len(s)
  BY <1>4 DEF lfs
<1>6. ASSUME NEW i \in (p + 1)..(q - 1) PROVE s[i] # "LF"
  <2>1. i \in 1..Len(s) /\ p < i /\ ~(q <= i)
    BY <1>1, <1>5
  <2>2. i \notin S
    BY <1>4, <2>1
  <2> QED
    BY <2>1, <2>2 DEF lfs
<1>7. isLF(s, k + 1, q)
  BY <1>5, <1>6, NextLF
<1> QED
  BY <1>5, <1>6, <1>7

\* u is what s has after k.
foundAt(s, k, u) == \A i \in 1..Len(u) : u[i] = s[k + i]

\* The octets after p, up to e.
LEMMA RawIs ==
    ASSUME NEW s \in Seq(Octets), NEW p \in Nat, NEW e \in p..Len(s)
    PROVE  \E u \in Seq(Octets) : /\ u = SubSeq(s, p + 1, e) /\ Len(u) = e - p
                                  /\ \A i \in 1..Len(u) : u[i] = s[p + i]
<1>1. p + 1 \in Nat \ {0} /\ e \in Int /\ e <= Len(s)
  OBVIOUS
<1>2. PICK u : u = SubSeq(s, p + 1, e)
  OBVIOUS
<1>3. /\ u \in Seq(Octets) /\ Len(u) = IF p + 1 <= e THEN e - (p + 1) + 1 ELSE 0
      /\ \A i \in 1..Len(u) : u[i] = s[(p + 1) + i - 1]
  BY <1>1, <1>2, Cut
<1>4. Len(u) = e - p
  BY <1>3
<1>5. \A i \in 1..Len(u) : (p + 1) + i - 1 = p + i
  BY <1>3
<1> QED
  BY <1>2, <1>3, <1>4, <1>5

\* A text that has the octets of a line, but for a CR at its end, is that line.
LEMMA LineIs ==
    ASSUME NEW s \in Seq(Octets), NEW p \in Nat, NEW e \in p..Len(s),
           NEW t \in Seq(Octets), foundAt(s, p, t),
           \/ Len(t) = e - p /\ (e = p \/ s[e] # "CR")
           \/ Len(t) = e - p - 1 /\ s[e] = "CR"
    PROVE  t = dropCR(SubSeq(s, p + 1, e))
<1> USE DEF foundAt
<1>1. PICK u \in Seq(Octets) : /\ u = SubSeq(s, p + 1, e) /\ Len(u) = e - p
                               /\ \A i \in 1..Len(u) : u[i] = s[p + i]
  BY RawIs
<1>2. endsIn(u, "CR") <=> e # p /\ s[e] = "CR"
  <2>1. u # <<>> <=> e # p
    <3>1. u = <<>> <=> Len(u) = 0
      BY EmptySeq
    <3>2. Len(u) = 0 <=> e = p
      BY <1>1
    <3> QED
      BY <3>1, <3>2
  <2>2. e # p => u[Len(u)] = s[p + Len(u)] /\ p + Len(u) = e
    BY <1>1
  <2> QED
    BY <2>1, <2>2 DEF endsIn
<1>3. CASE endsIn(u, "CR")
  <2>1. u # <<>>
    BY <1>3 DEF endsIn
  <2>2. PICK d \in Seq(Octets) : /\ d = dropLast(u) /\ Len(d) = Len(u) - 1
                                 /\ \A i \in 1..(Len(u) - 1) : d[i] = u[i]
    BY <2>1, LastDropped
  <2>3. Len(t) = Len(d)
    BY <1>1, <1>2, <1>3, <2>2
  <2>4. \A i \in 1..Len(t) : t[i] = d[i]
    BY <1>1, <2>2, <2>3
  <2>5. t = d
    BY <2>3, <2>4, SeqEqual
  <2> QED
    BY <1>1, <1>3, <2>2, <2>5 DEF dropCR
<1>4. CASE ~endsIn(u, "CR")
  <2>1. Len(t) = Len(u)
    <3>1. e = p \/ s[e] # "CR"
      BY <1>2, <1>4
    <3>2. Len(t) \in Nat
      OBVIOUS
    <3>3. CASE e = p
      BY <1>1, <3>2, <3>3
    <3>4. CASE s[e] # "CR"
      BY <1>1, <3>4
    <3> QED
      BY <3>1, <3>3, <3>4
  <2>2. \A i \in 1..Len(t) : t[i] = u[i]
    BY <1>1, <2>1
  <2>3. t = u
    BY <2>1, <2>2, SeqEqual
  <2> QED
    BY <1>1, <1>4, <2>3 DEF dropCR
<1> QED
  BY <1>3, <1>4

\* A line that goes on behind n is as long as what was read of it up to n, a CR
\* at n not counted.
LEMMA LongEnough ==
    ASSUME NEW s \in Seq(Octets), NEW p \in Nat, NEW n \in p..Len(s), NEW e \in n..Len(s),
           NEW m \in Nat, m = n - p - 1 \/ (m = n - p /\ n # p /\ s[n] # "CR")
    PROVE  Len(dropCR(SubSeq(s, p + 1, e))) >= m
<1>1. e \in p..Len(s)
  OBVIOUS
<1>2. PICK u \in Seq(Octets) : /\ u = SubSeq(s, p + 1, e) /\ Len(u) = e - p
                               /\ \A i \in 1..Len(u) : u[i] = s[p + i]
  BY <1>1, RawIs
<1>3. PICK d \in Seq(Octets) : d = dropCR(u) /\ Len(d) <= Len(u) /\ Len(d) >= Len(u) - 1
  BY DroppedCR
<1>4. CASE e > n \/ m = n - p - 1
  <2>1. e - p - 1 >= m
    BY <1>4
  <2> QED
    BY <1>2, <1>3, <2>1
<1>5. CASE e = n /\ m = n - p /\ n # p /\ s[n] # "CR"
  <2>1. u[Len(u)] = s[p + Len(u)] /\ p + Len(u) = n
    BY <1>2, <1>5
  <2>2. ~endsIn(u, "CR")
    BY <1>5, <2>1 DEF endsIn
  <2>3. d = u
    BY <1>3, <2>2 DEF dropCR
  <2> QED
    BY <1>2, <1>3, <1>5, <2>3
<1> QED
  BY <1>4, <1>5

\* The line that was not returned is as long as what was read of it.
LEMMA PendingLong ==
    ASSUME NEW s \in Seq(Octets), NEW k, NEW p, isLF(s, k, p), NEW n \in p..Len(s),
           \A i \in (p + 1)..n : s[i] # "LF",
           NEW m \in Nat, m = n - p - 1 \/ (m = n - p /\ n # p /\ s[n] # "CR")
    PROVE  Len(pendingOf(s, k)) >= m
<1>1. p \in 0..Len(s) /\ k \in Nat /\ lfOf(s, k) = p /\ (k + 1) - 1 = k
  BY LFWhere, LFIs
<1>2. CASE k + 1 <= Cardinality(lfs(s))
  <2>1. PICK q \in lfs(s) : p < q /\ isLF(s, k + 1, q)
    BY <1>2, LFAfter
  <2>2. q \in 1..Len(s) /\ s[q] = "LF" /\ lfOf(s, k + 1) = q
    BY <2>1, LFIs DEF lfs
  <2>3. ~(q <= n)
    BY <1>1, <2>1, <2>2
  <2>4. q - 1 \in n..Len(s)
    BY <1>1, <2>2, <2>3
  <2>5. pendingOf(s, k) = dropCR(SubSeq(s, p + 1, q - 1))
    BY <1>1, <1>2, <2>2 DEF pendingOf, sentOf
  <2>6. Len(dropCR(SubSeq(s, p + 1, q - 1))) >= m
    BY <1>1, <2>4, LongEnough
  <2> QED
    BY <2>5, <2>6
<1>3. CASE ~(k + 1 <= Cardinality(lfs(s)))
  <2>1. pendingOf(s, k) = dropCR(SubSeq(s, p + 1, Len(s)))
    BY <1>1, <1>3 DEF pendingOf
  <2>2. Len(s) \in n..Len(s)
    BY <1>1
  <2>3. Len(dropCR(SubSeq(s, p + 1, Len(s)))) >= m
    BY <1>1, <2>2, LongEnough
  <2> QED
    BY <2>1, <2>3
<1> QED
  BY <1>2, <1>3

\* Of the line after p, the pieces l were taken from the buffer and r, up to n, is
\* in it; a CR at the end of the pieces is followed by another.
Joined(s, n, r, l, p) ==
    /\ p + Len(l) + Len(r) = n
    /\ foundAt(s, p, l) /\ foundAt(s, p + Len(l), r)
    /\ endsIn(l, "CR") => r # <<>> /\ r[1] = "CR"

\* Pieces in a row.
LEMMA PieceJoin ==
    ASSUME NEW u \in Seq(Octets), NEW v \in Seq(Octets)
    PROVE  \E w \in Seq(Octets) :
              /\ w = u \o v /\ Len(w) = Len(u) + Len(v)
              /\ \A i \in 1..Len(u) : w[i] = u[i]
              /\ \A i \in 1..Len(v) : w[Len(u) + i] = v[i]
<1>1. u \o v \in Seq(Octets)
  OBVIOUS
<1>2. Len(u \o v) = Len(u) + Len(v)
  OBVIOUS
<1>3. \A i \in 1..Len(u) : (u \o v)[i] = u[i]
  OBVIOUS
<1>4. \A i \in 1..Len(v) : (u \o v)[Len(u) + i] = v[i]
  OBVIOUS
<1> QED
  BY <1>1, <1>2, <1>3, <1>4

\* A piece added to another in a line.
LEMMA PieceAdded ==
    ASSUME NEW s \in Seq(Octets), NEW p \in Nat, NEW l \in Seq(Octets), NEW c \in Seq(Octets),
           foundAt(s, p, l), foundAt(s, p + Len(l), c)
    PROVE  \E w \in Seq(Octets) :
              w = l \o c /\ Len(w) = Len(l) + Len(c) /\ foundAt(s, p, w)
<1> USE DEF foundAt
<1>1. PICK w \in Seq(Octets) :
         /\ w = l \o c /\ Len(w) = Len(l) + Len(c)
         /\ \A i \in 1..Len(l) : w[i] = l[i]
         /\ \A i \in 1..Len(c) : w[Len(l) + i] = c[i]
  BY PieceJoin
<1>2. ASSUME NEW i \in 1..Len(w) PROVE w[i] = s[p + i]
  <2>1. CASE i \in 1..Len(l)
    BY <1>1, <2>1
  <2>2. CASE i \notin 1..Len(l)
    <3>1. PICK j \in 1..Len(c) : Len(l) + j = i
      <4>1. i - Len(l) \in 1..Len(c) /\ Len(l) + (i - Len(l)) = i
        BY <1>1, <2>2
      <4> QED
        BY <4>1
    <3>2. w[Len(l) + j] = c[j] /\ c[j] = s[p + Len(l) + j]
      BY <1>1
    <3>3. p + Len(l) + j = p + i
      <4>1. PICK a \in Nat : a = Len(l)
        OBVIOUS
      <4>2. a + j = i /\ j \in Int /\ i \in Int
        BY <3>1, <4>1
      <4>3. p + a + j = p + i
        BY <4>2
      <4> QED
        BY <4>1, <4>3
    <3> QED
      BY <3>1, <3>2, <3>3
  <2> QED
    BY <2>1, <2>2
<1> QED
  BY <1>1, <1>2

\* Fill: more octets come into the buffer.
LEMMA JoinedFill ==
    ASSUME NEW s \in Seq(Octets), NEW p \in Nat, NEW l \in Seq(Octets), NEW r \in Seq(Octets),
           NEW n \in Nat, Joined(s, n, r, l, p), NEW m \in Nat, n + m <= Len(s)
    PROVE  Joined(s, n + m, r \o SubSeq(s, n + 1, n + m), l, p)
<1>1. n + m \in n..Len(s)
  OBVIOUS
<1>2. PICK u \in Seq(Octets) : /\ u = SubSeq(s, n + 1, n + m) /\ Len(u) = (n + m) - n
                               /\ \A i \in 1..Len(u) : u[i] = s[n + i]
  BY <1>1, RawIs
<1>3. PICK q \in Nat : q = p + Len(l)
  OBVIOUS
<1>4. q + Len(r) = n /\ foundAt(s, q, r)
  BY <1>3 DEF Joined
<1>5. foundAt(s, q + Len(r), u)
  BY <1>2, <1>4 DEF foundAt
<1>6. PICK w \in Seq(Octets) :
         w = r \o u /\ Len(w) = Len(r) + Len(u) /\ foundAt(s, q, w)
  BY <1>4, <1>5, PieceAdded
<1>7. p + Len(l) + Len(w) = n + m
  <2>1. PICK a \in Nat, b \in Nat : a = Len(r) /\ b = Len(u)
    OBVIOUS
  <2>2. q + a = n /\ b = m /\ Len(w) = a + b
    BY <1>2, <1>4, <1>6, <2>1
  <2>3. q + Len(w) = n + m
    BY <2>2
  <2> QED
    BY <1>3, <2>3
<1>8. endsIn(l, "CR") => w # <<>> /\ w[1] = "CR"
  <2> SUFFICES ASSUME endsIn(l, "CR") PROVE w # <<>> /\ w[1] = "CR"
    OBVIOUS
  <2>1. r # <<>> /\ r[1] = "CR"
    BY DEF Joined
  <2>2. 1 \in 1..Len(r) /\ 1 \in 1..Len(w)
    BY <1>6, <2>1
  <2>3. w[1] = s[q + 1] /\ r[1] = s[q + 1]
    BY <1>4, <1>6, <2>2 DEF foundAt
  <2> QED
    BY <2>1, <2>2, <2>3
<1>9. Joined(s, n + m, w, l, p)
  BY <1>3, <1>6, <1>7, <1>8 DEF Joined
<1> QED
  BY <1>2, <1>6, <1>9

\* Text is made of octets, none of them an LF.
LEMMA TextIs ==
    ASSUME NEW l \in Seq(Text)
    PROVE  l \in Seq(Octets) /\ \A i \in 1..Len(l) : l[i] # "LF"
<1>1. \A i \in 1..Len(l) : l[i] \in Text
  OBVIOUS
<1>2. \A i \in 1..Len(l) : l[i] \in Octets
  BY <1>1 DEF Text, Octets
<1>3. \A i \in 1..Len(l) : l[i] # "LF"
  BY <1>1 DEF Text
<1> QED
  BY <1>2, <1>3

\* The line after p, up to h, is in the pieces l and the last one, u; a CR at its
\* end is in u.
Pieced(s, p, l, u, h) ==
    /\ foundAt(s, p, l) /\ foundAt(s, p + Len(l), u)
    /\ u = <<>> => ~endsIn(l, "CR")
    /\ h \in p..Len(s) /\ h = p + Len(l) + Len(u)

\* Lengths of what follows p.
LEMMA Lengths ==
    ASSUME NEW p \in Nat, NEW a \in Nat, NEW b \in Nat, NEW h \in Int, h = p + a + b
    PROVE  h - p = a + b /\ h - p - 1 = a + (b - 1) /\ (b = 0 => p + a = h)
  OBVIOUS

\* A sequence is empty when it has no element.
LEMMA NoElement == ASSUME NEW S, NEW u \in Seq(S) PROVE u = <<>> <=> Len(u) = 0
  BY EmptySeq

\* The line is put together.
LEMMA LastPiece ==
    ASSUME NEW s \in Seq(Octets), NEW p \in Nat, NEW l \in Seq(Octets), NEW u \in Seq(Octets),
           NEW h \in Nat, Pieced(s, p, l, u, h)
    PROVE  l \o dropCR(u) = dropCR(SubSeq(s, p + 1, h))
<1>a. /\ foundAt(s, p, l) /\ foundAt(s, p + Len(l), u)
      /\ u = <<>> => ~endsIn(l, "CR")
  BY DEF Pieced
<1>b. h \in p..Len(s) /\ h = p + Len(l) + Len(u)
  BY DEF Pieced
<1>1. PICK a \in Nat, b \in Nat : a = Len(l) /\ b = Len(u)
  OBVIOUS
<1>2. PICK d \in Seq(Octets) : d = dropCR(u) /\ Len(d) <= Len(u) /\ \A i \in 1..Len(d) : d[i] = u[i]
  BY DroppedCR
<1>3. foundAt(s, p + Len(l), d)
  <2> SUFFICES ASSUME NEW i \in 1..Len(d) PROVE d[i] = s[p + Len(l) + i]
    BY DEF foundAt
  <2>1. i \in 1..Len(u)
    BY <1>2
  <2> QED
    BY <1>a, <1>2, <2>1 DEF foundAt
<1>4. PICK w \in Seq(Octets) : w = l \o d /\ Len(w) = Len(l) + Len(d) /\ foundAt(s, p, w)
  BY <1>a, <1>3, PieceAdded
<1>5. \/ Len(w) = h - p /\ (h = p \/ s[h] # "CR")
      \/ Len(w) = h - p - 1 /\ s[h] = "CR"
  <2>1. CASE endsIn(u, "CR")
    <3>1. u # <<>> /\ u[b] = "CR" /\ b > 0
      BY <1>1, <2>1 DEF endsIn
    <3>2. Len(d) = b - 1
      <4>1. d = dropLast(u)
        BY <1>2, <2>1 DEF dropCR
      <4> QED
        BY <1>1, <3>1, <4>1, LastDropped
    <3>3. b \in 1..Len(u) /\ p + Len(l) + b = h
      BY <1>b, <1>1, <3>1
    <3>4. s[h] = "CR"
      BY <1>a, <3>1, <3>3 DEF foundAt
    <3>5. Len(w) = a + (b - 1) /\ h = p + a + b
      <4>1. Len(w) = a + Len(d)
        BY <1>1, <1>4
      <4>2. h = p + a + b
        BY <1>b, <1>1
      <4> QED
        BY <3>2, <4>1, <4>2
    <3>6. Len(w) = h - p - 1
      <4>1. h - p - 1 = a + (b - 1)
        BY <3>5, Lengths
      <4> QED
        BY <3>5, <4>1
    <3> QED
      BY <3>4, <3>6
  <2>2. CASE ~endsIn(u, "CR")
    <3>1. d = u
      BY <1>2, <2>2 DEF dropCR
    <3>2. Len(w) = a + b /\ h = p + a + b
      <4>1. Len(w) = a + b
        BY <1>1, <1>4, <3>1
      <4>2. h = p + a + b
        BY <1>b, <1>1
      <4> QED
        BY <4>1, <4>2
    <3>3. Len(w) = h - p
      <4>1. h - p = a + b
        BY <3>2, Lengths
      <4> QED
        BY <3>2, <4>1
    <3>4. CASE b > 0
      <4>1. b \in 1..Len(u) /\ p + Len(l) + b = h /\ u # <<>>
        <5>1. b \in 1..b /\ Len(u) > 0
          BY <1>1, <3>4
        <5>2. p + Len(l) + b = h
          BY <1>b, <1>1
        <5>3. u # <<>>
          BY <5>1
        <5> QED
          BY <1>1, <5>1, <5>2, <5>3
      <4>2. u[b] = s[h] /\ u[b] # "CR"
        BY <1>a, <1>1, <2>2, <4>1 DEF foundAt, endsIn
      <4> QED
        BY <3>3, <4>2
    <3>5. CASE b = 0 /\ a > 0
      <4>1. u = <<>> /\ l # <<>> /\ a \in 1..Len(l) /\ p + a = h
        <5>1. a \in 1..a /\ p + a = h
          <6>1. a \in 1..a
            BY <3>5
          <6>2. p + a = h
            BY <3>2, <3>5, Lengths
          <6> QED
            BY <6>1, <6>2
        <5>2. u = <<>>
          BY <1>1, <3>5, NoElement
        <5>3. l # <<>>
          BY <1>1, <3>5
        <5> QED
          BY <1>1, <5>1, <5>2, <5>3
      <4>2. l[a] = s[h] /\ l[a] # "CR"
        BY <1>a, <1>1, <4>1 DEF foundAt, endsIn
      <4> QED
        BY <3>3, <4>2
    <3>6. CASE b = 0 /\ a = 0
      BY <1>b, <3>2, <3>3, <3>6
    <3> QED
      BY <3>4, <3>5, <3>6
  <2> QED
    BY <2>1, <2>2
<1>6. w = dropCR(SubSeq(s, p + 1, h))
  <2>1. foundAt(s, p, w)
    BY <1>4
  <2>2. PICK e \in p..Len(s) : e = h
    BY <1>b
  <2>3. \/ Len(w) = e - p /\ (e = p \/ s[e] # "CR")
        \/ Len(w) = e - p - 1 /\ s[e] = "CR"
    BY <1>5, <2>2
  <2>4. w = dropCR(SubSeq(s, p + 1, e))
    BY <2>1, <2>3, LineIs
  <2> QED
    BY <2>2, <2>4
<1> QED
  BY <1>2, <1>4, <1>6

\* e is the place of the first LF of the buffer r.
firstLF(r, e) == e \in 1..Len(r) /\ r[e] = "LF" /\ \A j \in 1..(e - 1) : r[j] # "LF"

\* The pieces l and the buffer up to e are the line between p and the next LF, at q,
\* each without its line end, and the buffer goes on behind q.
LineEnds(s, n, r, l, k, p, e, q) ==
    /\ isLF(s, k + 1, q)
    /\ Joined(s, n, SubSeq(r, e + 1, Len(r)), <<>>, q)
    /\ l \o dropCR(SubSeq(r, 1, e - 1)) = dropCR(SubSeq(s, p + 1, q - 1))

\* WholeLine: the pieces and the buffer up to its first LF, without the line end,
\* are the next line, and the buffer goes on after it.
LEMMA JoinedLine ==
    ASSUME NEW s \in Seq(Octets), NEW p \in Nat, NEW l \in Seq(Text), NEW r \in Seq(Octets),
           NEW n \in Nat, n <= Len(s), Joined(s, n, r, l, p), NEW k, isLF(s, k, p),
           NEW e, firstLF(r, e)
    PROVE  \E q \in Nat : LineEnds(s, n, r, l, k, p, e, q)
<1> e \in 1..Len(r) /\ r[e] = "LF" /\ \A j \in 1..(e - 1) : r[j] # "LF"
  BY DEF firstLF
<1>1. l \in Seq(Octets) /\ \A i \in 1..Len(l) : l[i] # "LF"
  BY TextIs
<1>2. PICK a \in Nat, m \in Nat : a = Len(l) /\ m = Len(r)
  BY <1>1
<1>3. PICK c \in Nat : c = p + a
  OBVIOUS
<1>4. /\ c + m = n /\ foundAt(s, p, l) /\ foundAt(s, c, r)
      /\ endsIn(l, "CR") => r[1] = "CR"
  BY <1>2, <1>3 DEF Joined
<1>5. PICK q \in Nat : q = c + e
  OBVIOUS
<1>6. p < q /\ q \in 1..Len(s) /\ q <= n /\ p <= c
  BY <1>2, <1>3, <1>4, <1>5
<1>7. s[q] = "LF"
  BY <1>4, <1>5 DEF foundAt
<1>8. ASSUME NEW i \in (p + 1)..(q - 1) PROVE s[i] # "LF"
  <2>1. CASE i <= c
    <3>1. i - p \in 1..Len(l) /\ p + (i - p) = i
      BY <1>2, <1>3, <2>1
    <3>2. l[i - p] = s[p + (i - p)]
      BY <1>4, <3>1 DEF foundAt
    <3> QED
      BY <1>1, <3>1, <3>2
  <2>2. CASE i > c
    <3>1. i - c \in 1..Len(r) /\ i - c \in 1..(e - 1) /\ c + (i - c) = i
      BY <1>2, <1>5, <2>2
    <3>2. r[i - c] = s[c + (i - c)]
      BY <1>4, <3>1 DEF foundAt
    <3> QED
      BY <3>1, <3>2
  <2>3. i <= c \/ i > c
    OBVIOUS
  <2> QED
    BY <2>1, <2>2, <2>3
<1>9. isLF(s, k + 1, q)
  <2>1. q \in lfs(s)
    BY <1>6, <1>7 DEF lfs
  <2> QED
    BY <1>6, <1>8, <2>1, NextLF
<1>10. Joined(s, n, SubSeq(r, e + 1, Len(r)), <<>>, q)
  <2>1. Len(r) \in e..Len(r) /\ e \in Nat
    OBVIOUS
  <2>2. PICK x \in Seq(Octets) : /\ x = SubSeq(r, e + 1, Len(r)) /\ Len(x) = Len(r) - e
                                 /\ \A i \in 1..Len(x) : x[i] = r[e + i]
    BY <2>1, RawIs
  <2>3. q + 0 + Len(x) = n /\ Len(<<>>) = 0
    <3>1. Len(x) = m - e /\ e \in Int
      BY <1>2, <2>2
    <3>2. q + 0 + (m - e) = n
      BY <1>4, <1>5
    <3> QED
      BY <3>1, <3>2
  <2>4. foundAt(s, q, <<>>)
    BY DEF foundAt
  <2>5. ASSUME NEW i \in 1..Len(x) PROVE x[i] = s[q + 0 + i]
    <3>1. e + i \in 1..Len(r) /\ c + (e + i) = q + 0 + i
      BY <1>5, <2>2
    <3>2. r[e + i] = s[c + (e + i)]
      BY <1>4, <3>1 DEF foundAt
    <3> QED
      BY <2>2, <3>1, <3>2
  <2>6. ~endsIn(<<>>, "CR")
    BY DEF endsIn
  <2>7. foundAt(s, q + Len(<<>>), x)
    BY <2>3, <2>5 DEF foundAt
  <2> QED
    BY <2>2, <2>3, <2>4, <2>6, <2>7 DEF Joined
<1>11. PICK u \in Seq(Octets) : /\ u = SubSeq(r, 1, e - 1) /\ Len(u) = e - 1
                                /\ \A i \in 1..Len(u) : u[i] = r[i]
  <2>1. e - 1 \in 0..Len(r) /\ 0 \in Nat
    OBVIOUS
  <2>2. PICK v \in Seq(Octets) : /\ v = SubSeq(r, 0 + 1, e - 1) /\ Len(v) = (e - 1) - 0
                                 /\ \A i \in 1..Len(v) : v[i] = r[0 + i]
    BY <2>1, RawIs
  <2>3. 0 + 1 = 1 /\ (e - 1) - 0 = e - 1 /\ \A i \in 1..Len(v) : 0 + i = i
    OBVIOUS
  <2>4. v = SubSeq(r, 1, e - 1)
    BY <2>2, <2>3, Zenon
  <2> QED
    BY <2>2, <2>3, <2>4
<1>12. PICK h \in Nat : h \in p..Len(s) /\ h = q - 1 /\ h = p + Len(l) + Len(u)
  <2>1. q - 1 \in p..Len(s) /\ q - 1 = c + (e - 1)
    BY <1>5, <1>6
  <2>2. p + Len(l) + Len(u) = c + (e - 1)
    BY <1>2, <1>3, <1>11
  <2> QED
    BY <2>1, <2>2
<1>13. foundAt(s, p + Len(l), u)
  <2> SUFFICES ASSUME NEW i \in 1..Len(u) PROVE u[i] = s[c + i]
    BY <1>2, <1>3 DEF foundAt
  <2>1. i \in 1..Len(r)
    BY <1>11
  <2> QED
    BY <1>4, <1>11, <2>1 DEF foundAt
<1>14. u = <<>> => ~endsIn(l, "CR")
  <2> SUFFICES ASSUME u = <<>> PROVE ~endsIn(l, "CR")
    OBVIOUS
  <2>1. e = 1
    BY <1>11
  <2>2. r[1] # "CR"
    BY <2>1
  <2> QED
    BY <1>4, <2>2
<1>15. l \o dropCR(u) = dropCR(SubSeq(s, p + 1, h))
  <2>1. l \in Seq(Octets) /\ Pieced(s, p, l, u, h)
    BY <1>1, <1>4, <1>12, <1>13, <1>14 DEF Pieced
  <2> QED
    BY <2>1, LastPiece
<1>16. LineEnds(s, n, r, l, k, p, e, q)
  BY <1>9, <1>10, <1>11, <1>12, <1>15 DEF LineEnds
<1> QED
  BY <1>16

\* Prefix: a full buffer without an LF is added to the pieces, but for a CR at its
\* end, and no pending line is shorter than the pieces then are.
LEMMA JoinedPrefix ==
    ASSUME NEW s \in Seq(Octets), NEW p \in Nat, NEW l \in Seq(Text), NEW r \in Seq(Text),
           NEW n \in Nat, n <= Len(s), Joined(s, n, r, l, p), NEW k, isLF(s, k, p), r # <<>>
    PROVE  /\ Joined(s, n, IF endsIn(r, "CR") THEN <<"CR">> ELSE <<>>, l \o dropCR(r), p)
           /\ Len(l \o dropCR(r)) \in Nat /\ Len(pendingOf(s, k)) >= Len(l \o dropCR(r))
<1>1. /\ l \in Seq(Octets) /\ r \in Seq(Octets)
      /\ \A i \in 1..Len(l) : l[i] # "LF"
      /\ \A i \in 1..Len(r) : r[i] # "LF"
  BY TextIs
<1>2. PICK a \in Nat, m \in Nat : a = Len(l) /\ m = Len(r) /\ m > 0
  BY <1>1
<1>3. PICK c \in Nat : c = p + a
  OBVIOUS
<1>4. c + m = n /\ foundAt(s, p, l) /\ foundAt(s, c, r)
  BY <1>2, <1>3 DEF Joined
<1>5. PICK d \in Seq(Octets) : d = dropCR(r) /\ Len(d) <= Len(r) /\ \A i \in 1..Len(d) : d[i] = r[i]
  BY <1>1, DroppedCR
<1>6. foundAt(s, p + Len(l), d)
  <2> SUFFICES ASSUME NEW i \in 1..Len(d) PROVE d[i] = s[c + i]
    BY <1>2, <1>3 DEF foundAt
  <2>1. i \in 1..Len(r)
    BY <1>5
  <2> QED
    BY <1>4, <1>5, <2>1 DEF foundAt
<1>7. PICK w \in Seq(Octets) : w = l \o d /\ Len(w) = Len(l) + Len(d) /\ foundAt(s, p, w)
  <2>1. foundAt(s, p, l) /\ l \in Seq(Octets)
    BY <1>1, <1>4
  <2> QED
    BY <1>6, <2>1, PieceAdded, Zenon
<1>8. PICK z \in Nat : z = Len(w)
  OBVIOUS
<1>9. ASSUME NEW i \in (p + 1)..n PROVE s[i] # "LF"
  <2>1. CASE i <= c
    <3>1. i - p \in 1..Len(l) /\ p + (i - p) = i
      BY <1>2, <1>3, <2>1
    <3>2. l[i - p] = s[p + (i - p)]
      BY <1>4, <3>1 DEF foundAt
    <3> QED
      BY <1>1, <3>1, <3>2
  <2>2. CASE i > c
    <3>1. i - c \in 1..Len(r) /\ c + (i - c) = i
      BY <1>2, <1>4, <2>2
    <3>2. r[i - c] = s[c + (i - c)]
      BY <1>4, <3>1 DEF foundAt
    <3> QED
      BY <1>1, <3>1, <3>2
  <2>3. i <= c \/ i > c
    OBVIOUS
  <2> QED
    BY <2>1, <2>2, <2>3
<1>10. n \in p..Len(s)
  BY <1>3, <1>4
<1>11. m \in 1..Len(r) /\ r[m] = s[n]
  <2>1. m \in 1..Len(r)
    BY <1>2
  <2> QED
    BY <1>4, <2>1 DEF foundAt
<1>12. CASE endsIn(r, "CR")
  <2>1. r[m] = "CR"
    BY <1>2, <1>12 DEF endsIn
  <2>2. Len(d) = m - 1
    <3>1. d = dropLast(r)
      BY <1>5, <1>12 DEF dropCR
    <3> QED
      BY <1>1, <1>2, <3>1, LastDropped
  <2>3. z = a + (m - 1)
    BY <1>2, <1>7, <1>8, <2>2
  <2>4. z = n - p - 1 /\ p + z + 1 = n
    BY <1>3, <1>4, <2>3
  <2>5. Len(pendingOf(s, k)) >= z
    BY <1>9, <1>10, <2>4, PendingLong
  <2>6. Joined(s, n, <<"CR">>, w, p)
    <3>1. PICK y \in Seq(Octets) : y = <<"CR">> /\ Len(y) = 1 /\ y[1] = "CR"
      <4>1. <<"CR">> \in Seq(Octets)
        BY DEF Octets
      <4> QED
        BY <4>1
    <3>2. p + Len(w) + Len(y) = n
      BY <1>8, <2>4, <3>1
    <3>3. ASSUME NEW i \in 1..Len(y) PROVE y[i] = s[p + Len(w) + i]
      <4>1. i = 1 /\ p + z + i = n
        BY <2>4, <3>1
      <4> QED
        BY <1>8, <1>11, <2>1, <3>1, <4>1
    <3>4. y # <<>>
      BY <3>1
    <3>5. foundAt(s, p + Len(w), y)
      BY <3>3 DEF foundAt
    <3>6. Joined(s, n, y, w, p)
      BY <1>7, <3>1, <3>2, <3>4, <3>5 DEF Joined
    <3> QED
      BY <3>1, <3>6
  <2> QED
    BY <1>5, <1>7, <1>8, <1>12, <2>5, <2>6
<1>13. CASE ~endsIn(r, "CR")
  <2>1. d = r /\ r[m] # "CR"
    BY <1>2, <1>5, <1>13 DEF dropCR, endsIn
  <2>2. z = a + m
    BY <1>2, <1>7, <1>8, <2>1
  <2>3. z = n - p /\ n # p /\ p + z = n /\ s[n] # "CR"
    BY <1>2, <1>3, <1>4, <1>11, <2>1, <2>2
  <2>4. Len(pendingOf(s, k)) >= z
    BY <1>9, <1>10, <2>3, PendingLong
  <2>5. Joined(s, n, <<>>, w, p)
    <3>1. p + Len(w) + Len(<<>>) = n
      BY <1>8, <2>3
    <3>2. foundAt(s, p + Len(w), <<>>)
      BY DEF foundAt
    <3>3. ~endsIn(w, "CR")
      <4>1. z \in 1..Len(w)
        BY <1>2, <1>8, <2>2
      <4>2. w[z] = s[p + z]
        BY <1>7, <4>1 DEF foundAt
      <4> QED
        BY <1>8, <2>3, <4>2 DEF endsIn
    <3> QED
      BY <1>7, <3>1, <3>2, <3>3 DEF Joined
  <2> QED
    BY <1>5, <1>7, <1>8, <1>13, <2>4, <2>5
<1> QED
  BY <1>12, <1>13

\* The line that was not returned is made of octets.
LEMMA PendingTyped ==
    ASSUME NEW s \in Seq(Octets), NEW k, NEW p, isLF(s, k, p)
    PROVE  pendingOf(s, k) \in Seq(Octets)
<1>1. p \in 0..Len(s) /\ k \in Nat /\ lfOf(s, k) = p /\ (k + 1) - 1 = k
  BY LFWhere, LFIs
<1>2. ASSUME NEW e \in p..Len(s) PROVE dropCR(SubSeq(s, p + 1, e)) \in Seq(Octets)
  <2>1. p \in Nat
    BY <1>1
  <2>2. PICK u \in Seq(Octets) : /\ u = SubSeq(s, p + 1, e) /\ Len(u) = e - p
                                 /\ \A i \in 1..Len(u) : u[i] = s[p + i]
    BY <2>1, RawIs
  <2> QED
    BY <2>2, DroppedCR
<1>3. CASE k + 1 <= Cardinality(lfs(s))
  <2>1. PICK q \in lfs(s) : p < q /\ isLF(s, k + 1, q)
    BY <1>3, LFAfter
  <2>2. q \in 1..Len(s) /\ lfOf(s, k + 1) = q
    BY <2>1, LFIs DEF lfs
  <2>3. q - 1 \in p..Len(s)
    BY <1>1, <2>1, <2>2
  <2>4. pendingOf(s, k) = dropCR(SubSeq(s, p + 1, q - 1))
    BY <1>1, <1>3, <2>2 DEF pendingOf, sentOf
  <2> QED
    BY <1>2, <2>3, <2>4
<1>4. CASE ~(k + 1 <= Cardinality(lfs(s)))
  <2>1. pendingOf(s, k) = dropCR(SubSeq(s, p + 1, Len(s)))
    BY <1>1, <1>4 DEF pendingOf
  <2>2. Len(s) \in p..Len(s)
    BY <1>1
  <2> QED
    BY <1>2, <2>1, <2>2
<1> QED
  BY <1>3, <1>4

\* What is returned, what is taken from the buffer and what is in it are together
\* what came from the client: ls are the lines up to an LF at some p, and what is
\* after it is joined as long as the line is not refused.
Progress(s, n, r, l, ls, st) ==
    /\ \E p \in Nat : /\ isLF(s, Len(ls), p)
                      /\ st # "tooLong" => Joined(s, n, r, l, p)
    /\ \A k \in 1..Len(ls) : ls[k] = sentOf(s, k)
    /\ st = "tooLong" => Len(pendingOf(s, Len(ls))) > MaxLineLength

ReaderInv == ~halved => Progress(input, pos, rbuf, line, lines, status)

\* The next line is returned.
LEMMA LineReturned ==
    ASSUME NEW s \in Seq(Octets), NEW ls \in Seq(Seq(Text)), NEW t \in Seq(Text),
           \A k \in 1..Len(ls) : ls[k] = sentOf(s, k), t = sentOf(s, Len(ls) + 1)
    PROVE  /\ Len(Append(ls, t)) = Len(ls) + 1
           /\ \A k \in 1..Len(Append(ls, t)) : Append(ls, t)[k] = sentOf(s, k)
<1> DEFINE T == Seq(Text)
<1> ls \in Seq(T) /\ t \in T
  OBVIOUS
<1> HIDE DEF T
<1>1. Len(Append(ls, t)) = Len(ls) + 1
  OBVIOUS
<1>2. ASSUME NEW k \in 1..Len(Append(ls, t)) PROVE Append(ls, t)[k] = sentOf(s, k)
  <2>1. CASE k \in 1..Len(ls)
    <3>1. Append(ls, t)[k] = ls[k]
      BY <2>1
    <3> QED
      BY <2>1, <3>1
  <2>2. CASE k \notin 1..Len(ls)
    <3>1. k = Len(ls) + 1
      BY <1>1, <2>2
    <3>2. Append(ls, t)[Len(ls) + 1] = t
      OBVIOUS
    <3> QED
      BY <3>1, <3>2
  <2> QED
    BY <2>1, <2>2
<1> QED
  BY <1>1, <1>2

\* WholeLine's outcome.
LEMMA ProgressLine ==
    ASSUME NEW s \in Seq(Octets), NEW n \in Nat, n <= Len(s), NEW r \in Seq(Octets),
           NEW l \in Seq(Text), NEW ls \in Seq(Seq(Text)), Progress(s, n, r, l, ls, "reading"),
           NEW e, firstLF(r, e),
           NEW t \in Seq(Text), t = l \o dropCR(SubSeq(r, 1, e - 1))
    PROVE  /\ Len(t) > MaxLineLength =>
                 Progress(s, n, SubSeq(r, e + 1, Len(r)), l, ls, "tooLong")
           /\ Progress(s, n, SubSeq(r, e + 1, Len(r)), <<>>, Append(ls, t), "reading")
<1>1. PICK p \in Nat : isLF(s, Len(ls), p) /\ Joined(s, n, r, l, p)
  BY DEF Progress
<1>a. PICK q \in Nat : LineEnds(s, n, r, l, Len(ls), p, e, q)
  BY <1>1, JoinedLine
<1>2. /\ isLF(s, Len(ls) + 1, q)
      /\ Joined(s, n, SubSeq(r, e + 1, Len(r)), <<>>, q)
      /\ l \o dropCR(SubSeq(r, 1, e - 1)) = dropCR(SubSeq(s, p + 1, q - 1))
  BY <1>a DEF LineEnds
<1>3. lfOf(s, Len(ls)) = p /\ lfOf(s, Len(ls) + 1) = q
  BY <1>1, <1>2, LFIs
<1>4. (Len(ls) + 1) - 1 = Len(ls)
  OBVIOUS
<1>5. t = sentOf(s, Len(ls) + 1)
  BY <1>2, <1>3, <1>4 DEF sentOf
<1>6. \A k \in 1..Len(ls) : ls[k] = sentOf(s, k)
  BY DEF Progress
<1>7. Len(ls) + 1 <= Cardinality(lfs(s))
  BY <1>2, LFWhere
<1>8. pendingOf(s, Len(ls)) = t
  BY <1>5, <1>7 DEF pendingOf
<1>9. ASSUME Len(t) > MaxLineLength
      PROVE  Progress(s, n, SubSeq(r, e + 1, Len(r)), l, ls, "tooLong")
  BY <1>1, <1>6, <1>8, <1>9 DEF Progress
<1>10. Progress(s, n, SubSeq(r, e + 1, Len(r)), <<>>, Append(ls, t), "reading")
  <2>1. /\ Len(Append(ls, t)) = Len(ls) + 1
        /\ \A k \in 1..Len(Append(ls, t)) : Append(ls, t)[k] = sentOf(s, k)
    BY <1>5, <1>6, LineReturned
  <2>2. isLF(s, Len(Append(ls, t)), q)
    BY <1>2, <2>1
  <2> QED
    BY <1>2, <2>1, <2>2 DEF Progress
<1> QED
  BY <1>9, <1>10

\* Prefix's outcome.
LEMMA ProgressPrefix ==
    ASSUME NEW s \in Seq(Octets), NEW n \in Nat, n <= Len(s), NEW r \in Seq(Text), r # <<>>,
           NEW l \in Seq(Text), NEW ls \in Seq(Seq(Text)), Progress(s, n, r, l, ls, "reading"),
           NEW x, x = IF endsIn(r, "CR") THEN <<"CR">> ELSE <<>>,
           NEW t \in Seq(Text), t = l \o dropCR(r)
    PROVE  /\ Len(t) > MaxLineLength => Progress(s, n, x, l, ls, "tooLong")
           /\ Progress(s, n, x, t, ls, "reading")
<1>1. PICK p \in Nat : isLF(s, Len(ls), p) /\ Joined(s, n, r, l, p)
  BY DEF Progress
<1>2. /\ Joined(s, n, IF endsIn(r, "CR") THEN <<"CR">> ELSE <<>>, l \o dropCR(r), p)
      /\ Len(pendingOf(s, Len(ls))) >= Len(l \o dropCR(r))
  BY <1>1, JoinedPrefix
<1>3. Joined(s, n, x, t, p) /\ Len(pendingOf(s, Len(ls))) >= Len(t)
  BY <1>2
<1>4. \A k \in 1..Len(ls) : ls[k] = sentOf(s, k)
  BY DEF Progress
<1>5. Len(pendingOf(s, Len(ls))) \in Nat
  <2>1. pendingOf(s, Len(ls)) \in Seq(Octets)
    BY <1>1, PendingTyped
  <2> QED
    BY <2>1
<1>6. ASSUME Len(t) > MaxLineLength PROVE Progress(s, n, x, l, ls, "tooLong")
  <2>1. Len(pendingOf(s, Len(ls))) > MaxLineLength
    BY <1>3, <1>5, <1>6, LineReaderAssumption
  <2> QED
    BY <1>1, <1>4, <2>1 DEF Progress
<1>7. Progress(s, n, x, t, ls, "reading")
  BY <1>1, <1>3, <1>4 DEF Progress
<1> QED
  BY <1>6, <1>7

(* The lines the command loop gets are the lines the client sent, however    *)
(* its octets are cut by reads and by the buffer, whatever the sizes of the  *)
(* buffer and of the limit, as long as no read fails inside a line; and only *)
(* a line longer than the limit is refused.                                  *)
THEOREM LinesKept == Spec => []LinesExact
<1>1. Init => ReaderInv
  <2> SUFFICES ASSUME Init PROVE Progress(input, pos, rbuf, line, lines, status)
    BY DEF ReaderInv
  <2>1. /\ pos = 0 /\ rbuf = <<>> /\ line = <<>> /\ lines = <<>> /\ status = "reading"
    BY DEF Init
  <2>2. PICK s \in Seq(Octets) : s = input
    BY LineReaderAssumption DEF Init, Octets
  <2>3. isLF(s, 0, 0) /\ Len(<<>>) = 0
    BY ZerothLF
  <2>4. Joined(s, 0, <<>>, <<>>, 0)
    BY <2>3 DEF Joined, foundAt, endsIn
  <2>5. Progress(s, 0, <<>>, <<>>, <<>>, "reading")
    BY <2>3, <2>4 DEF Progress
  <2> QED
    BY <2>1, <2>2, <2>5
<1>2. LineReaderTypeOK /\ ReaderInv /\ [Next]_lvars => ReaderInv'
  <2> SUFFICES ASSUME LineReaderTypeOK, ReaderInv, [Next]_lvars, ~halved'
               PROVE  Progress(input, pos, rbuf, line, lines, status)'
    BY DEF ReaderInv
  <2>1. /\ input \in Seq(Octets) /\ pos \in 0..Len(input)
        /\ rbuf \in Seq(Octets) /\ Len(rbuf) <= BufSize /\ line \in Seq(Text)
        /\ lines \in Seq(Seq(Text)) /\ BufSize \in Nat /\ BufSize >= 2
    BY LineReaderAssumption DEF LineReaderTypeOK, Octets, Text
  <2>2. PICK s \in Seq(Octets), n \in Nat, r \in Seq(Octets), l \in Seq(Text),
             ls \in Seq(Seq(Text)) :
           s = input /\ n = pos /\ r = rbuf /\ l = line /\ ls = lines /\ n <= Len(s)
    BY <2>1
  <2>3. CASE Fill
    <3>1. PICK m \in 1..(BufSize - Len(r)) :
             /\ n + m <= Len(s) /\ pos' = n + m
             /\ rbuf' = r \o SubSeq(s, n + 1, n + m)
      BY <2>2, <2>3 DEF Fill
    <3>2. /\ input' = s /\ line' = l /\ lines' = ls /\ halved' = halved
          /\ status = "reading" /\ status' = "reading"
      BY <2>2, <2>3 DEF Fill
    <3>3. Progress(s, n, r, l, ls, "reading")
      BY <2>2, <3>2 DEF ReaderInv
    <3>4. PICK p \in Nat : isLF(s, Len(ls), p) /\ Joined(s, n, r, l, p)
      BY <3>3 DEF Progress
    <3>5. l \in Seq(Octets) /\ m \in Nat
      BY TextIs
    <3>6. PICK x : x = r \o SubSeq(s, n + 1, n + m)
      OBVIOUS
    <3>7. Joined(s, n + m, x, l, p)
      BY <3>1, <3>4, <3>5, <3>6, JoinedFill
    <3>8. Progress(s, n + m, x, l, ls, "reading")
      BY <3>3, <3>4, <3>7 DEF Progress
    <3> QED
      BY <3>1, <3>2, <3>6, <3>8
  <2>4. CASE WholeLine
    <3>1. PICK e :
             e = CHOOSE i \in 1..Len(r) : r[i] = "LF" /\ (\A j \in 1..(i - 1) : r[j] # "LF")
      OBVIOUS
    <3>2. e \in 1..Len(r) /\ r[e] = "LF" /\ \A j \in 1..(e - 1) : r[j] # "LF"
      <4>1. \E i \in 1..Len(r) : r[i] = "LF"
        BY <2>2, <2>4 DEF WholeLine, hasLF
      <4> QED
        BY <3>1, <4>1, FirstLF
    <3>3. PICK x, d : x = SubSeq(r, e + 1, Len(r)) /\ d = dropCR(SubSeq(r, 1, e - 1))
      OBVIOUS
    <3>4. rbuf' = x /\ EndLine(d)
      BY <2>2, <2>4, <3>1, <3>3 DEF WholeLine, dropCR
    <3>5. d \in Seq(Text)
      BY <3>2, <3>3, PieceTyped
    <3>6. PICK t \in Seq(Text) : t = l \o d /\ t = join(d)
      BY <2>2, <3>5, TextsJoin DEF join
    <3>7. /\ input' = s /\ pos' = n /\ halved' = halved /\ status = "reading"
      BY <2>2, <2>4 DEF WholeLine
    <3>8. Progress(s, n, r, l, ls, "reading")
      BY <2>2, <3>7 DEF ReaderInv
    <3>9. /\ Len(t) > MaxLineLength => Progress(s, n, x, l, ls, "tooLong")
          /\ Progress(s, n, x, <<>>, Append(ls, t), "reading")
      <4>1. firstLF(r, e)
        BY <3>2 DEF firstLF
      <4> QED
        BY <2>2, <4>1, <3>3, <3>6, <3>8, ProgressLine
    <3>10. CASE tooLong(t)
      <4>1. status' = "tooLong" /\ line' = l /\ lines' = ls
        BY <2>2, <3>4, <3>6, <3>10 DEF EndLine
      <4>2. Progress(s, n, x, l, ls, "tooLong")
        BY <3>9, <3>10 DEF tooLong
      <4> QED
        BY <3>4, <3>7, <4>1, <4>2
    <3>11. CASE ~tooLong(t)
      <4>1. lines' = Append(ls, t) /\ line' = <<>> /\ status' = "reading"
        BY <2>2, <3>4, <3>6, <3>7, <3>11 DEF EndLine
      <4> QED
        BY <3>4, <3>7, <3>9, <4>1
    <3> QED
      BY <3>10, <3>11
  <2>5. CASE Prefix
    <3>1. r \in Seq(Text)
      BY <2>2, <2>5, NoLF DEF Prefix, hasLF
    <3>2. r # <<>>
      <4>1. Len(r) = BufSize
        BY <2>2, <2>5 DEF Prefix, full
      <4> QED
        BY <2>1, <4>1
    <3>3. PICK x, d : x = (IF endsIn(r, "CR") THEN <<"CR">> ELSE <<>>) /\ d = dropCR(r)
      OBVIOUS
    <3>4. d \in Seq(Text)
      BY <3>1, <3>3, DroppedCR
    <3>5. PICK t \in Seq(Text) : t = l \o d
      BY <3>4, TextsJoin
    <3>6. /\ rbuf' = x
          /\ IF tooLong(t) THEN status' = "tooLong" /\ UNCHANGED line
             ELSE line' = t /\ UNCHANGED status
      BY <2>2, <2>5, <3>3, <3>5 DEF Prefix, dropCR, join
    <3>7. /\ input' = s /\ pos' = n /\ lines' = ls /\ halved' = halved /\ status = "reading"
      BY <2>2, <2>5 DEF Prefix
    <3>8. Progress(s, n, r, l, ls, "reading")
      BY <2>2, <3>7 DEF ReaderInv
    <3>9. /\ Len(t) > MaxLineLength => Progress(s, n, x, l, ls, "tooLong")
          /\ Progress(s, n, x, t, ls, "reading")
      BY <2>2, <3>1, <3>2, <3>3, <3>5, <3>8, ProgressPrefix
    <3>10. CASE tooLong(t)
      <4>1. status' = "tooLong" /\ line' = l
        BY <2>2, <3>6, <3>10
      <4>2. Progress(s, n, x, l, ls, "tooLong")
        BY <3>9, <3>10 DEF tooLong
      <4> QED
        BY <3>6, <3>7, <4>1, <4>2
    <3>11. CASE ~tooLong(t)
      <4>1. status' = "reading" /\ line' = t
        BY <3>6, <3>7, <3>11
      <4> QED
        BY <3>6, <3>7, <3>9, <4>1
    <3> QED
      BY <3>10, <3>11
  <2>6. CASE ReadFails
    <3>1. /\ input' = s /\ pos' = n /\ rbuf' = r /\ line' = l /\ lines' = ls
          /\ halved' = halved /\ status = "reading" /\ status' = "failed"
      BY <2>2, <2>6 DEF ReadFails
    <3>2. Progress(s, n, r, l, ls, "reading")
      BY <2>2, <3>1 DEF ReaderInv
    <3>3. Progress(s, n, r, l, ls, "failed")
      BY <3>2 DEF Progress
    <3> QED
      BY <3>1, <3>3
  <2>7. CASE HalfLine
    BY <2>7 DEF HalfLine
  <2>8. CASE Quiet \/ UNCHANGED lvars
    <3>1. UNCHANGED lvars
      BY <2>8 DEF Quiet
    <3> QED
      BY <3>1 DEF lvars, ReaderInv
  <2> QED
    BY <2>3, <2>4, <2>5, <2>6, <2>7, <2>8 DEF Next
<1>3. LineReaderTypeOK /\ ReaderInv => LinesExact
  <2> SUFFICES ASSUME LineReaderTypeOK, ReaderInv, ~halved
               PROVE  /\ Len(lines) <= Cardinality(LFs)
                      /\ \A k \in 1..Len(lines) : lines[k] = sentLine(k)
                      /\ status = "tooLong" => Len(pendingLine) > MaxLineLength
    BY DEF LinesExact, asSent
  <2>1. LFs = lfs(input)
    BY DEF LFs, lfs
  <2>2. ASSUME NEW k PROVE lfAt(k) = lfOf(input, k)
    BY <2>1 DEF lfAt, lfOf, upToLF
  <2>3. ASSUME NEW k PROVE sentLine(k) = sentOf(input, k)
    BY <2>2 DEF sentLine, sentOf, dropCR
  <2>4. pendingLine = pendingOf(input, Len(lines))
    BY <2>1, <2>2, <2>3 DEF pendingLine, pendingOf, dropCR
  <2>5. Progress(input, pos, rbuf, line, lines, status)
    BY DEF ReaderInv
  <2>6. Len(lines) <= Cardinality(LFs)
    <3>1. PICK s \in Seq(Octets) : s = input
      BY DEF LineReaderTypeOK, Octets
    <3>m. PICK m : m = Len(lines)
      OBVIOUS
    <3>2. PICK p \in Nat : m = Len(lines) /\ isLF(s, m, p)
      BY <2>5, <3>1, <3>m DEF Progress
    <3>3. m <= Cardinality(lfs(s))
      BY <3>2, LFWhere
    <3> QED
      BY <2>1, <3>1, <3>2, <3>3
  <2>7. \A k \in 1..Len(lines) : lines[k] = sentLine(k)
    BY <2>3, <2>5 DEF Progress
  <2>8. status = "tooLong" => Len(pendingLine) > MaxLineLength
    BY <2>4, <2>5 DEF Progress
  <2> QED
    BY <2>6, <2>7, <2>8
<1> QED
  BY <1>1, <1>2, <1>3, ReaderTyped, PTL DEF Spec
=============================================================================
