---------------------------- MODULE ClientProofs ----------------------------
(***************************************************************************)
(* Proofs about module Client, for any number of operations, responses of  *)
(* any length, every kind of context and every way to connect.  The types, *)
(* the stop functions and the origin of the deadlines need no further      *)
(* hypothesis.  What is said of answers holds with every kind of context   *)
(* when a read never finds half a line (~Split), and otherwise when no     *)
(* context has a deadline (NoDeadlines).                                   *)
(***************************************************************************)
EXTENDS Client, SequenceTheorems, TLAPS

------------------------------------------------------------------------------
(* The inductive invariant.                                                  *)

\* No context has a deadline, and none is cancelled but while its operation runs.
NoDeadlines == "deadline" \notin Kinds /\ CancelWhen \subseteq {"inFlight"}

\* The operation in flight has not called its stop function.
unfinished == pc \in {"handshake", "armWrite", "write", "armRead", "read"} \/ body.stop

\* Where the goroutine is, and for which operation.
ControlOK ==
    /\ pc \notin {"start", "closed"} => op >= 1
    /\ pc = "start" => op = 0 /\ cmd = "dial"
    /\ cmd = "user" => op < MaxOps
    /\ cmd \in {"dial", "stls"} => op <= 1
    /\ pc \in {"handshake", "armWrite", "write"} => want = "status"
    /\ pc = "handshake" => cmd \in {"dial", "stls"}
    /\ pc = "held" \/ (pc \in {"armRead", "read"} /\ want # "status") => cmd \in {"multi", "body"}
    /\ body.done = ~body.stop
    /\ body.stop => pc = "held" \/ (pc \in {"armRead", "read"} /\ want \in {"body", "drain"})
    /\ pc \in {"armRead", "read"} /\ want \in {"body", "drain"} => body.stop

\* Which stop functions have been called.
StopsOK ==
    /\ GuardStoppedOnce
    /\ \A g \in Guards : g > op => stops[g] = 0
    /\ unfinished => stops[op] = 0
    /\ cmd = "dial" \/ (cmd = "stls" /\ pc \in {"armWrite", "write", "armRead", "read"})
         => stops[0] = 0

\* Without deadlines, the connection's deadline is in the past only when the caller
\* cancelled the operation in flight and gave the Client up.
DeadlineOK ==
    /\ passed = {} /\ \A c \in Ops : kind[c] # "deadline"
    /\ rdl = wdl /\ rdl \in {0, -1}
    /\ rdl = -1 \/ cancelled # {} => givenUp
    /\ givenUp => ctx[op] \in cancelled /\ pc \notin {"start", "relay"} /\ op >= 1
    /\ unfinished => guard[op] # "stopped" /\ (guard[op] = "ended" => rdl = -1)
    /\ \A g \in Guards : g > op => guard[g] = "none"
    /\ \A t \in timedOut : t[1] \in 1..op /\ ctx[t[1]] \in cancelled

\* Every deadline on the connection is that of a context of the caller's, or was
\* forced into the past by the guard of one that is done.
explained(d) == d = 0 \/ (d = -1 /\ doneBy(op)) \/ \E o \in 1..op : d = ctx[o]

OriginOK ==
    /\ explained(rdl) /\ explained(wdl)
    /\ unfinished => guard[op] # "stopped" /\ (guard[op] = "ended" => rdl = -1 \/ hasDeadline)
    /\ (\A g \in Guards : g > op => guard[g] = "none") /\ (guard[0] # "none" => op >= 1)
    /\ pc = "read" /\ hasDeadline => rdl \in {-1, ctx[op]}
    /\ pc = "relay" /\ ~doneBy(op) => rdl = 0 /\ wdl = 0
    /\ \A t \in timedOut : t[1] \in 1..op /\ doneBy(t[1])

\* The lines still to come: read, on the way, and not sent yet.
stream == buf \o (net \o todo)

\* Lines of an answer to operation o, sent under TLS if b,
ours(s, o, b) == \A i \in 1..Len(s) : s[i].op = o /\ s[i].tls = b

\* ... the halves of a line follow each other,
paired(s) ==
    /\ s # <<>> => s[1].part # "tail"
    /\ \A i \in 1..Len(s) :
          s[i].part = "head" => i < Len(s) /\ s[i + 1] = [s[i] EXCEPT !.part = "tail"]
    /\ \A i \in 2..Len(s) : s[i].part = "tail" => s[i - 1].part = "head"
    /\ ~Split => \A i \in 1..Len(s) : s[i].part = "whole"

\* ... and the line that completes command c is the last.
lastOf(l, c) == l.kind \in {"dot", "err"} \/ (l.kind = "ok" /\ c \in {"dial", "status", "user"})

endsOnce(s, c) == \A i \in 1..Len(s) : s[i].part # "head" /\ lastOf(s[i], c) => i = Len(s)

\* What is left of an answer to command c of operation o.
answers(s, o, b, c) ==
    /\ s \in Seq(Line) /\ ours(s, o, b) /\ paired(s)
    /\ c # "stls" => endsOnce(s, c)

\* Nothing will be read any more.
stuck ==
    /\ buf = <<>>
    /\ (NoDeadlines /\ rdl = -1 /\ wdl = -1) \/ (gone /\ net = <<>>)

AnswerOK ==
    /\ answers(stream, op, secure, cmd)
    /\ pc # "held" /\ want = "status" /\ stream # <<>> => stream[1].kind \in {"ok", "err"}
    /\ pc = "held" /\ body.done => stream = <<>>

StreamOK ==
    \/ pc \in {"broken", "closed"}
    \/ stuck
    \/ pc \in {"start", "idle", "relay", "armWrite", "write"} /\ stream = <<>>
    \/ pc \in {"armRead", "read", "held"} /\ AnswerOK
    \/ pc = "handshake" /\ (cmd = "dial" => stream = <<>>)

------------------------------------------------------------------------------
(* What the server may answer.                                               *)

LineKinds == {"ok", "err", "text", "dot"}

\* A line that answers an operation is a line.
LEMMA LineTyped ==
    ASSUME secure \in BOOLEAN, NEW o \in Ops, NEW k \in LineKinds
    PROVE  /\ line(o, k) \in Line
           /\ line(o, k).op = o /\ line(o, k).kind = k
           /\ line(o, k).part = "whole" /\ line(o, k).tls = secure
BY DEF line, Line, LineKinds

\* A good answer with n lines behind the status line.
okLines(o, n) == <<line(o, "ok")>> \o [i \in 1..n |-> line(o, "text")]

\* Its first line and its other lines.
LEMMA OkLines ==
    ASSUME secure \in BOOLEAN, NEW o \in Ops, NEW n \in Nat
    PROVE  /\ okLines(o, n) \in Seq(Line) /\ Len(okLines(o, n)) = n + 1
           /\ okLines(o, n)[1] = line(o, "ok")
           /\ \A i \in 2..(n + 1) : okLines(o, n)[i] = line(o, "text")
<1> DEFINE a == <<line(o, "ok")>>
           b == [i \in 1..n |-> line(o, "text")]
<1>1. line(o, "ok") \in Line /\ line(o, "text") \in Line
  BY LineTyped DEF LineKinds
<1>2. a \in Seq(Line) /\ Len(a) = 1 /\ a[1] = line(o, "ok")
  BY <1>1
<1>3. b \in Seq(Line) /\ Len(b) = n /\ \A i \in 1..n : b[i] = line(o, "text")
  BY <1>1
<1>4. okLines(o, n) = a \o b
  BY DEF okLines
<1> HIDE DEF a, b
<1>5. /\ a \o b \in Seq(Line) /\ Len(a \o b) = Len(a) + Len(b)
      /\ \A i \in 1..(Len(a) + Len(b)) :
            (a \o b)[i] = IF i <= Len(a) THEN a[i] ELSE b[i - Len(a)]
  BY <1>2, <1>3, ConcatProperties
<1>6. Len(a \o b) = n + 1 /\ (a \o b)[1] = line(o, "ok")
  BY <1>2, <1>3, <1>5
<1>7. \A i \in 2..(n + 1) : (a \o b)[i] = line(o, "text")
  BY <1>2, <1>3, <1>5
<1> QED
  BY <1>4, <1>5, <1>6, <1>7

\* An answer r to command c of operation o.
isAnswer(r, o, c) ==
    /\ r \in Seq(Line) /\ r # <<>> /\ r[1].kind \in {"ok", "err"}
    /\ \A i \in 1..Len(r) : r[i].op = o /\ r[i].tls = secure /\ r[i].part = "whole"
    /\ c # "stls" => \A i \in 1..Len(r) : lastOf(r[i], c) => i = Len(r)

\* Everything the server may answer has this shape.
LEMMA AnswerShape ==
    ASSUME secure \in BOOLEAN, NEW o \in Ops, NEW c,
           NEW r \in replies(o, c)
    PROVE  isAnswer(r, o, c)
<1> DEFINE e == line(o, "err")
           d == line(o, "dot")
<1>1. r = <<e>> \/ (c \notin {"multi", "body"} /\ r = okLines(o, 0))
      \/ (c = "stls" /\ r = okLines(o, 1))
      \/ (c \in {"multi", "body"} /\ \E n \in 0..MaxBody : r = Append(okLines(o, n), d))
  BY DEF replies, okLines
<1>2. CASE r = <<e>>
  <2>1. e \in Line /\ e.op = o /\ e.kind = "err" /\ e.part = "whole" /\ e.tls = secure
    BY LineTyped DEF LineKinds
  <2> HIDE DEF e
  <2>2. r \in Seq(Line) /\ Len(r) = 1 /\ r[1] = e
    BY <1>2, <2>1
  <2> QED
    BY <2>1, <2>2 DEF isAnswer
<1>3. ASSUME NEW n \in 0..1, r = okLines(o, n), n = 1 => c = "stls", c \notin {"multi", "body"}
      PROVE  isAnswer(r, o, c)
  <2>1. /\ r \in Seq(Line) /\ Len(r) = n + 1 /\ r[1] = line(o, "ok")
        /\ \A i \in 2..(n + 1) : r[i] = line(o, "text")
    <3>1. n \in Nat
      BY <1>3
    <3>2. /\ okLines(o, n) \in Seq(Line) /\ Len(okLines(o, n)) = n + 1
          /\ okLines(o, n)[1] = line(o, "ok")
          /\ \A i \in 2..(n + 1) : okLines(o, n)[i] = line(o, "text")
      BY <3>1, OkLines
    <3> QED
      BY <1>3, <3>2, Zenon
  <2>2. \A k \in LineKinds : /\ line(o, k).op = o /\ line(o, k).kind = k
                             /\ line(o, k).part = "whole" /\ line(o, k).tls = secure
    BY LineTyped
  <2>3. \A i \in 1..Len(r) : i = 1 \/ i \in 2..(n + 1)
    BY <2>1
  <2>4. r[1].kind = "ok" /\ r # <<>>
    BY <2>1, <2>2 DEF LineKinds
  <2>5. \A i \in 1..Len(r) : r[i].op = o /\ r[i].tls = secure /\ r[i].part = "whole"
    BY <2>1, <2>2, <2>3 DEF LineKinds
  <2>6. c # "stls" => \A i \in 1..Len(r) : i = Len(r)
    BY <1>3, <2>1
  <2> QED
    BY <2>1, <2>4, <2>5, <2>6 DEF isAnswer
<1>4. ASSUME NEW n \in 0..MaxBody, r = Append(okLines(o, n), d), c \in {"multi", "body"}
      PROVE  isAnswer(r, o, c)
  <2> DEFINE b == okLines(o, n)
  <2>0. n \in Nat
    BY ClientAssumption
  <2>1. /\ b \in Seq(Line) /\ Len(b) = n + 1 /\ b[1] = line(o, "ok")
        /\ \A i \in 2..(n + 1) : b[i] = line(o, "text")
    BY <2>0, OkLines
  <2>2. d \in Line /\ d.op = o /\ d.kind = "dot" /\ d.part = "whole" /\ d.tls = secure
    BY LineTyped DEF LineKinds
  <2>3. \A k \in LineKinds : /\ line(o, k).op = o /\ line(o, k).kind = k
                             /\ line(o, k).part = "whole" /\ line(o, k).tls = secure
    BY LineTyped
  <2> HIDE DEF b, d
  <2>4. /\ r \in Seq(Line) /\ Len(r) = n + 2 /\ r[n + 2] = d
        /\ \A i \in 1..(n + 1) : r[i] = b[i]
    BY <1>4, <2>0, <2>1, <2>2 DEF b, d
  <2>5. \A i \in 1..Len(r) : i = 1 \/ i \in 2..(n + 1) \/ i = n + 2
    BY <2>0, <2>4
  <2>6. 1 \in 1..(n + 1) /\ \A i \in 2..(n + 1) : i \in 1..(n + 1)
    BY <2>0
  <2>7. r[1] = line(o, "ok") /\ \A i \in 2..(n + 1) : r[i] = line(o, "text")
    BY <2>1, <2>4, <2>6
  <2>8. r[1].kind = "ok" /\ r # <<>>
    BY <2>0, <2>3, <2>4, <2>7 DEF LineKinds
  <2>9. \A i \in 1..Len(r) : r[i].op = o /\ r[i].tls = secure /\ r[i].part = "whole"
    BY <2>2, <2>3, <2>4, <2>5, <2>7 DEF LineKinds
  <2>10. \A i \in 1..Len(r) : lastOf(r[i], c) => i = Len(r)
    <3> SUFFICES ASSUME NEW i \in 1..Len(r), lastOf(r[i], c), i # n + 2
                 PROVE  FALSE
      BY <2>4
    <3>1. r[i] = line(o, "ok") \/ r[i] = line(o, "text")
      BY <2>5, <2>7
    <3>2. r[i].kind = "ok" \/ r[i].kind = "text"
      BY <2>3, <3>1 DEF LineKinds
    <3> QED
      BY <1>4, <3>2 DEF lastOf
  <2> QED
    BY <2>4, <2>8, <2>9, <2>10 DEF isAnswer
<1> QED
  BY <1>1, <1>2, <1>3, <1>4

------------------------------------------------------------------------------
(* What becomes of a line.                                                   *)

TooLong ==
    /\ Stop({op})
    /\ pc' = "closed"
    /\ UNCHANGED <<op, cmd, want, lines, body, ctx, dlVars>>

MoreLines ==
    /\ ~tooMany(lines + 1)
    /\ lines' = lines + 1
    /\ pc' = "armRead"
    /\ UNCHANGED <<op, cmd, want, body, ctx, guardVars, dlVars>>

\* The line completes the operation.
completes(l) ==
    IF want = "status" THEN FALSE \in isOK(l) \/ cmd \in {"dial", "status", "user"}
                       ELSE TRUE \in isDot(l)

\* A line of a body is its last, or not.
BodyEnds ==
    /\ finish
    /\ pc' = IF want = "body" THEN "held" ELSE "idle"
    /\ UNCHANGED <<op, cmd, want, lines, ctx, dlVars>>

BodyGoesOn ==
    /\ pc' = IF want = "body" THEN "held" ELSE "armRead"
    /\ UNCHANGED <<op, cmd, want, lines, body, ctx, guardVars, dlVars>>

Outcome(l) ==
    \/ want \in {"status", "lines"} /\ cmd # "stls" /\ completes(l) /\ Complete
    \/ want = "status" /\ Refuse
    \/ want = "status" /\ cmd = "dial" /\ StartSTLS
    \/ want = "status" /\ cmd = "stls" /\ StartHandshake
    \/ want = "status" /\ cmd = "user" /\ SendPass
    \/ want = "status" /\ cmd = "multi" /\ ReadLines
    \/ want = "status" /\ cmd = "body" /\ GiveBody
    \/ want = "lines" /\ (TooLong \/ MoreLines)
    \/ want \in {"body", "drain"} /\ completes(l) /\ BodyEnds
    \/ want \in {"body", "drain"} /\ BodyGoesOn

\* Whatever readLine was called for, a line has one of these outcomes.
LEMMA AcceptOutcome ==
    ASSUME ClientTypeOK, ControlOK, pc = "read", NEW l, Accept(l)
    PROVE  /\ Outcome(l)
           /\ last' = [line |-> l, op |-> op, tls |-> secure]
           /\ UNCHANGED <<mode, kind, cancelled, passed, secure, todo, net, gone, timedOut,
                          givenUp>>
<1>1. /\ last' = [line |-> l, op |-> op, tls |-> secure]
      /\ UNCHANGED <<mode, kind, cancelled, passed, secure, todo, net, gone, timedOut, givenUp>>
  BY DEF Accept
<1>2. CASE want = "status"
  <2>1. PICK ok \in isOK(l) : Status(ok)
    BY <1>2 DEF Accept
  <2>2. isOK(l) \subseteq BOOLEAN
    BY DEF isOK
  <2>3. cmd \in {"dial", "stls", "status", "user", "multi", "body"}
    BY DEF ClientTypeOK
  <2>4. CASE ~ok
    <3>1. FALSE \in isOK(l)
      BY <2>1, <2>2, <2>4
    <3>2. IF cmd \in {"dial", "stls"} THEN Refuse ELSE Complete
      BY <2>1, <2>4 DEF Status
    <3> QED
      BY <1>1, <1>2, <3>1, <3>2 DEF Outcome, completes
  <2>5. CASE ok
    <3>1. \/ cmd = "dial" /\ IF mode = "starttls" THEN StartSTLS ELSE Complete
          \/ cmd = "stls" /\ StartHandshake
          \/ cmd = "status" /\ Complete
          \/ cmd = "user" /\ SendPass
          \/ cmd = "multi" /\ ReadLines
          \/ cmd = "body" /\ GiveBody
      BY <2>1, <2>3, <2>5 DEF Status
    <3> QED
      BY <1>1, <1>2, <3>1 DEF Outcome, completes
  <2> QED
    BY <2>4, <2>5
<1>3. CASE want = "lines"
  <2>0. isDot(l) \subseteq BOOLEAN
    BY DEF isDot
  <2>1. PICK end \in isDot(l) : MultiLine(end)
    BY <1>3 DEF Accept
  <2>2. cmd # "stls"
    BY <1>3 DEF ControlOK
  <2>3. CASE end
    <3>1. Complete /\ TRUE \in isDot(l)
      BY <2>0, <2>1, <2>3 DEF MultiLine
    <3> QED
      BY <1>1, <1>3, <2>2, <3>1 DEF Outcome, completes
  <2>4. CASE ~end
    <3>1. TooLong \/ MoreLines
      BY <2>1, <2>4 DEF MultiLine, TooLong, MoreLines
    <3> QED
      BY <1>1, <1>3, <3>1 DEF Outcome
  <2> QED
    BY <2>3, <2>4
<1>4. CASE want \in {"body", "drain"}
  <2>0. isDot(l) \subseteq BOOLEAN
    BY DEF isDot
  <2>1. PICK end \in isDot(l) : IF want = "body" THEN BodyLine(end) ELSE DrainLine(end)
    BY <1>4 DEF Accept
  <2>2. CASE end
    <3>1. BodyEnds /\ TRUE \in isDot(l)
      BY <1>4, <2>0, <2>1, <2>2 DEF BodyLine, DrainLine, BodyEnds
    <3> QED
      BY <1>1, <1>4, <3>1 DEF Outcome, completes
  <2>3. CASE ~end
    <3>1. BodyGoesOn
      BY <1>4, <2>1, <2>3 DEF BodyLine, DrainLine, BodyGoesOn
    <3> QED
      BY <1>1, <1>4, <3>1 DEF Outcome
  <2> QED
    BY <2>2, <2>3
<1> QED
  BY <1>2, <1>3, <1>4 DEF ClientTypeOK

------------------------------------------------------------------------------
(* Types and control.                                                        *)

\* Calling stop functions keeps the types.
LEMMA StopTyped ==
    ASSUME ClientTypeOK, NEW gs, Stop(gs)
    PROVE  /\ guard' \in [Guards -> {"none", "armed", "stopped", "ended"}]
           /\ stops' \in [Guards -> Nat]
BY DEF ClientTypeOK, Stop, stopped

\* bodyReader.finish: the body is done, its stop function called and forgotten.
LEMMA FinishTyped ==
    ASSUME ClientTypeOK, finish
    PROVE  /\ body' \in [done : BOOLEAN, stop : BOOLEAN] /\ body'.done /\ ~body'.stop
           /\ guard' \in [Guards -> {"none", "armed", "stopped", "ended"}]
           /\ stops' \in [Guards -> Nat]
BY StopTyped DEF finish

\* A failed operation ends its guards, and the body reader its own.
LEMMA FailTyped ==
    ASSUME ClientTypeOK, ControlOK, NEW next, Fail(next)
    PROVE  /\ body' \in [done : BOOLEAN, stop : BOOLEAN]
           /\ body'.done = ~body'.stop
           /\ pc \in {"handshake", "write", "read"} => ~body'.stop
           /\ guard' \in [Guards -> {"none", "armed", "stopped", "ended"}]
           /\ stops' \in [Guards -> Nat]
           /\ pc' = next
           /\ UNCHANGED <<op, cmd, want, lines, mode, ctxVars, dlVars, secure, todo, net, gone,
                          last, givenUp>>
<1>1. CASE want \in {"body", "drain"}
  BY <1>1, FinishTyped DEF Fail
<1>2. CASE want \notin {"body", "drain"}
  BY <1>2, StopTyped DEF Fail, ClientTypeOK, ControlOK
<1> QED
  BY <1>1, <1>2

\* Once the client has dialled there is an operation, with a context.
LEMMA DeadlineTyped ==
    ASSUME ClientTypeOK, ControlOK, pc \notin {"start", "closed"}
    PROVE  op \in Ops /\ ctx[op] \in Ops
BY ClientAssumption DEF ClientTypeOK, ControlOK, Ops

\* A guard that is armed is in a state of a guard.
LEMMA ArmedTyped == \A k : armedGuard(k) \in {"none", "armed", "stopped", "ended"}
BY DEF armedGuard

\* The context given to the next operation.
LEMMA ContextTyped ==
    ASSUME ClientTypeOK, NEW o \in Ops, GiveContext(o)
    PROVE  /\ kind' \in [Ops -> Kinds \cup {"background"}] /\ ctx' \in [Ops -> Ops]
           /\ \A p \in Ops : p # o => ctx'[p] = ctx[p]
<1>1. o > 1 => o - 1 \in Ops
  BY ClientAssumption DEF Ops
<1>2. /\ kind \in [Ops -> Kinds \cup {"background"}] /\ ctx \in [Ops -> Ops]
  BY DEF ClientTypeOK
<1>3. CASE \E k \in Kinds : kind' = [kind EXCEPT ![o] = k] /\ ctx' = [ctx EXCEPT ![o] = o]
  BY <1>2, <1>3
<1>4. CASE o > 1 /\ kind' = kind /\ ctx' = [ctx EXCEPT ![o] = ctx[o - 1]]
  <2>1. ctx[o - 1] \in Ops
    BY <1>1, <1>2, <1>4
  <2> QED
    BY <1>2, <1>4, <2>1
<1> QED
  BY <1>3, <1>4 DEF GiveContext

\* One half of a line, or both, is a line.
LEMMA PartTyped ==
    ASSUME NEW l \in Line, NEW p \in {"whole", "head", "tail"}
    PROVE  /\ [l EXCEPT !.part = p] \in Line
           /\ [l EXCEPT !.part = p].part = p
           /\ [l EXCEPT !.part = p].op = l.op /\ [l EXCEPT !.part = p].kind = l.kind
           /\ [l EXCEPT !.part = p].tls = l.tls
BY DEF Line

\* Every outcome of a line keeps types and control.
LEMMA OutcomeTyped ==
    ASSUME ClientTypeOK, ControlOK, pc = "read", NEW l, Outcome(l),
           UNCHANGED <<mode, kind, cancelled, passed, secure, todo, net, gone, timedOut, givenUp>>
    PROVE  /\ pc' \in {"handshake", "armWrite", "armRead", "held", "idle", "closed"}
           /\ op' \in 0..MaxOps
           /\ cmd' \in {"dial", "stls", "status", "user", "multi", "body"}
           /\ want' \in {"status", "lines", "body", "drain"}
           /\ lines' \in 0..MaxResponseLines
           /\ body' \in [done : BOOLEAN, stop : BOOLEAN]
           /\ ctx' \in [Ops -> Ops]
           /\ guard' \in [Guards -> {"none", "armed", "stopped", "ended"}]
           /\ stops' \in [Guards -> Nat]
           /\ rdl' \in {-1, 0} \cup Ops /\ wdl' \in {-1, 0} \cup Ops
           /\ ControlOK'
<1> USE DEF callVars, ctxVars, guardVars, dlVars, netVars, histVars
<1>0. op \in Ops /\ ctx[op] \in Ops /\ op >= 1
  BY DeadlineTyped DEF ControlOK
<1>1. CASE want \in {"status", "lines"} /\ (Complete \/ Refuse \/ TooLong)
  <2>1. /\ guard' \in [Guards -> {"none", "armed", "stopped", "ended"}]
        /\ stops' \in [Guards -> Nat]
    BY <1>1, StopTyped DEF Complete, Refuse, TooLong
  <2>2. pc' \in {"idle", "closed"} /\ UNCHANGED <<op, cmd, want, lines, body, ctx, dlVars>>
    BY <1>1 DEF Complete, Refuse, TooLong
  <2>3. ~body.stop
    BY <1>1 DEF ControlOK
  <2> QED
    BY <1>0, <2>1, <2>2, <2>3 DEF ClientTypeOK, ControlOK
<1>2. CASE want = "status" /\ cmd = "dial" /\ StartSTLS
  BY <1>0, <1>2, ArmedTyped DEF StartSTLS, ClientTypeOK, ControlOK
<1>3. CASE want = "status" /\ cmd = "stls" /\ StartHandshake
  <2>1. /\ guard' \in [Guards -> {"none", "armed", "stopped", "ended"}]
        /\ stops' \in [Guards -> Nat]
    BY <1>3, StopTyped DEF StartHandshake
  <2>2. pc' = "handshake" /\ UNCHANGED <<op, cmd, want, lines, body, ctx>>
    BY <1>3 DEF StartHandshake
  <2>5. rdl' \in {-1, 0} \cup Ops /\ wdl' \in {-1, 0} \cup Ops
    BY <1>0, <1>3 DEF StartHandshake, ClientTypeOK
  <2>3. op = 1 /\ ~body.stop
    BY <1>0, <1>3 DEF ControlOK, ClientTypeOK
  <2>4. ControlOK'
    BY <1>0, <1>3, <2>2, <2>3 DEF ControlOK
  <2> QED
    BY <2>1, <2>2, <2>4, <2>5 DEF ClientTypeOK
<1>4. CASE want = "status" /\ cmd = "user" /\ SendPass
  <2>1. op + 1 \in Ops /\ op + 1 \in 0..MaxOps /\ op + 1 \in Guards /\ op \in Guards
    BY <1>0, <1>4, ClientAssumption DEF Ops, Guards, ControlOK
  <2>2. stops[op] + 1 \in Nat
    BY <2>1 DEF ClientTypeOK
  <2>3. stopped({op}) \in [Guards -> {"none", "armed", "stopped", "ended"}]
    BY DEF stopped, ClientTypeOK
  <2>4. /\ guard' \in [Guards -> {"none", "armed", "stopped", "ended"}]
        /\ stops' \in [Guards -> Nat]
    BY <1>4, <2>1, <2>2, <2>3, ArmedTyped DEF SendPass, ClientTypeOK
  <2>5. ctx' \in [Ops -> Ops]
    BY <1>0, <1>4, <2>1 DEF SendPass, ClientTypeOK
  <2>6. ControlOK'
    BY <1>0, <1>4, <2>1 DEF SendPass, ControlOK, ClientTypeOK
  <2> QED
    BY <1>4, <2>1, <2>4, <2>5, <2>6 DEF SendPass, ClientTypeOK
<1>5. CASE want = "status" /\ cmd = "multi" /\ ReadLines
  <2>1. lines' \in 0..MaxResponseLines
    BY <1>5, ClientAssumption DEF ReadLines
  <2>2. UNCHANGED <<op, cmd, body, ctx, guardVars, dlVars>> /\ pc' = "armRead" /\ want' = "lines"
    BY <1>5 DEF ReadLines
  <2>3. ControlOK'
    BY <1>0, <1>5, <2>2 DEF ControlOK
  <2> QED
    BY <2>1, <2>2, <2>3 DEF ClientTypeOK
<1>9. CASE want = "status" /\ cmd = "body" /\ GiveBody
  <2>1. body' \in [done : BOOLEAN, stop : BOOLEAN] /\ ~body'.done /\ body'.stop
    BY <1>9 DEF GiveBody
  <2>2. UNCHANGED <<op, cmd, want, lines, ctx, guardVars, dlVars>> /\ pc' = "held"
    BY <1>9 DEF GiveBody
  <2>3. ControlOK'
    BY <1>0, <1>9, <2>1, <2>2 DEF ControlOK
  <2> QED
    BY <2>1, <2>2, <2>3 DEF ClientTypeOK
<1>6. CASE want = "lines" /\ MoreLines
  <2>1. lines + 1 \in 0..MaxResponseLines
    BY <1>6, ClientAssumption DEF MoreLines, tooMany, ClientTypeOK
  <2> QED
    BY <1>0, <1>6, <2>1 DEF MoreLines, ClientTypeOK, ControlOK
<1>7. CASE want \in {"body", "drain"} /\ BodyEnds
  BY <1>0, <1>7, FinishTyped DEF BodyEnds, ClientTypeOK, ControlOK
<1>8. CASE want \in {"body", "drain"} /\ BodyGoesOn
  BY <1>0, <1>8 DEF BodyGoesOn, ClientTypeOK, ControlOK
<1> QED
  BY <1>1, <1>2, <1>3, <1>4, <1>5, <1>6, <1>7, <1>8, <1>9 DEF Outcome

\* What the caller's goroutine, the guards and the server leave in place.
LEMMA TypeFrame ==
    ASSUME ClientTypeOK, UNCHANGED <<mode, kind, cancelled, passed, secure, gone, timedOut, givenUp>>,
           UNCHANGED <<todo, net>>,
           pc' \in {"handshake", "armWrite", "armRead", "held", "idle", "closed"},
           op' \in 0..MaxOps,
           cmd' \in {"dial", "stls", "status", "user", "multi", "body"},
           want' \in {"status", "lines", "body", "drain"},
           lines' \in 0..MaxResponseLines,
           body' \in [done : BOOLEAN, stop : BOOLEAN],
           ctx' \in [Ops -> Ops],
           guard' \in [Guards -> {"none", "armed", "stopped", "ended"}],
           stops' \in [Guards -> Nat],
           rdl' \in {-1, 0} \cup Ops, wdl' \in {-1, 0} \cup Ops,
           buf' \in Seq(Line),
           last' \in [line : Line \cup {NoLine}, op : 0..MaxOps, tls : BOOLEAN]
    PROVE  ClientTypeOK'
BY DEF ClientTypeOK

\* A line taken from the buffer.
LEMMA TakenTyped ==
    ASSUME ClientTypeOK, ControlOK, TakeLine \/ TakeHalfLine
    PROVE  ClientTypeOK' /\ ControlOK'
<1>1. pc = "read" /\ buf # <<>> /\ buf \in Seq(Line) /\ buf[1] \in Line
  BY DEF TakeLine, TakeHalfLine, hasLine, halfLine, ClientTypeOK
<1>2. PICK l \in Line : Accept(l)
  <2>1. [buf[1] EXCEPT !.part = "whole"] \in Line
    BY <1>1, PartTyped
  <2> QED
    BY <1>1, <2>1 DEF TakeLine, TakeHalfLine
<1>3. buf' \in Seq(Line)
  <2>1. CASE TakeLine
    <3>1. \E n \in {1, 2} : buf' = SubSeq(buf, n + 1, Len(buf))
      BY <2>1 DEF TakeLine
    <3> QED
      BY <1>1, <3>1
  <2>2. CASE TakeHalfLine
    BY <2>2 DEF TakeHalfLine
  <2> QED
    BY <2>1, <2>2
<1>4. /\ Outcome(l) /\ last' = [line |-> l, op |-> op, tls |-> secure]
      /\ UNCHANGED <<mode, kind, cancelled, passed, secure, todo, net, gone, timedOut, givenUp>>
  BY <1>1, <1>2, AcceptOutcome
<1>5. last' \in [line : Line \cup {NoLine}, op : 0..MaxOps, tls : BOOLEAN]
  BY <1>2, <1>4 DEF ClientTypeOK
<1> QED
  BY <1>1, <1>3, <1>4, <1>5, OutcomeTyped, TypeFrame

\* The start of an operation.
LEMMA StartTyped ==
    ASSUME ClientTypeOK, ControlOK, NEW c \in {"status", "user", "multi", "body"},
           c = "user" => op + 1 < MaxOps, Start(c)
    PROVE  ClientTypeOK' /\ ControlOK'
<1> USE DEF callVars, ctxVars, guardVars, dlVars, netVars, histVars
<1>1. op + 1 \in Ops /\ op + 1 \in 0..MaxOps /\ op + 1 \in Guards /\ op >= 1
  BY ClientAssumption DEF Start, ControlOK, ClientTypeOK, Ops, Guards
<1>2. kind' \in [Ops -> Kinds \cup {"background"}] /\ ctx' \in [Ops -> Ops]
  BY <1>1, ContextTyped DEF Start
<1>3. guard' \in [Guards -> {"none", "armed", "stopped", "ended"}]
  BY <1>1, ArmedTyped DEF Start, Begin, ClientTypeOK
<1>4. /\ pc' = "armWrite" /\ op' = op + 1 /\ cmd' = c /\ want' = "status"
      /\ UNCHANGED <<lines, body, mode, cancelled, passed, stops, dlVars, netVars, histVars>>
  BY DEF Start, Begin
<1>5. ClientTypeOK'
  BY <1>1, <1>2, <1>3, <1>4 DEF ClientTypeOK
<1>6. ControlOK'
  BY <1>1, <1>4 DEF Start, ControlOK, ClientTypeOK
<1> QED
  BY <1>5, <1>6

\* The other steps of the caller.
LEMMA CallTyped ==
    ASSUME ClientTypeOK, ControlOK, Call
    PROVE  ClientTypeOK' /\ ControlOK'
<1> USE DEF callVars, ctxVars, guardVars, dlVars, netVars, histVars
<1>1. CASE Dial
  <2>1. 1 \in Ops /\ 1 \in 0..MaxOps /\ 1 \in Guards
    BY ClientAssumption DEF Ops, Guards
  <2>2. kind' \in [Ops -> Kinds \cup {"background"}] /\ ctx' \in [Ops -> Ops]
    BY <1>1, <2>1, ContextTyped DEF Dial
  <2>3. /\ op' = 1 /\ cmd' = "dial" /\ want' = "status" /\ pc' \in {"handshake", "armRead"}
        /\ UNCHANGED <<lines, body, mode, cancelled, passed, stops, secure, net, buf, gone,
                       histVars>>
    BY <1>1 DEF Dial
  <2>4. /\ guard' \in [Guards -> {"none", "armed", "stopped", "ended"}]
        /\ todo' \in Seq(Line) /\ rdl' \in {-1, 0} \cup Ops /\ wdl' \in {-1, 0} \cup Ops
    <3>1. CASE mode = "implicit"
      BY <1>1, <2>1, <3>1 DEF Dial, ClientTypeOK
    <3>2. CASE mode # "implicit"
      <4>1. todo' \in replies(1, "dial") /\ UNCHANGED dlVars
        BY <1>1, <3>2 DEF Dial
      <4>2. todo' \in Seq(Line)
        BY <2>1, <4>1, AnswerShape DEF isAnswer, ClientTypeOK
      <4>3. guard' \in [Guards -> {"none", "armed", "stopped", "ended"}]
        BY <1>1, <2>1, <3>2, ArmedTyped DEF Dial, ClientTypeOK
      <4> QED
        BY <4>1, <4>2, <4>3 DEF ClientTypeOK
    <3> QED
      BY <3>1, <3>2
  <2>5. ClientTypeOK'
    BY <2>1, <2>2, <2>3, <2>4 DEF ClientTypeOK
  <2>6. pc = "start"
    BY <1>1 DEF Dial
  <2>7. ControlOK'
    BY <2>1, <2>3, <2>6, ClientAssumption DEF ControlOK
  <2> QED
    BY <2>5, <2>7
<1>2. CASE DialFails \/ Close
  <2>1. pc' = "closed" /\ pc \in {"start", "idle", "relay"}
        /\ UNCHANGED <<op, cmd, want, lines, body, mode, ctxVars, guardVars, dlVars, netVars, histVars>>
    BY <1>2 DEF DialFails, Close
  <2>2. ClientTypeOK'
    BY <2>1 DEF ClientTypeOK
  <2> QED
    BY <2>1, <2>2 DEF ControlOK
<1>3. CASE Cmd \/ XClient \/ AuthPlain \/ User \/ Stat \/ ListOne \/ UidlOne \/ Dele
           \/ Capa \/ List \/ Uidl \/ retrieve
  BY <1>3, StartTyped DEF Cmd, XClient, AuthPlain, User, Stat, ListOne, UidlOne, Dele, Capa,
     List, Uidl, retrieve
<1>4. CASE ReadBody
  <2>1. /\ want' = "body" /\ pc' = "armRead" /\ pc = "held" /\ ~body.done
        /\ UNCHANGED <<op, cmd, lines, body, mode, ctxVars, guardVars, dlVars, netVars, histVars>>
    BY <1>4 DEF ReadBody
  <2>2. ClientTypeOK'
    BY <2>1 DEF ClientTypeOK
  <2>3. ControlOK'
    BY <2>1 DEF ControlOK, ClientTypeOK
  <2> QED
    BY <2>2, <2>3
<1>5. CASE CloseBody
  <2>1. pc \in {"held", "broken"} /\ UNCHANGED <<op, cmd, lines, mode, ctxVars, dlVars, netVars, histVars>>
    BY <1>5 DEF CloseBody
  <2>2. CASE body.done
    <3>1. finish /\ pc' \in {"closed", "idle"} /\ want' = want
      BY <1>5, <2>2 DEF CloseBody
    <3>2. ClientTypeOK'
      BY <2>1, <3>1, FinishTyped DEF ClientTypeOK
    <3>3. ControlOK'
      BY <2>1, <3>1, FinishTyped DEF ControlOK
    <3> QED
      BY <3>2, <3>3
  <2>3. CASE ~body.done
    <3>1. want' = "drain" /\ pc' = "armRead" /\ UNCHANGED <<body, guardVars>>
      BY <1>5, <2>3 DEF CloseBody
    <3>2. ClientTypeOK'
      BY <2>1, <3>1 DEF ClientTypeOK
    <3>3. pc = "held" /\ body.stop
      BY <2>1, <2>3 DEF ControlOK, ClientTypeOK
    <3>4. ControlOK'
      BY <2>1, <3>1, <3>3 DEF ControlOK
    <3> QED
      BY <3>2, <3>4
  <2> QED
    BY <2>2, <2>3
<1>6. CASE EnterRelay
  <2>1. /\ pc = "idle" /\ pc' = "relay" /\ rdl' = 0 /\ wdl' = 0
        /\ UNCHANGED <<op, cmd, want, lines, body, mode, ctxVars, guardVars, netVars, histVars>>
    BY <1>6 DEF EnterRelay
  <2>2. ClientTypeOK'
    BY <2>1 DEF ClientTypeOK
  <2> QED
    BY <2>1, <2>2 DEF ControlOK
<1> QED
  BY <1>1, <1>2, <1>3, <1>4, <1>5, <1>6 DEF Call

\* An operation that fails.
LEMMA FailKept ==
    ASSUME ClientTypeOK, ControlOK, pc \in {"handshake", "write", "read"},
           NEW next \in {"broken", "closed", "held"}, next = "held" => want = "body",
           Fail(next), UNCHANGED buf, timedOut' \subseteq Ops \X ({-1} \cup Ops)
    PROVE  ClientTypeOK' /\ ControlOK'
<1> USE DEF ctxVars, dlVars
<1>3. /\ body' \in [done : BOOLEAN, stop : BOOLEAN] /\ body'.done = ~body'.stop /\ ~body'.stop
      /\ guard' \in [Guards -> {"none", "armed", "stopped", "ended"}]
      /\ stops' \in [Guards -> Nat]
      /\ pc' = next
      /\ UNCHANGED <<op, cmd, want, lines, mode, ctxVars, dlVars, secure, todo, net, gone,
                     last, givenUp>>
  BY FailTyped
<1>4. ClientTypeOK'
  BY <1>3 DEF ClientTypeOK
<1>5. ControlOK'
  BY <1>3 DEF ControlOK
<1> QED
  BY <1>4, <1>5

\* Sequences of lines, as the connection carries them.
LEMMA HalfTyped ==
    ASSUME NEW s \in Seq(Line), s # <<>>
    PROVE  /\ [s EXCEPT ![1].part = "tail"] \in Seq(Line)
           /\ Len([s EXCEPT ![1].part = "tail"]) = Len(s)
           /\ [s EXCEPT ![1].part = "tail"][1] = [s[1] EXCEPT !.part = "tail"]
           /\ \A i \in 2..Len(s) : [s EXCEPT ![1].part = "tail"][i] = s[i]
<1>1. s[1] \in Line /\ 1 \in 1..Len(s)
  OBVIOUS
<1> DEFINE h == [s[1] EXCEPT !.part = "tail"]
<1>2. h \in Line
  BY <1>1, PartTyped
<1>3. [s EXCEPT ![1].part = "tail"] = [s EXCEPT ![1] = h]
  BY <1>1
<1> HIDE DEF h
<1>4. [s EXCEPT ![1] = h] \in Seq(Line) /\ Len([s EXCEPT ![1] = h]) = Len(s)
  BY <1>1, <1>2, ExceptSeq
<1>5. [s EXCEPT ![1] = h][1] = h /\ \A i \in 2..Len(s) : [s EXCEPT ![1] = h][i] = s[i]
  BY <1>1
<1> QED
  BY <1>3, <1>4, <1>5 DEF h

\* Types and control are kept by every step.
LEMMA TypeStep ==
    ASSUME ClientTypeOK, ControlOK, [Next]_cvars
    PROVE  ClientTypeOK' /\ ControlOK'
<1> USE DEF callVars, ctxVars, guardVars, dlVars, netVars, histVars
<1>1. CASE ArmWrite \/ ArmRead
  <2>1. op \in Ops /\ ctx[op] \in Ops
    BY <1>1, DeadlineTyped DEF ArmWrite, ArmRead
  <2>2. /\ rdl' \in {rdl, ctx[op]} /\ wdl' \in {wdl, ctx[op]}
        /\ \/ pc = "armWrite" /\ pc' = "write"
           \/ pc = "armRead" /\ pc' = "read"
        /\ UNCHANGED <<op, cmd, want, lines, body, mode, ctxVars, guardVars, netVars, histVars>>
    BY <1>1 DEF ArmWrite, ArmRead
  <2>3. ClientTypeOK'
    BY <2>1, <2>2 DEF ClientTypeOK
  <2>4. ControlOK'
    BY <2>2 DEF ControlOK
  <2> QED
    BY <2>3, <2>4
<1>2. CASE Write
  <2>1. op \in Ops
    BY <1>2, DeadlineTyped DEF Write
  <2>2. PICK r \in replies(op, cmd) : todo' = todo \o r
    BY <1>2 DEF Write
  <2>3. r \in Seq(Line)
    BY <2>1, AnswerShape DEF isAnswer, ClientTypeOK
  <2>4. todo' \in Seq(Line)
    BY <2>2, <2>3 DEF ClientTypeOK
  <2>5. /\ pc = "write" /\ pc' = "armRead"
        /\ UNCHANGED <<op, cmd, want, lines, body, mode, ctxVars, guardVars, dlVars, secure, net,
                       buf, gone, histVars>>
    BY <1>2 DEF Write
  <2>6. ClientTypeOK'
    BY <2>4, <2>5 DEF ClientTypeOK
  <2>7. ControlOK'
    BY <2>5 DEF ControlOK
  <2> QED
    BY <2>6, <2>7
<1>3. CASE WriteTimesOut \/ WriteFails \/ ReadTimesOut \/ LineTooLong \/ HandshakeFails
  <2>1. /\ pc \in {"handshake", "write", "read"} /\ Fail(brokenOff) /\ UNCHANGED buf
        /\ \/ timedOut' = timedOut
           \/ timedOut' = timedOut \cup {<<op, wdl>>} /\ expired(wdl)
           \/ timedOut' = timedOut \cup {<<op, rdl>>} /\ expired(rdl)
    BY <1>3 DEF WriteTimesOut, WriteFails, ReadTimesOut, LineTooLong, HandshakeFails, readTimedOut
  <2>2. PICK next \in {"broken", "closed"} : Fail(next)
    BY <2>1 DEF Fail, brokenOff
  <2>3. op \in Ops
    BY <2>1, DeadlineTyped
  <2>4. ASSUME NEW d, expired(d)
        PROVE  <<op, d>> \in Ops \X ({-1} \cup Ops)
    BY <2>3, <2>4 DEF expired, ClientTypeOK
  <2>5. timedOut \subseteq Ops \X ({-1} \cup Ops)
    BY DEF ClientTypeOK
  <2>6. expired(wdl) => <<op, wdl>> \in Ops \X ({-1} \cup Ops)
    BY <2>4, Zenon
  <2>7. expired(rdl) => <<op, rdl>> \in Ops \X ({-1} \cup Ops)
    BY <2>4, Zenon
  <2>8. timedOut' \subseteq Ops \X ({-1} \cup Ops)
    BY <2>1, <2>5, <2>6, <2>7, Zenon
  <2>9. next \in {"broken", "closed", "held"} /\ (next = "held" => want = "body")
    BY <2>2
  <2>10. pc \in {"handshake", "write", "read"} /\ UNCHANGED buf
    BY <2>1
  <2> QED
    BY <2>2, <2>8, <2>9, <2>10, FailKept
<1>4. CASE ReadFails
  <2>1. PICK next \in {brokenOff} \cup (IF want = "body" THEN {"held"} ELSE {}) : Fail(next)
    BY <1>4 DEF ReadFails
  <2>2. next \in {"broken", "closed", "held"} /\ (next = "held" => want = "body")
    BY <2>1 DEF brokenOff
  <2>3. pc = "read" /\ UNCHANGED <<buf, timedOut>>
    BY <1>4 DEF ReadFails
  <2>4. timedOut' \subseteq Ops \X ({-1} \cup Ops)
    BY <2>3 DEF ClientTypeOK
  <2>5. pc \in {"handshake", "write", "read"} /\ UNCHANGED buf
    BY <2>3
  <2> QED
    BY <2>1, <2>2, <2>4, <2>5, FailKept
<1>5. CASE Fill
  <2>1. PICK n \in 1..Len(net) : /\ buf' = buf \o SubSeq(net, 1, n)
                                 /\ net' = SubSeq(net, n + 1, Len(net))
    BY <1>5 DEF Fill
  <2>2. SubSeq(net, 1, n) \in Seq(Line) /\ SubSeq(net, n + 1, Len(net)) \in Seq(Line)
    BY DEF ClientTypeOK
  <2>3. buf' \in Seq(Line) /\ net' \in Seq(Line)
    BY <2>1, <2>2 DEF ClientTypeOK
  <2>4. UNCHANGED <<callVars, ctxVars, guardVars, dlVars, secure, todo, gone, histVars>>
    BY <1>5 DEF Fill
  <2>5. ClientTypeOK'
    BY <2>3, <2>4 DEF ClientTypeOK
  <2>6. ControlOK'
    BY <2>4 DEF ControlOK
  <2> QED
    BY <2>5, <2>6
<1>6. CASE TakeLine \/ TakeHalfLine
  BY <1>6, TakenTyped
<1>7. CASE Handshake
  <2>1. 1 \in Ops /\ 1 \in Guards
    BY ClientAssumption DEF Ops, Guards
  <2>2. /\ pc = "handshake" /\ pc' \in {"armRead", "idle"} /\ secure' = TRUE
        /\ UNCHANGED <<op, cmd, want, lines, body, mode, ctxVars, dlVars, net, gone, histVars>>
    BY <1>7 DEF Handshake
  <2>3. /\ guard' \in [Guards -> {"none", "armed", "stopped", "ended"}]
        /\ stops' \in [Guards -> Nat] /\ buf' \in Seq(Line) /\ todo' \in Seq(Line)
    <3>1. CASE cmd = "dial"
      <4>1. PICK r \in replies(1, "dial") :
               todo' = [i \in 1..Len(r) |-> [r[i] EXCEPT !.tls = TRUE]]
        BY <1>7, <3>1 DEF Handshake
      <4>2. r \in Seq(Line)
        BY <2>1, AnswerShape DEF isAnswer, ClientTypeOK
      <4>3. \A i \in 1..Len(r) : [r[i] EXCEPT !.tls = TRUE] \in Line
        <5>1. \A l \in Line : [l EXCEPT !.tls = TRUE] \in Line
          BY DEF Line
        <5>2. \A i \in 1..Len(r) : r[i] \in Line
          BY <4>2
        <5> QED
          BY <5>1, <5>2
      <4>4. todo' \in Seq(Line)
        BY <4>1, <4>2, <4>3
      <4>5. guard' \in [Guards -> {"none", "armed", "stopped", "ended"}]
        BY <1>7, <2>1, <3>1, ArmedTyped DEF Handshake, ClientTypeOK
      <4> QED
        BY <1>7, <3>1, <4>4, <4>5 DEF Handshake, ClientTypeOK
    <3>2. CASE cmd # "dial"
      <4>1. Stop({1}) /\ buf' = newReader /\ UNCHANGED todo
        BY <1>7, <3>2 DEF Handshake
      <4> QED
        BY <4>1, StopTyped DEF newReader, ClientTypeOK
    <3> QED
      BY <3>1, <3>2
  <2>4. ClientTypeOK'
    BY <2>2, <2>3 DEF ClientTypeOK
  <2>5. ControlOK'
    BY <2>2 DEF ControlOK
  <2> QED
    BY <2>4, <2>5
<1>8. CASE Call
  BY <1>8, CallTyped
<1>9. CASE Context
  <2>1. /\ cancelled' \subseteq Ops /\ passed' \subseteq Ops /\ givenUp' \in BOOLEAN
        /\ UNCHANGED <<callVars, ctx, kind, guardVars, dlVars, netVars, last, timedOut>>
    BY <1>9 DEF Context, Cancel, DeadlinePasses, ClientTypeOK
  <2>2. ClientTypeOK'
    BY <2>1 DEF ClientTypeOK
  <2>3. ControlOK'
    BY <2>1 DEF ControlOK
  <2> QED
    BY <2>2, <2>3
<1>10. CASE ServerAct
  <2>1. /\ todo' \in Seq(Line) /\ net' \in Seq(Line) /\ gone' \in BOOLEAN
        /\ UNCHANGED <<callVars, ctxVars, guardVars, dlVars, secure, buf, histVars>>
    <3>1. CASE ServerSends
      BY <3>1 DEF ServerSends, ClientTypeOK
    <3>2. CASE ServerSendsHalf
      <4>1. todo # <<>> /\ todo \in Seq(Line) /\ todo[1] \in Line /\ net \in Seq(Line)
        BY <3>2 DEF ServerSendsHalf, ClientTypeOK
      <4>2. [todo[1] EXCEPT !.part = "head"] \in Line
        BY <4>1, PartTyped
      <4>5. Head(todo) = todo[1]
        BY <4>1
      <4>3. todo' \in Seq(Line)
        BY <3>2, <4>1, HalfTyped DEF ServerSendsHalf
      <4>4. net' \in Seq(Line)
        BY <3>2, <4>1, <4>2, <4>5 DEF ServerSendsHalf
      <4> QED
        BY <3>2, <4>3, <4>4 DEF ServerSendsHalf, ClientTypeOK
    <3>3. CASE ServerCloses
      BY <3>3 DEF ServerCloses, ClientTypeOK
    <3> QED
      BY <1>10, <3>1, <3>2, <3>3 DEF ServerAct
  <2>2. ClientTypeOK'
    BY <2>1 DEF ClientTypeOK
  <2>3. ControlOK'
    BY <2>1 DEF ControlOK
  <2> QED
    BY <2>2, <2>3
<1>11. CASE \E g \in Guards : GuardStep(g)
  <2>1. /\ guard' \in [Guards -> {"none", "armed", "stopped", "ended"}]
        /\ rdl' \in {rdl, -1} /\ wdl' \in {wdl, -1}
        /\ UNCHANGED <<callVars, ctxVars, stops, netVars, histVars>>
    BY <1>11 DEF GuardStep, GuardFires, GuardEnds, ClientTypeOK
  <2>2. ClientTypeOK'
    BY <2>1 DEF ClientTypeOK
  <2>3. ControlOK'
    BY <2>1 DEF ControlOK
  <2> QED
    BY <2>2, <2>3
<1>12. CASE Terminated \/ UNCHANGED cvars
  <2>1. UNCHANGED cvars
    BY <1>12 DEF Terminated
  <2>2. ClientTypeOK'
    BY <2>1 DEF cvars, ClientTypeOK
  <2>3. ControlOK'
    BY <2>1 DEF cvars, ControlOK
  <2> QED
    BY <2>2, <2>3
<1> QED
  BY <1>1, <1>2, <1>3, <1>4, <1>5, <1>6, <1>7, <1>8, <1>9, <1>10, <1>11, <1>12 DEF Next, Step

------------------------------------------------------------------------------
(* Guards are stopped once.                                                  *)

\* The guard of the STLS command inside Dial is still to be stopped.
stlsGuarded == cmd = "dial" \/ (cmd = "stls" /\ pc \in {"armWrite", "write", "armRead", "read"})

\* A step that calls no stop function.
LEMMA NoneStopped ==
    ASSUME ClientTypeOK, StopsOK, stops' = stops, op' \in Nat, op' >= op,
           unfinished' => (op' > op /\ op' \in Guards) \/ (op' = op /\ unfinished),
           stlsGuarded' => stlsGuarded
    PROVE  StopsOK'
<1>1. GuardStoppedOnce' /\ \A g \in Guards : g > op' => stops'[g] = 0
  <2>1. \A g \in Guards : g \in Nat /\ op \in Nat
    BY DEF Guards, ClientTypeOK
  <2> QED
    BY <2>1 DEF StopsOK, GuardStoppedOnce
<1>2. unfinished' => stops'[op'] = 0
  BY DEF StopsOK, ClientTypeOK
<1>3. stlsGuarded' => stops'[0] = 0
  BY DEF StopsOK, stlsGuarded
<1> QED
  BY <1>1, <1>2, <1>3 DEF StopsOK, stlsGuarded

\* A step that calls stop functions not called before, and ends the operation or the
\* command inside it.
LEMMA SomeStopped ==
    ASSUME ClientTypeOK, StopsOK, NEW gs \in SUBSET Guards, Stop(gs),
           \A g \in gs : g <= op /\ stops[g] = 0, op' = op,
           unfinished' => unfinished /\ op \notin gs,
           stlsGuarded' => stlsGuarded /\ 0 \notin gs
    PROVE  StopsOK'
<1>0. /\ stops \in [Guards -> Nat] /\ op \in Guards /\ 0 \in Guards
      /\ \A g \in Guards : g \in Nat
  BY ClientAssumption DEF ClientTypeOK, Guards
<1>1. \A g \in Guards : stops'[g] = IF g \in gs THEN stops[g] + 1 ELSE stops[g]
  BY DEF Stop
<1>2. GuardStoppedOnce'
  BY <1>0, <1>1 DEF StopsOK, GuardStoppedOnce
<1>3. \A g \in Guards : g > op' => stops'[g] = 0
  BY <1>0, <1>1 DEF StopsOK
<1>4. unfinished' => stops'[op'] = 0
  BY <1>0, <1>1 DEF StopsOK
<1>5. stlsGuarded' => stops'[0] = 0
  BY <1>0, <1>1 DEF StopsOK, stlsGuarded
<1> QED
  BY <1>2, <1>3, <1>4, <1>5 DEF StopsOK, stlsGuarded

\* An operation that fails stops the guards of Dial, or its own, or the body reader's.
LEMMA FailStops ==
    ASSUME ClientTypeOK, ControlOK, StopsOK, pc \in {"handshake", "write", "read"},
           NEW next \in {"broken", "closed", "held"}, Fail(next)
    PROVE  StopsOK'
<1> USE DEF ctxVars, dlVars
<1>0. op \in Guards /\ op \in Nat /\ op >= 1 /\ 0 \in Guards
  BY ClientAssumption DEF ControlOK, ClientTypeOK, Guards
<1>1. ~body'.stop /\ pc' = next /\ UNCHANGED <<op, cmd>>
  BY FailTyped
<1>2. ~unfinished' /\ (stlsGuarded' => cmd = "dial")
  BY <1>1 DEF unfinished, stlsGuarded
<1>3. stops[op] = 0
  BY DEF StopsOK, unfinished
<1>4. CASE want \in {"body", "drain"}
  <2>1. Stop(IF body.stop THEN {op} ELSE {})
    BY <1>4 DEF Fail, finish
  <2>2. cmd # "dial"
    BY <1>4 DEF ControlOK
  <2>3. CASE body.stop
    <3>1. Stop({op})
      BY <2>1, <2>3
    <3> QED
      BY <1>0, <1>1, <1>2, <1>3, <2>2, <3>1, SomeStopped
  <2>4. CASE ~body.stop
    <3>1. Stop({})
      BY <2>1, <2>4
    <3> QED
      BY <1>0, <1>1, <1>2, <1>3, <2>2, <3>1, SomeStopped
  <2> QED
    BY <2>3, <2>4
<1>5. CASE want \notin {"body", "drain"}
  <2>1. Stop(deferred)
    BY <1>5 DEF Fail
  <2>2. CASE pc = "handshake" /\ cmd = "dial"
    <3>1. Stop({})
      BY <2>1, <2>2 DEF deferred
    <3>2. stlsGuarded
      BY <2>2 DEF stlsGuarded
    <3> QED
      BY <1>0, <1>1, <1>2, <3>1, <3>2, SomeStopped
  <2>3. CASE pc # "handshake" /\ cmd = "stls"
    <3>1. Stop({0, 1})
      BY <2>1, <2>3 DEF deferred
    <3>2. op = 1 /\ stops[0] = 0
      BY <1>0, <2>3 DEF ControlOK, StopsOK
    <3> QED
      BY <1>0, <1>1, <1>2, <1>3, <2>3, <3>1, <3>2, SomeStopped
  <2>4. CASE ~(pc = "handshake" /\ cmd = "dial") /\ ~(pc # "handshake" /\ cmd = "stls")
    <3>1. Stop({op})
      BY <2>1, <2>4 DEF deferred
    <3>2. cmd = "dial" => stlsGuarded
      BY DEF stlsGuarded
    <3> QED
      BY <1>0, <1>1, <1>2, <1>3, <3>1, <3>2, SomeStopped
  <2> QED
    BY <2>2, <2>3, <2>4
<1> QED
  BY <1>4, <1>5

\* Every outcome of a line stops each guard once.
LEMMA OutcomeStops ==
    ASSUME ClientTypeOK, ControlOK, StopsOK, pc = "read", NEW l, Outcome(l)
    PROVE  StopsOK'
<1> USE DEF ctxVars, dlVars, guardVars
<1>0. op \in Guards /\ op \in Nat /\ op >= 1 /\ 0 \in Guards
  BY ClientAssumption DEF ControlOK, ClientTypeOK, Guards
<1>1. unfinished /\ stops[op] = 0
  BY DEF StopsOK, unfinished
<1>2. ASSUME want \in {"status", "lines"}, cmd # "stls", Stop({op}), pc' \in {"idle", "closed"},
             UNCHANGED <<op, cmd, body>>
      PROVE  StopsOK'
  <2>1. ~body.stop
    BY <1>2 DEF ControlOK
  <2>2. ~unfinished' /\ (stlsGuarded' => stlsGuarded)
    BY <1>2, <2>1 DEF unfinished, stlsGuarded
  <2> QED
    BY <1>0, <1>1, <1>2, <2>2, SomeStopped
<1>3. CASE want \in {"status", "lines"} /\ cmd # "stls" /\ Complete
  BY <1>2, <1>3 DEF Complete
<1>4. CASE want = "lines" /\ TooLong
  BY <1>2, <1>4 DEF TooLong, ControlOK
<1>5. CASE want = "status" /\ Refuse
  <2>1. CASE cmd = "dial"
    <3>1. Stop({op})
      BY <1>5, <2>1 DEF Refuse, deferred
    <3> QED
      BY <1>2, <1>5, <2>1, <3>1 DEF Refuse
  <2>2. CASE cmd = "stls"
    <3>1. Stop({0, 1})
      BY <1>5, <2>2 DEF Refuse, deferred
    <3>2. op = 1 /\ stops[0] = 0
      BY <1>0, <2>2 DEF ControlOK, StopsOK
    <3>3. ~body.stop
      BY <1>5 DEF ControlOK
    <3>4. ~unfinished' /\ ~stlsGuarded' /\ op' = op
      BY <1>5, <2>2, <3>3 DEF Refuse, unfinished, stlsGuarded
    <3> QED
      BY <1>0, <1>1, <3>1, <3>2, <3>4, SomeStopped
  <2> QED
    BY <1>5, <2>1, <2>2 DEF Refuse
<1>6. CASE want = "status" /\ cmd = "dial" /\ StartSTLS
  <2>1. stops' = stops /\ op' = op /\ stlsGuarded
    BY <1>6 DEF StartSTLS, stlsGuarded
  <2> QED
    BY <1>0, <1>1, <2>1, NoneStopped
<1>7. CASE want = "status" /\ cmd = "stls" /\ StartHandshake
  <2>1. stops[0] = 0
    BY <1>7 DEF StopsOK
  <2>2. Stop({0}) /\ op' = op /\ ~stlsGuarded'
    BY <1>7 DEF StartHandshake, stlsGuarded
  <2> QED
    BY <1>0, <1>1, <2>1, <2>2, SomeStopped
<1>8. CASE want = "status" /\ cmd = "user" /\ SendPass
  <2>1. op + 1 \in Guards /\ op < MaxOps
    BY <1>0, <1>8, ClientAssumption DEF Guards, ControlOK
  <2>2. /\ stops' = [stops EXCEPT ![op] = @ + 1] /\ op' = op + 1 /\ ~stlsGuarded'
    BY <1>8 DEF SendPass, stlsGuarded
  <2>3. stops \in [Guards -> Nat] /\ \A g \in Guards : g \in Nat
    BY DEF ClientTypeOK, Guards
  <2>4. /\ stops'[op] = 1
        /\ \A g \in Guards : g # op => stops'[g] = stops[g]
    BY <1>0, <1>1, <2>2, <2>3
  <2>5. GuardStoppedOnce'
    BY <1>0, <2>3, <2>4 DEF GuardStoppedOnce, StopsOK
  <2>6. (\A g \in Guards : g > op' => stops'[g] = 0) /\ stops'[op'] = 0
    BY <1>0, <2>1, <2>2, <2>3, <2>4 DEF StopsOK
  <2> QED
    BY <2>2, <2>5, <2>6 DEF StopsOK, stlsGuarded
<1>9. CASE (want = "status" /\ cmd = "multi" /\ ReadLines) \/ (want = "status" /\ cmd = "body" /\ GiveBody)
           \/ (want = "lines" /\ MoreLines)
  <2>1. stops' = stops /\ op' = op /\ cmd' = cmd /\ cmd \notin {"dial", "stls"}
    BY <1>9 DEF ReadLines, GiveBody, MoreLines, ControlOK
  <2>2. ~stlsGuarded'
    BY <2>1 DEF stlsGuarded
  <2> QED
    BY <1>0, <1>1, <2>1, <2>2, NoneStopped
<1>10. CASE want \in {"body", "drain"} /\ (BodyEnds \/ BodyGoesOn)
  <2>1. op' = op /\ cmd' = cmd /\ cmd \notin {"dial", "stls"} /\ pc' \in {"held", "idle", "armRead"}
    BY <1>10 DEF BodyEnds, BodyGoesOn, ControlOK
  <2>2. ~stlsGuarded' /\ body.stop
    BY <1>10, <2>1 DEF stlsGuarded, ControlOK
  <2>3. CASE BodyEnds
    <3>1. finish /\ pc' \in {"held", "idle"}
      BY <2>3 DEF BodyEnds
    <3>2. Stop({op}) /\ ~body'.stop
      BY <2>2, <3>1 DEF finish
    <3>3. ~unfinished'
      BY <3>1, <3>2 DEF unfinished
    <3> QED
      BY <1>0, <1>1, <2>1, <2>2, <3>2, <3>3, SomeStopped
  <2>4. CASE BodyGoesOn
    <3>1. stops' = stops
      BY <2>4 DEF BodyGoesOn
    <3> QED
      BY <1>0, <1>1, <2>1, <2>2, <3>1, NoneStopped
  <2> QED
    BY <1>10, <2>3, <2>4
<1> QED
  BY <1>3, <1>4, <1>5, <1>6, <1>7, <1>8, <1>9, <1>10 DEF Outcome

\* Every step stops each guard once.
LEMMA StopsStep ==
    ASSUME ClientTypeOK, ControlOK, StopsOK, [Next]_cvars
    PROVE  StopsOK'
<1> USE DEF callVars, ctxVars, guardVars, dlVars, netVars, histVars
<1>0. op \in Guards /\ op \in Nat /\ 0 \in Guards /\ 1 \in Guards
  BY ClientAssumption DEF ClientTypeOK, Guards
<1>1. CASE ArmWrite \/ Write \/ ArmRead \/ Fill \/ Context \/ ServerAct
           \/ (\E g \in Guards : GuardStep(g)) \/ Terminated \/ UNCHANGED cvars
  <2>1. /\ UNCHANGED <<op, cmd, body, stops>>
        /\ \/ pc' = pc
           \/ pc = "armWrite" /\ pc' = "write"
           \/ pc = "write" /\ pc' = "armRead"
           \/ pc = "armRead" /\ pc' = "read"
    <3>1. CASE ArmWrite \/ Write \/ ArmRead \/ Fill
      BY <3>1 DEF ArmWrite, Write, ArmRead, Fill
    <3>2. CASE Context \/ ServerAct
      BY <3>2 DEF Context, Cancel, DeadlinePasses, ServerAct, ServerSends, ServerSendsHalf, ServerCloses
    <3>3. CASE \E g \in Guards : GuardStep(g)
      BY <3>3 DEF GuardStep, GuardFires, GuardEnds
    <3>4. CASE Terminated \/ UNCHANGED cvars
      BY <3>4 DEF Terminated, cvars
    <3> QED
      BY <1>1, <3>1, <3>2, <3>3, <3>4
  <2>2. (unfinished' => unfinished) /\ (stlsGuarded' => stlsGuarded)
    BY <2>1 DEF unfinished, stlsGuarded
  <2> QED
    BY <1>0, <2>1, <2>2, NoneStopped
<1>2. CASE WriteTimesOut \/ WriteFails \/ ReadTimesOut \/ LineTooLong \/ HandshakeFails
  <2>1. pc \in {"handshake", "write", "read"} /\ Fail(brokenOff)
    BY <1>2 DEF WriteTimesOut, WriteFails, ReadTimesOut, LineTooLong, HandshakeFails
  <2>2. PICK next \in {"broken", "closed"} : Fail(next)
    BY <2>1 DEF Fail, brokenOff
  <2> QED
    BY <2>1, <2>2, FailStops
<1>3. CASE ReadFails
  <2>1. PICK next \in {brokenOff} \cup (IF want = "body" THEN {"held"} ELSE {}) : Fail(next)
    BY <1>3 DEF ReadFails
  <2>2. next \in {"broken", "closed", "held"} /\ pc = "read"
    BY <1>3, <2>1 DEF brokenOff, ReadFails
  <2> QED
    BY <2>1, <2>2, FailStops
<1>4. CASE TakeLine \/ TakeHalfLine
  <2>1. PICK l : Accept(l)
    BY <1>4 DEF TakeLine, TakeHalfLine
  <2>2. pc = "read"
    BY <1>4 DEF TakeLine, TakeHalfLine
  <2> QED
    BY <2>1, <2>2, AcceptOutcome, OutcomeStops
<1>5. CASE Handshake
  <2>1. pc = "handshake" /\ op >= 1 /\ cmd \in {"dial", "stls"} /\ UNCHANGED <<op, cmd, body>>
    BY <1>5 DEF Handshake, ControlOK
  <2>2. stops[op] = 0 /\ op = 1 /\ ~body.stop
    BY <1>0, <2>1 DEF StopsOK, unfinished, ControlOK
  <2>3. CASE cmd = "dial"
    <3>1. stops' = stops /\ stlsGuarded /\ unfinished
      BY <1>5, <2>1, <2>3 DEF Handshake, stlsGuarded, unfinished
    <3> QED
      BY <1>0, <2>1, <3>1, NoneStopped
  <2>4. CASE cmd = "stls"
    <3>1. Stop({1}) /\ pc' = "idle"
      BY <1>5, <2>4 DEF Handshake
    <3>2. ~unfinished' /\ ~stlsGuarded'
      BY <2>1, <2>2, <2>4, <3>1 DEF unfinished, stlsGuarded
    <3> QED
      BY <1>0, <2>1, <2>2, <3>1, <3>2, SomeStopped
  <2> QED
    BY <2>1, <2>3, <2>4
<1>6. CASE Dial
  <2>1. pc = "start" /\ op' = 1 /\ op = 0 /\ cmd = "dial" /\ stops' = stops
    BY <1>6 DEF Dial, ControlOK
  <2>2. stlsGuarded
    BY <2>1 DEF stlsGuarded
  <2> QED
    BY <1>0, <2>1, <2>2, NoneStopped
<1>7. CASE DialFails \/ Close \/ EnterRelay
  <2>1. /\ UNCHANGED <<op, cmd, body, stops>> /\ pc' \in {"closed", "relay"}
    BY <1>7 DEF DialFails, Close, EnterRelay
  <2>2. (unfinished' => unfinished) /\ (stlsGuarded' => stlsGuarded)
    BY <2>1 DEF unfinished, stlsGuarded
  <2> QED
    BY <1>0, <2>1, <2>2, NoneStopped
<1>8. CASE \E c \in {"status", "user", "multi", "body"} : Start(c)
  <2>1. /\ op' = op + 1 /\ op < MaxOps /\ cmd' \in {"status", "user", "multi", "body"}
        /\ stops' = stops
    BY <1>8 DEF Start, Begin
  <2>2. op' \in Guards /\ op' \in Nat /\ ~stlsGuarded'
    BY <1>0, <2>1, ClientAssumption DEF Guards, stlsGuarded
  <2> QED
    BY <1>0, <2>1, <2>2, NoneStopped
<1>9. CASE ReadBody \/ CloseBody
  <2>1. pc \in {"held", "broken"} /\ UNCHANGED <<op, cmd>>
    BY <1>9 DEF ReadBody, CloseBody
  <2>2. CASE ReadBody \/ ~body.done
    <3>1. pc' = "armRead" /\ UNCHANGED <<body, stops>> /\ ~body.done
      BY <1>9, <2>2 DEF ReadBody, CloseBody
    <3>2. unfinished /\ pc = "held"
      BY <2>1, <3>1 DEF unfinished, ControlOK, ClientTypeOK
    <3>3. cmd \notin {"dial", "stls"}
      BY <3>2 DEF ControlOK
    <3>4. ~stlsGuarded'
      BY <2>1, <3>3 DEF stlsGuarded
    <3> QED
      BY <1>0, <2>1, <3>1, <3>2, <3>4, NoneStopped
  <2>3. CASE CloseBody /\ body.done
    <3>1. finish /\ pc' \in {"closed", "idle"} /\ ~body.stop
      BY <2>3 DEF CloseBody, ControlOK, ClientTypeOK
    <3>2. Stop({}) /\ ~body'.stop
      BY <3>1 DEF finish
    <3>3. ~unfinished' /\ (stlsGuarded' => stlsGuarded)
      BY <2>1, <3>1, <3>2 DEF unfinished, stlsGuarded
    <3> QED
      BY <1>0, <2>1, <3>2, <3>3, SomeStopped
  <2> QED
    BY <1>9, <2>2, <2>3
<1>10. Call => \/ Dial \/ DialFails \/ Close \/ EnterRelay \/ ReadBody \/ CloseBody
               \/ \E c \in {"status", "user", "multi", "body"} : Start(c)
  BY DEF Call, Cmd, XClient, AuthPlain, User, Stat, ListOne, UidlOne, Dele, Capa, List, Uidl,
     retrieve
<1> QED
  BY <1>1, <1>2, <1>3, <1>4, <1>5, <1>6, <1>7, <1>8, <1>9, <1>10 DEF Next, Step

------------------------------------------------------------------------------
(* Types and guards, for every instance.                                     *)

\* The invariant holds before Dial.
LEMMA InitKept ==
    ASSUME Init
    PROVE  ClientTypeOK /\ ControlOK /\ StopsOK
<1>0. /\ body \in [done : BOOLEAN, stop : BOOLEAN] /\ body.done /\ ~body.stop
      /\ last \in [line : Line \cup {NoLine}, op : 0..MaxOps, tls : BOOLEAN]
  BY ClientAssumption DEF Init
<1>1. ClientTypeOK
  <2>1. ctx \in [Ops -> Ops] /\ kind \in [Ops -> Kinds \cup {"background"}]
    BY DEF Init
  <2>2. guard \in [Guards -> {"none", "armed", "stopped", "ended"}] /\ stops \in [Guards -> Nat]
    BY DEF Init
  <2>3. op \in 0..MaxOps /\ lines \in 0..MaxResponseLines
    BY ClientAssumption DEF Init
  <2>4. todo \in Seq(Line) /\ net \in Seq(Line) /\ buf \in Seq(Line)
    BY DEF Init
  <2>5. timedOut \subseteq Ops \X ({-1} \cup Ops) /\ givenUp \in BOOLEAN
    BY DEF Init
  <2>6. /\ cancelled \subseteq Ops /\ passed \subseteq Ops /\ mode \in Modes
        /\ rdl \in {-1, 0} \cup Ops /\ wdl \in {-1, 0} \cup Ops
        /\ secure \in BOOLEAN /\ gone \in BOOLEAN
        /\ pc = "start" /\ cmd = "dial" /\ want = "status"
    BY DEF Init
  <2> QED
    BY <1>0, <2>1, <2>2, <2>3, <2>4, <2>5, <2>6 DEF ClientTypeOK
<1>2. ControlOK
  <2>1. pc = "start" /\ cmd = "dial" /\ want = "status" /\ op = 0
    BY DEF Init
  <2>2. body.done = ~body.stop
    BY <1>0
  <2>3. op <= 1 /\ pc # "held" /\ pc \notin {"armRead", "read", "handshake", "armWrite", "write"}
    BY <2>1
  <2>4. cmd # "user" /\ pc \in {"start", "closed"}
    BY <2>1
  <2> QED
    BY <1>0, <2>1, <2>2, <2>3, <2>4, Zenon DEF ControlOK
<1>3. StopsOK
  BY ClientAssumption DEF Init, StopsOK, GuardStoppedOnce, unfinished, Guards
<1> QED
  BY <1>1, <1>2, <1>3

\* The control, the types and the stop functions, in every reachable state.
LEMMA Kept == Spec => [](ClientTypeOK /\ ControlOK /\ StopsOK)
<1>1. ClientTypeOK /\ ControlOK /\ StopsOK /\ [Next]_cvars
        => (ClientTypeOK /\ ControlOK /\ StopsOK)'
  BY TypeStep, StopsStep
<1> QED
  BY InitKept, <1>1, PTL DEF Spec

(* The client's state is well-typed, and no response grows past              *)
(* Options.MaxResponseLines, whatever the server sends and however many      *)
(* operations there are.                                                     *)
THEOREM ClientTyped == Spec => []ClientTypeOK
BY Kept, PTL

(* A guard's done channel is closed at most once.  It takes the body reader  *)
(* forgetting its stop function exactly when it has called it, and startTLS  *)
(* stopping the guard of its command before the handshake.                   *)
THEOREM GuardsStoppedOnce == Spec => []GuardStoppedOnce
<1>1. StopsOK => GuardStoppedOnce
  BY DEF StopsOK
<1> QED
  BY Kept, <1>1, PTL

------------------------------------------------------------------------------
(* The deadlines, when no context has one of its own.                        *)

\* A step inside an operation, or at its end.
LEMMA DeadlineKept ==
    ASSUME NoDeadlines, ClientTypeOK, DeadlineOK,
           UNCHANGED <<op, ctx, kind, cancelled, passed, givenUp, rdl, wdl>>,
           timedOut' = timedOut \/ (\E d : timedOut' = timedOut \cup {<<op, d>>} /\ givenUp),
           givenUp => pc' \notin {"start", "relay"},
           \A g \in Guards : g > op => guard'[g] = guard[g],
           unfinished' => \/ unfinished /\ guard'[op] = guard[op]
                          \/ guard'[op] \in {"none", "armed"}
    PROVE  DeadlineOK'
<1>1. passed' = {} /\ \A c \in Ops : kind'[c] # "deadline"
  BY DEF DeadlineOK
<1>2. /\ rdl' = wdl' /\ rdl' \in {0, -1}
      /\ rdl' = -1 \/ cancelled' # {} => givenUp'
  BY DEF DeadlineOK
<1>3. givenUp' => ctx'[op'] \in cancelled' /\ pc' \notin {"start", "relay"} /\ op' >= 1
  BY DEF DeadlineOK
<1>4. unfinished' => guard'[op'] # "stopped" /\ (guard'[op'] = "ended" => rdl' = -1)
  BY DEF DeadlineOK
<1>5. \A g \in Guards : g > op' => guard'[g] = "none"
  BY DEF DeadlineOK
<1>6. \A t \in timedOut' : t[1] \in 1..op' /\ ctx'[t[1]] \in cancelled'
  <2>1. \A t \in timedOut : t[1] \in 1..op /\ ctx[t[1]] \in cancelled
    BY DEF DeadlineOK
  <2>2. ASSUME NEW d, givenUp
        PROVE  <<op, d>>[1] \in 1..op /\ ctx[<<op, d>>[1]] \in cancelled
    BY <2>2 DEF DeadlineOK, ClientTypeOK
  <2>3. \A t \in timedOut' : t[1] \in 1..op /\ ctx[t[1]] \in cancelled
    BY <2>1, <2>2
  <2> QED
    BY <2>3
<1> QED
  BY <1>1, <1>2, <1>3, <1>4, <1>5, <1>6 DEF DeadlineOK

\* A new operation, of a caller that has not given up or with the same context.
LEMMA DeadlineStarts ==
    ASSUME NoDeadlines, ClientTypeOK, DeadlineOK, op' = op + 1,
           \A p \in Ops : p # op' => ctx'[p] = ctx[p],
           givenUp => ctx'[op'] = ctx[op],
           \A c \in Ops : kind'[c] # "deadline",
           UNCHANGED <<cancelled, passed, givenUp, timedOut, rdl, wdl>>,
           pc' \notin {"start", "relay"}, op' \in Ops,
           guard'[op'] \in {"none", "armed"},
           \A g \in Guards : g > op' => guard'[g] = guard[g]
    PROVE  DeadlineOK'
<1>0. op \in Nat /\ (\A g \in Guards : g \in Nat) /\ \A p \in 1..op : p \in Ops /\ p # op'
  BY ClientAssumption DEF ClientTypeOK, Guards, Ops
<1>1. passed' = {} /\ \A c \in Ops : kind'[c] # "deadline"
  BY DEF DeadlineOK
<1>2. /\ rdl' = wdl' /\ rdl' \in {0, -1}
      /\ rdl' = -1 \/ cancelled' # {} => givenUp'
  BY DEF DeadlineOK
<1>3. givenUp' => ctx'[op'] \in cancelled' /\ pc' \notin {"start", "relay"} /\ op' >= 1
  BY <1>0 DEF DeadlineOK
<1>4. guard'[op'] # "stopped" /\ guard'[op'] # "ended"
  OBVIOUS
<1>5. \A g \in Guards : g > op' => guard'[g] = "none"
  BY <1>0 DEF DeadlineOK
<1>6. \A t \in timedOut' : t[1] \in 1..op' /\ ctx'[t[1]] \in cancelled'
  <2>1. \A t \in timedOut : t[1] \in 1..op /\ ctx[t[1]] \in cancelled
    BY DEF DeadlineOK
  <2>2. \A p \in 1..op : p \in 1..op'
    BY <1>0
  <2> QED
    BY <1>0, <2>1, <2>2
<1> QED
  BY <1>1, <1>2, <1>3, <1>4, <1>5, <1>6 DEF DeadlineOK

\* Stop functions end the guards of the operation in flight, or of the command inside it.
LEMMA StopGuards ==
    ASSUME ClientTypeOK, NEW gs \in SUBSET (0..op), Stop(gs)
    PROVE  /\ \A g \in Guards : g > op => guard'[g] = guard[g]
           /\ op \notin gs => guard'[op] = guard[op]
<1>1. op \in Guards /\ op \in Nat /\ \A g \in Guards : g \in Nat
  BY DEF ClientTypeOK, Guards
<1>2. \A g \in Guards : g \notin gs => guard'[g] = guard[g]
  BY DEF Stop, stopped
<1>3. \A g \in Guards : g > op => g \notin gs
  BY <1>1
<1> QED
  BY <1>1, <1>2, <1>3

\* An operation that fails stops guards of its own.
LEMMA FailStopsOwn ==
    ASSUME op \in Nat, op >= 1, NEW next, Fail(next)
    PROVE  \E gs \in SUBSET (0..op) : Stop(gs)
<1>1. CASE want \in {"body", "drain"}
  <2>1. Stop(IF body.stop THEN {op} ELSE {})
    BY <1>1 DEF Fail, finish
  <2>2. (IF body.stop THEN {op} ELSE {}) \in SUBSET (0..op)
    OBVIOUS
  <2> QED
    BY <2>1, <2>2, Zenon
<1>2. CASE want \notin {"body", "drain"}
  <2>1. Stop(deferred)
    BY <1>2 DEF Fail
  <2>2. deferred \in SUBSET (0..op)
    BY DEF deferred
  <2> QED
    BY <2>1, <2>2, Zenon
<1> QED
  BY <1>1, <1>2

\* An operation that fails: with a timeout, its context was cancelled.
LEMMA FailDeadline ==
    ASSUME NoDeadlines, ClientTypeOK, ControlOK, DeadlineOK, pc \in {"handshake", "write", "read"},
           NEW next \in {"broken", "closed", "held"}, Fail(next),
           timedOut' = timedOut \/ (\E d : timedOut' = timedOut \cup {<<op, d>>} /\ givenUp)
    PROVE  DeadlineOK'
<1> USE DEF ctxVars, dlVars
<1>0. op \in Nat /\ op >= 1
  BY DEF ControlOK, ClientTypeOK
<1>1. ~body'.stop /\ pc' = next /\ UNCHANGED <<op, ctx, kind, cancelled, passed, givenUp, rdl, wdl>>
  BY FailTyped
<1>2. ~unfinished'
  BY <1>1 DEF unfinished
<1>3. \E gs \in SUBSET (0..op) : Stop(gs)
  BY <1>0, FailStopsOwn
<1>4. \A g \in Guards : g > op => guard'[g] = guard[g]
  BY <1>3, StopGuards
<1>5. givenUp => pc' \notin {"start", "relay"}
  BY <1>1
<1> QED
  BY <1>1, <1>2, <1>4, <1>5, DeadlineKept

\* Every outcome of a line.
LEMMA OutcomeDeadline ==
    ASSUME NoDeadlines, ClientTypeOK, ControlOK, DeadlineOK, pc = "read", NEW l, Outcome(l),
           UNCHANGED <<mode, kind, cancelled, passed, secure, todo, net, gone, timedOut, givenUp>>
    PROVE  DeadlineOK'
<1> USE DEF ctxVars, dlVars, guardVars
<1>0. /\ op \in Guards /\ op \in Nat /\ op >= 1 /\ op \in Ops /\ ctx[op] \in Ops
      /\ \A g \in Guards : g \in Nat
  BY DeadlineTyped DEF ControlOK, ClientTypeOK, Guards
<1>1. unfinished
  BY DEF unfinished
<1>2. ~hasDeadline
  BY <1>0 DEF hasDeadline, DeadlineOK
<1>3. ASSUME NEW gs \in SUBSET (0..op), Stop(gs), UNCHANGED <<op, ctx, rdl, wdl>>,
             pc' \notin {"start", "relay"}, unfinished' => op \notin gs
      PROVE  DeadlineOK'
  <2>1. /\ \A g \in Guards : g > op => guard'[g] = guard[g]
        /\ op \notin gs => guard'[op] = guard[op]
    BY <1>3, StopGuards
  <2> QED
    BY <1>1, <1>3, <2>1, DeadlineKept
<1>4. ASSUME UNCHANGED <<op, ctx, rdl, wdl, guard>>, pc' \notin {"start", "relay"}
      PROVE  DeadlineOK'
  BY <1>1, <1>4, DeadlineKept
<1>5. CASE want \in {"status", "lines"} /\ (Complete \/ TooLong \/ Refuse)
  <2>1. Stop({op}) \/ Stop(deferred)
    BY <1>5 DEF Complete, TooLong, Refuse
  <2>2. {op} \in SUBSET (0..op) /\ deferred \in SUBSET (0..op)
    BY <1>0 DEF deferred
  <2>3. PICK gs \in SUBSET (0..op) : Stop(gs)
    BY <2>1, <2>2, Zenon
  <2>4. ~body.stop
    BY <1>5 DEF ControlOK
  <2>5. UNCHANGED <<op, ctx, rdl, wdl, body>> /\ pc' \in {"idle", "closed"}
    BY <1>5 DEF Complete, TooLong, Refuse
  <2>6. ~unfinished' /\ pc' \notin {"start", "relay"}
    BY <2>4, <2>5 DEF unfinished
  <2> QED
    BY <1>3, <2>3, <2>5, <2>6
<1>6. CASE want = "status" /\ cmd = "dial" /\ StartSTLS
  <2>1. UNCHANGED <<op, ctx, rdl, wdl>> /\ pc' = "armWrite"
    BY <1>6 DEF StartSTLS
  <2>2. \A g \in Guards : g # 0 => guard'[g] = guard[g]
    BY <1>6 DEF StartSTLS, ClientTypeOK
  <2>3. /\ \A g \in Guards : g > op => guard'[g] = guard[g]
        /\ guard'[op] = guard[op]
    <3>1. op # 0 /\ \A g \in Nat : g > op => g # 0
      BY <1>0
    <3> QED
      BY <1>0, <2>2, <3>1
  <2>4. givenUp => pc' \notin {"start", "relay"}
    BY <2>1
  <2> QED
    BY <1>1, <2>1, <2>3, <2>4, DeadlineKept
<1>7. CASE want = "status" /\ cmd = "stls" /\ StartHandshake
  <2>1. Stop({0}) /\ UNCHANGED <<op, ctx, rdl, wdl>> /\ pc' = "handshake"
    BY <1>2, <1>7 DEF StartHandshake
  <2>2. {0} \in SUBSET (0..op) /\ op \notin {0} /\ pc' \notin {"start", "relay"}
    BY <1>0, <2>1
  <2> QED
    BY <1>3, <2>1, <2>2
<1>8. CASE want = "status" /\ cmd = "user" /\ SendPass
  <2>1. /\ op' = op + 1 /\ op' \in Ops /\ op' \in Guards /\ pc' = "armWrite"
        /\ UNCHANGED <<rdl, wdl>>
    BY <1>0, <1>8, ClientAssumption DEF SendPass, ControlOK, Ops, Guards
  <2>2. ctx' = [ctx EXCEPT ![op'] = ctx[op]]
    BY <1>8, <2>1 DEF SendPass
  <2>3. ctx'[op'] = ctx[op] /\ \A p \in Ops : p # op' => ctx'[p] = ctx[p]
    BY <2>1, <2>2 DEF ClientTypeOK
  <2>4. guard' = [stopped({op}) EXCEPT ![op'] = armedGuard(kind[ctx[op]])]
    BY <1>8, <2>1 DEF SendPass
  <2>5. armedGuard(kind[ctx[op]]) \in {"none", "armed"}
    BY DEF armedGuard
  <2>6. /\ guard'[op'] \in {"none", "armed"}
        /\ \A g \in Guards : g > op' => guard'[g] = guard[g]
    BY <1>0, <2>1, <2>4, <2>5 DEF stopped
  <2>7. \A c \in Ops : kind'[c] # "deadline"
    BY DEF DeadlineOK
  <2>8. pc' \notin {"start", "relay"}
    BY <2>1
  <2> QED
    BY <2>1, <2>3, <2>6, <2>7, <2>8, DeadlineStarts
<1>9. CASE (want = "status" /\ cmd = "multi" /\ ReadLines) \/ (want = "status" /\ cmd = "body" /\ GiveBody)
           \/ (want = "lines" /\ MoreLines)
  <2>1. UNCHANGED <<op, ctx, rdl, wdl, guard>> /\ pc' \in {"armRead", "held"}
    BY <1>9 DEF ReadLines, GiveBody, MoreLines
  <2> QED
    BY <1>4, <2>1
<1>10. CASE want \in {"body", "drain"} /\ (BodyEnds \/ BodyGoesOn)
  <2>1. UNCHANGED <<op, ctx, rdl, wdl>> /\ pc' \in {"held", "idle", "armRead"} /\ body.stop
    BY <1>10 DEF BodyEnds, BodyGoesOn, ControlOK
  <2>2. CASE BodyEnds
    <3>1. finish /\ pc' \in {"held", "idle"}
      BY <2>2 DEF BodyEnds
    <3>2. Stop({op}) /\ ~body'.stop /\ {op} \in SUBSET (0..op)
      BY <1>0, <2>1, <3>1 DEF finish
    <3>3. ~unfinished' /\ pc' \notin {"start", "relay"}
      BY <3>1, <3>2 DEF unfinished
    <3> QED
      BY <1>3, <2>1, <3>2, <3>3
  <2>3. CASE BodyGoesOn
    <3>1. UNCHANGED guard
      BY <2>3 DEF BodyGoesOn
    <3> QED
      BY <1>4, <2>1, <3>1
  <2> QED
    BY <1>10, <2>2, <2>3
<1> QED
  BY <1>5, <1>6, <1>7, <1>8, <1>9, <1>10 DEF Outcome

\* Every step keeps the deadlines right.
LEMMA DeadlineStep ==
    ASSUME NoDeadlines, ClientTypeOK, ControlOK, DeadlineOK, [Next]_cvars
    PROVE  DeadlineOK'
<1> USE DEF callVars, ctxVars, guardVars, dlVars, netVars, histVars
<1>0. /\ op \in Guards /\ op \in Nat /\ 0 \in Guards /\ 1 \in Guards /\ 1 \in Ops
      /\ \A g \in Guards : g \in Nat
  BY ClientAssumption DEF ClientTypeOK, Guards, Ops
<1>1. CASE ArmWrite \/ Write \/ ArmRead \/ Fill
  <2>1. op \in Ops /\ ctx[op] \in Ops
    BY <1>1, DeadlineTyped DEF ArmWrite, Write, ArmRead, Fill
  <2>2. ~hasDeadline
    BY <2>1 DEF hasDeadline, DeadlineOK
  <2>3. /\ UNCHANGED <<op, ctx, kind, cancelled, passed, givenUp, rdl, wdl, guard, timedOut>>
        /\ pc' \in {"write", "armRead", "read"} /\ pc \in {"armWrite", "write", "armRead", "read"}
    BY <1>1, <2>2 DEF ArmWrite, Write, ArmRead, Fill
  <2>4. unfinished /\ (givenUp => pc' \notin {"start", "relay"})
    BY <2>3 DEF unfinished
  <2> QED
    BY <2>3, <2>4, DeadlineKept
<1>2. CASE ServerAct \/ Terminated \/ UNCHANGED cvars
  <2>1. /\ UNCHANGED <<op, ctx, kind, cancelled, passed, givenUp, rdl, wdl, guard, timedOut>>
        /\ UNCHANGED <<pc, body>>
    <3>1. CASE ServerAct
      BY <3>1 DEF ServerAct, ServerSends, ServerSendsHalf, ServerCloses
    <3>2. CASE Terminated \/ UNCHANGED cvars
      BY <3>2 DEF Terminated, cvars
    <3> QED
      BY <1>2, <3>1, <3>2
  <2>2. (unfinished' => unfinished) /\ (givenUp => pc' \notin {"start", "relay"})
    BY <2>1 DEF unfinished, DeadlineOK
  <2> QED
    BY <2>1, <2>2, DeadlineKept
<1>3. CASE WriteTimesOut \/ WriteFails \/ ReadTimesOut \/ LineTooLong \/ HandshakeFails
  <2>1. /\ pc \in {"handshake", "write", "read"} /\ Fail(brokenOff)
        /\ \/ timedOut' = timedOut
           \/ timedOut' = timedOut \cup {<<op, wdl>>} /\ expired(wdl)
           \/ timedOut' = timedOut \cup {<<op, rdl>>} /\ expired(rdl)
    BY <1>3 DEF WriteTimesOut, WriteFails, ReadTimesOut, LineTooLong, HandshakeFails, readTimedOut
  <2>2. PICK next \in {"broken", "closed"} : Fail(next)
    BY <2>1 DEF Fail, brokenOff
  <2>3. (expired(wdl) => givenUp) /\ (expired(rdl) => givenUp)
    BY DEF expired, DeadlineOK
  <2>4. timedOut' = timedOut \/ (\E d : timedOut' = timedOut \cup {<<op, d>>} /\ givenUp)
    BY <2>1, <2>3, Zenon
  <2>5. pc \in {"handshake", "write", "read"} /\ next \in {"broken", "closed", "held"}
    BY <2>1
  <2> QED
    BY <2>2, <2>4, <2>5, FailDeadline
<1>4. CASE ReadFails
  <2>1. PICK next \in {brokenOff} \cup (IF want = "body" THEN {"held"} ELSE {}) : Fail(next)
    BY <1>4 DEF ReadFails
  <2>2. next \in {"broken", "closed", "held"} /\ pc \in {"handshake", "write", "read"}
    BY <1>4, <2>1 DEF brokenOff, ReadFails
  <2>3. timedOut' = timedOut
    BY <1>4 DEF ReadFails
  <2> QED
    BY <2>1, <2>2, <2>3, FailDeadline
<1>5. CASE TakeLine \/ TakeHalfLine
  <2>1. PICK l : Accept(l)
    BY <1>5 DEF TakeLine, TakeHalfLine
  <2>2. pc = "read"
    BY <1>5 DEF TakeLine, TakeHalfLine
  <2> QED
    BY <2>1, <2>2, AcceptOutcome, OutcomeDeadline
<1>6. CASE Handshake
  <2>1. /\ pc = "handshake" /\ pc' \in {"armRead", "idle"} /\ op = 1
        /\ UNCHANGED <<op, body, ctx, kind, cancelled, passed, givenUp, rdl, wdl, timedOut>>
    BY <1>0, <1>6 DEF Handshake, ControlOK
  <2>2. givenUp => pc' \notin {"start", "relay"}
    BY <2>1
  <2>3. CASE cmd = "dial"
    <3>1. guard' = [guard EXCEPT ![1] = armedGuard(kind[1])]
      BY <1>6, <2>3 DEF Handshake
    <3>2. armedGuard(kind[1]) \in {"none", "armed"}
      BY DEF armedGuard
    <3>3. guard'[op] \in {"none", "armed"} /\ \A g \in Guards : g > op => guard'[g] = guard[g]
      BY <1>0, <2>1, <3>1, <3>2 DEF ClientTypeOK
    <3> QED
      BY <2>1, <2>2, <3>3, DeadlineKept
  <2>4. CASE cmd # "dial"
    <3>1. Stop({1}) /\ pc' = "idle" /\ ~body.stop /\ {1} \in SUBSET (0..op)
      BY <1>6, <2>1, <2>4 DEF Handshake, ControlOK
    <3>2. \A g \in Guards : g > op => guard'[g] = guard[g]
      BY <3>1, StopGuards
    <3>3. ~unfinished'
      BY <2>1, <3>1 DEF unfinished
    <3> QED
      BY <2>1, <2>2, <3>2, <3>3, DeadlineKept
  <2> QED
    BY <2>3, <2>4
<1>7. CASE Dial
  <2>1. /\ pc = "start" /\ op = 0 /\ op' = 1 /\ pc' \in {"handshake", "armRead"}
        /\ UNCHANGED <<cancelled, passed, givenUp, timedOut>> /\ GiveContext(1)
    BY <1>7 DEF Dial, ControlOK
  <2>2. ~givenUp /\ rdl = 0 /\ wdl = 0 /\ guard[1] = "none"
    BY <1>0, <2>1 DEF DeadlineOK
  <2>3. \A c \in Ops : kind'[c] # "deadline"
    BY <1>0, <2>1 DEF GiveContext, NoDeadlines, DeadlineOK, ClientTypeOK
  <2>4. UNCHANGED <<rdl, wdl>>
    BY <1>0, <1>7, <2>2, <2>3 DEF Dial
  <2>5. \A p \in Ops : p # op' => ctx'[p] = ctx[p]
    BY <1>0, <2>1, ContextTyped
  <2>6. armedGuard(kind'[1]) \in {"none", "armed"}
    BY DEF armedGuard
  <2>7. guard' = guard \/ guard' = [guard EXCEPT ![1] = armedGuard(kind'[1])]
    BY <1>7 DEF Dial
  <2>8. guard'[op'] \in {"none", "armed"} /\ \A g \in Guards : g > op' => guard'[g] = guard[g]
    BY <1>0, <2>1, <2>2, <2>6, <2>7 DEF ClientTypeOK
  <2>9. op' = op + 1 /\ op' \in Ops /\ pc' \notin {"start", "relay"}
    BY <1>0, <2>1
  <2> QED
    BY <2>1, <2>2, <2>3, <2>4, <2>5, <2>8, <2>9, DeadlineStarts
<1>8. CASE DialFails \/ Close \/ EnterRelay
  <2>1. /\ UNCHANGED <<op, body, ctx, kind, cancelled, passed, givenUp, guard, timedOut>>
        /\ \/ pc' = "closed" /\ UNCHANGED <<rdl, wdl>>
           \/ pc' = "relay" /\ ~givenUp /\ rdl' = 0 /\ wdl' = 0
    BY <1>8 DEF DialFails, Close, EnterRelay
  <2>2. UNCHANGED <<rdl, wdl>> /\ (givenUp => pc' \notin {"start", "relay"})
    BY <2>1 DEF DeadlineOK
  <2>3. unfinished' => unfinished
    BY <2>1 DEF unfinished
  <2> QED
    BY <2>1, <2>2, <2>3, DeadlineKept
<1>9. CASE \E c \in {"status", "user", "multi", "body"} : Start(c)
  <2>1. /\ op' = op + 1 /\ op < MaxOps /\ ~givenUp /\ pc' = "armWrite"
        /\ UNCHANGED <<cancelled, passed, givenUp, timedOut, rdl, wdl>>
        /\ GiveContext(op + 1) /\ guard' = [guard EXCEPT ![op + 1] = armedGuard(kind'[ctx'[op + 1]])]
    BY <1>9 DEF Start, Begin
  <2>2. op' \in Ops /\ op + 1 \in Ops /\ op + 1 \in Guards /\ pc' \notin {"start", "relay"}
    BY <1>0, <2>1, ClientAssumption DEF Ops, Guards
  <2>3. \A c \in Ops : kind'[c] # "deadline"
    BY <2>1, <2>2 DEF GiveContext, NoDeadlines, DeadlineOK, ClientTypeOK
  <2>4. \A p \in Ops : p # op' => ctx'[p] = ctx[p]
    <3>1. PICK o \in Ops : o = op + 1
      BY <2>2
    <3>2. GiveContext(o)
      BY <2>1, <3>1
    <3> QED
      BY <2>1, <3>1, <3>2, ContextTyped
  <2>5. armedGuard(kind'[ctx'[op + 1]]) \in {"none", "armed"}
    BY DEF armedGuard
  <2>6. guard'[op'] \in {"none", "armed"} /\ \A g \in Guards : g > op' => guard'[g] = guard[g]
    BY <1>0, <2>1, <2>2, <2>5 DEF ClientTypeOK
  <2> QED
    BY <2>1, <2>2, <2>3, <2>4, <2>6, DeadlineStarts
<1>10. CASE ReadBody \/ CloseBody
  <2>1. /\ pc \in {"held", "broken"} /\ pc' \in {"armRead", "closed", "idle"}
        /\ UNCHANGED <<op, ctx, kind, cancelled, passed, givenUp, rdl, wdl, timedOut>>
    BY <1>10 DEF ReadBody, CloseBody
  <2>2. givenUp => pc' \notin {"start", "relay"}
    BY <2>1
  <2>3. CASE ReadBody \/ ~body.done
    <3>1. UNCHANGED <<body, guard>> /\ ~body.done
      BY <1>10, <2>3 DEF ReadBody, CloseBody
    <3>2. unfinished
      BY <2>1, <3>1 DEF unfinished, ControlOK, ClientTypeOK
    <3> QED
      BY <2>1, <2>2, <3>1, <3>2, DeadlineKept
  <2>4. CASE CloseBody /\ body.done
    <3>1. finish /\ pc' \in {"closed", "idle"} /\ ~body.stop
      BY <2>4 DEF CloseBody, ControlOK, ClientTypeOK
    <3>2. Stop({}) /\ ~body'.stop
      BY <3>1 DEF finish
    <3>3. ~unfinished'
      BY <3>1, <3>2 DEF unfinished
    <3>4. \A g \in Guards : g > op => guard'[g] = guard[g]
      BY <3>2, StopGuards
    <3> QED
      BY <2>1, <2>2, <3>3, <3>4, DeadlineKept
  <2> QED
    BY <1>10, <2>3, <2>4
<1>11. CASE \E c \in Ops : Cancel(c)
  <2>1. PICK c \in Ops : Cancel(c)
    BY <1>11
  <2>2. /\ Busy /\ ctx[op] = c /\ givenUp' = TRUE /\ cancelled' = cancelled \cup {c}
        /\ UNCHANGED <<pc, op, body, ctx, kind, passed, guard, rdl, wdl, timedOut>>
    BY <2>1 DEF Cancel, NoDeadlines
  <2>3. op >= 1 /\ pc \notin {"start", "relay"}
    BY <2>2 DEF Busy, ControlOK
  <2>4. /\ passed' = {} /\ (\A d \in Ops : kind'[d] # "deadline")
        /\ rdl' = wdl' /\ rdl' \in {0, -1}
    BY <2>2 DEF DeadlineOK
  <2>5. ctx'[op'] \in cancelled' /\ pc' \notin {"start", "relay"} /\ op' >= 1
    BY <2>2, <2>3
  <2>6. unfinished' => guard'[op'] # "stopped" /\ (guard'[op'] = "ended" => rdl' = -1)
    BY <2>2 DEF DeadlineOK, unfinished
  <2>7. \A g \in Guards : g > op' => guard'[g] = "none"
    BY <2>2 DEF DeadlineOK
  <2>8. \A t \in timedOut' : t[1] \in 1..op' /\ ctx'[t[1]] \in cancelled'
    BY <2>2 DEF DeadlineOK
  <2> QED
    BY <2>2, <2>4, <2>5, <2>6, <2>7, <2>8 DEF DeadlineOK
<1>12. CASE \E g \in Guards : GuardStep(g)
  <2>1. PICK g \in Guards : GuardStep(g)
    BY <1>12
  <2>2. /\ guard' = [guard EXCEPT ![g] = "ended"] /\ guard[g] \in {"armed", "stopped"}
        /\ UNCHANGED <<pc, op, body, ctx, kind, cancelled, passed, givenUp, timedOut>>
        /\ \/ ctxDone(guardCtx(g)) /\ rdl' = -1 /\ wdl' = -1
           \/ guard[g] = "stopped" /\ rdl' = rdl /\ wdl' = wdl
    BY <2>1 DEF GuardStep, GuardFires, GuardEnds
  <2>3. g <= op
    BY <1>0, <2>2 DEF DeadlineOK
  <2>4. ctxDone(guardCtx(g)) => givenUp
    BY DEF ctxDone, DeadlineOK
  <2>5. /\ passed' = {} /\ (\A d \in Ops : kind'[d] # "deadline")
        /\ rdl' = wdl' /\ rdl' \in {0, -1}
        /\ (rdl' = -1 \/ cancelled' # {} => givenUp')
    BY <2>2, <2>4 DEF DeadlineOK
  <2>6. givenUp' => ctx'[op'] \in cancelled' /\ pc' \notin {"start", "relay"} /\ op' >= 1
    BY <2>2 DEF DeadlineOK
  <2>7. unfinished' => guard'[op'] # "stopped" /\ (guard'[op'] = "ended" => rdl' = -1)
    <3>1. unfinished' => unfinished
      BY <2>2 DEF unfinished
    <3>2. unfinished /\ g = op => rdl' = -1
      BY <2>2 DEF DeadlineOK
    <3>3. guard'[g] = "ended" /\ \A h \in Guards : h # g => guard'[h] = guard[h]
      BY <2>2 DEF ClientTypeOK
    <3>4. rdl = -1 => rdl' = -1
      BY <2>2
    <3> QED
      BY <1>0, <2>2, <3>1, <3>2, <3>3, <3>4 DEF DeadlineOK
  <2>8. \A h \in Guards : h > op' => guard'[h] = "none"
    BY <1>0, <2>2, <2>3 DEF DeadlineOK, ClientTypeOK
  <2>9. \A t \in timedOut' : t[1] \in 1..op' /\ ctx'[t[1]] \in cancelled'
    BY <2>2 DEF DeadlineOK
  <2> QED
    BY <2>5, <2>6, <2>7, <2>8, <2>9 DEF DeadlineOK
<1>13. ~\E c \in Ops : DeadlinePasses(c)
  BY DEF DeadlinePasses, DeadlineOK
<1>14. Call => \/ Dial \/ DialFails \/ Close \/ EnterRelay \/ ReadBody \/ CloseBody
               \/ \E c \in {"status", "user", "multi", "body"} : Start(c)
  BY DEF Call, Cmd, XClient, AuthPlain, User, Stat, ListOne, UidlOne, Dele, Capa, List, Uidl,
     retrieve
<1> QED
  BY <1>1, <1>2, <1>3, <1>4, <1>5, <1>6, <1>7, <1>8, <1>9, <1>10, <1>11, <1>12, <1>13, <1>14
     DEF Next, Step, Context

\* Before the first operation no deadline is set.
LEMMA DeadlineInit == Init => DeadlineOK
<1> SUFFICES ASSUME Init PROVE DeadlineOK
  OBVIOUS
<1>1. /\ passed = {} /\ rdl = 0 /\ wdl = 0 /\ cancelled = {} /\ ~givenUp /\ timedOut = {}
      /\ op = 0 /\ pc = "start"
  BY DEF Init
<1>2. \A c \in Ops : kind[c] # "deadline"
  BY DEF Init
<1>3. \A g \in Guards : guard[g] = "none"
  BY DEF Init
<1>4. ~unfinished
  BY DEF Init, unfinished
<1> QED
  BY <1>1, <1>2, <1>3, <1>4 DEF DeadlineOK

------------------------------------------------------------------------------
(* Where the deadlines on the connection come from.                          *)

\* A context that is done stays done.
LEMMA DoneStays ==
    ASSUME NEW o \in Nat, cancelled \subseteq cancelled', passed \subseteq passed',
           \A p \in 1..o : ctx'[p] = ctx[p], doneBy(o)
    PROVE  doneBy(o)'
<1>1. PICK p \in 1..o : ctxDone(ctx[p])
  BY DEF doneBy
<1>2. ctx'[p] \in cancelled' \cup passed'
  BY <1>1 DEF ctxDone
<1> QED
  BY <1>1, <1>2 DEF doneBy, ctxDone

\* A deadline that has passed is that of a context that is done.
LEMMA ExpiredDone ==
    ASSUME ClientTypeOK, NEW d, explained(d), expired(d)
    PROVE  doneBy(op)
<1>1. 0 \notin passed
  BY DEF ClientTypeOK, Ops
<1>2. \A o \in 1..op : ctx[o] # -1
  <2>1. \A o \in 1..op : o \in Ops
    BY ClientAssumption DEF ClientTypeOK, Ops
  <2>2. \A o \in 1..op : ctx[o] \in Ops
    BY <2>1 DEF ClientTypeOK
  <2> QED
    BY <2>2, ClientAssumption DEF Ops
<1>3. (d = -1 /\ doneBy(op)) \/ \E o \in 1..op : ctx[o] \in passed
  BY <1>1, <1>2 DEF explained, expired
<1> QED
  BY <1>3 DEF doneBy, ctxDone

\* A step inside an operation, or at its end.
LEMMA OriginKept ==
    ASSUME ClientTypeOK, OriginOK, UNCHANGED <<op, ctx, kind>>,
           cancelled \subseteq cancelled', passed \subseteq passed',
           \A d \in {rdl', wdl'} : d \in {0, rdl, wdl} \/ (op >= 1 /\ d = ctx[op]) \/ (d = -1 /\ doneBy(op)),
           timedOut' = timedOut \/ (\E d : timedOut' = timedOut \cup {<<op, d>>} /\ op >= 1 /\ doneBy(op)),
           unfinished' => guard'[op] # "stopped" /\ (guard'[op] = "ended" => rdl' = -1 \/ hasDeadline),
           \A g \in Guards : g > op => guard'[g] = guard[g],
           guard'[0] # "none" => op >= 1,
           pc' = "read" /\ hasDeadline => rdl' \in {-1, ctx[op]},
           pc' = "relay" /\ ~doneBy(op) => rdl' = 0 /\ wdl' = 0
    PROVE  OriginOK'
<1>0. op \in Nat
  BY DEF ClientTypeOK
<1>1. \A o \in Nat : doneBy(o) => doneBy(o)'
  BY DoneStays
<1>2. doneBy(op) => doneBy(op)'
  BY <1>0, <1>1
<1>3. ASSUME NEW d, d \in {0, rdl, wdl} \/ (op >= 1 /\ d = ctx[op]) \/ (d = -1 /\ doneBy(op))
      PROVE  d = 0 \/ (d = -1 /\ doneBy(op)) \/ \E o \in 1..op : d = ctx[o]
  BY <1>0, <1>3 DEF OriginOK, explained
<1>4. explained(rdl)' /\ explained(wdl)'
  <2>1. \A d \in {rdl', wdl'} : d = 0 \/ (d = -1 /\ doneBy(op)) \/ \E o \in 1..op : d = ctx[o]
    BY <1>3
  <2> QED
    BY <1>2, <2>1 DEF explained
<1>5. unfinished' => guard'[op'] # "stopped" /\ (guard'[op'] = "ended" => rdl' = -1 \/ hasDeadline')
  BY DEF hasDeadline
<1>6. (\A g \in Guards : g > op' => guard'[g] = "none") /\ (guard'[0] # "none" => op' >= 1)
  BY DEF OriginOK
<1>7. pc' = "read" /\ hasDeadline' => rdl' \in {-1, ctx'[op']}
  BY DEF hasDeadline
<1>8. pc' = "relay" /\ ~doneBy(op)' => rdl' = 0 /\ wdl' = 0
  BY <1>2
<1>9. \A t \in timedOut' : t[1] \in 1..op' /\ doneBy(t[1])'
  <2>1. \A t \in timedOut : t[1] \in 1..op /\ doneBy(t[1])
    BY DEF OriginOK
  <2>2. ASSUME NEW d, op >= 1, doneBy(op)
        PROVE  <<op, d>>[1] \in 1..op /\ doneBy(<<op, d>>[1])
    BY <1>0, <2>2
  <2>3. \A t \in timedOut' : t[1] \in 1..op /\ doneBy(t[1])
    BY <2>1, <2>2
  <2>4. 1..op \subseteq Nat
    BY <1>0
  <2>5. ASSUME NEW t \in timedOut' PROVE doneBy(t[1])'
    <3>1. PICK o \in Nat : o = t[1]
      BY <2>3, <2>4
    <3> QED
      BY <1>1, <2>3, <3>1
  <2> QED
    BY <2>3, <2>5
<1> QED
  BY <1>4, <1>5, <1>6, <1>7, <1>8, <1>9 DEF OriginOK

\* A new operation.
LEMMA OriginStarts ==
    ASSUME ClientTypeOK, OriginOK, op' = op + 1, op' \in Ops,
           \A p \in Ops : p # op' => ctx'[p] = ctx[p],
           UNCHANGED <<cancelled, passed, timedOut>>,
           rdl' \in {0, rdl, ctx'[op']}, wdl' \in {0, wdl, ctx'[op']},
           pc' \notin {"read", "relay"},
           guard'[op'] \in {"none", "armed"},
           \A g \in Guards : g > op' => guard'[g] = guard[g]
    PROVE  OriginOK'
<1>0. op \in Nat /\ op' \in Nat /\ op <= op' /\ op' >= 1 /\ op' \in 1..op'
      /\ (\A g \in Guards : g \in Nat) /\ \A p \in 1..op : p \in Ops /\ p # op' /\ p \in 1..op'
  BY ClientAssumption DEF ClientTypeOK, Guards, Ops
<1>1. \A o \in 0..op : doneBy(o) => doneBy(o)'
  <2>1. \A o \in 0..op : \A p \in 1..o : p \in 1..op
    BY <1>0
  <2> QED
    BY <1>0, <2>1, DoneStays
<1>3. ASSUME NEW d, explained(d) \/ d = 0 \/ d = ctx'[op']
      PROVE  d = 0 \/ (d = -1 /\ doneBy(op)') \/ \E o \in 1..op' : d = ctx'[o]
  <2>1. CASE explained(d)
    <3>1. (d = -1 /\ doneBy(op)) => doneBy(op)'
      <4>1. op \in 0..op
        BY <1>0
      <4>2. doneBy(op) => \E p \in 1..op : ctx[p] \in cancelled \cup passed
        BY DEF doneBy, ctxDone
      <4>3. doneBy(op) => \E p \in 1..op' : ctx'[p] \in cancelled' \cup passed'
        BY <1>0, <4>2
      <4> QED
        BY <4>3 DEF doneBy, ctxDone
    <3>2. (\E o \in 1..op : d = ctx[o]) => \E o \in 1..op' : d = ctx'[o]
      BY <1>0
    <3> QED
      BY <2>1, <3>1, <3>2 DEF explained
  <2>2. CASE d = 0 \/ d = ctx'[op']
    BY <1>0, <2>2
  <2> QED
    BY <1>3, <2>1, <2>2
<1>4. explained(rdl)' /\ explained(wdl)'
  <2>1. (explained(rdl') \/ rdl' = 0 \/ rdl' = ctx'[op']) /\ (explained(wdl') \/ wdl' = 0 \/ wdl' = ctx'[op'])
    BY DEF OriginOK
  <2>2. /\ rdl' = 0 \/ (rdl' = -1 /\ doneBy(op)') \/ \E o \in 1..op' : rdl' = ctx'[o]
        /\ wdl' = 0 \/ (wdl' = -1 /\ doneBy(op)') \/ \E o \in 1..op' : wdl' = ctx'[o]
    BY <1>3, <2>1
  <2> QED
    BY <2>2 DEF explained
<1>5. guard'[op'] # "stopped" /\ guard'[op'] # "ended"
  OBVIOUS
<1>6. (\A g \in Guards : g > op' => guard'[g] = "none") /\ (guard'[0] # "none" => op' >= 1)
  BY <1>0 DEF OriginOK
<1>7. \A t \in timedOut' : t[1] \in 1..op' /\ doneBy(t[1])'
  <2>1. \A t \in timedOut : t[1] \in 1..op /\ doneBy(t[1])
    BY DEF OriginOK
  <2>2. ASSUME NEW t \in timedOut PROVE t[1] \in 1..op' /\ doneBy(t[1])'
    <3>1. PICK o \in 1..op : o = t[1] /\ doneBy(o)
      BY <2>1
    <3>2. o \in 0..op /\ o \in 1..op'
      BY <1>0
    <3> QED
      BY <1>1, <3>1, <3>2
  <2> QED
    BY <2>2
<1> QED
  BY <1>4, <1>5, <1>6, <1>7 DEF OriginOK

\* A step that stops guards or none, and leaves the deadlines alone.
LEMMA OriginQuiet ==
    ASSUME ClientTypeOK, ControlOK, OriginOK, UNCHANGED <<op, ctx, kind, rdl, wdl>>,
           cancelled \subseteq cancelled', passed \subseteq passed',
           timedOut' = timedOut \/ (\E d : timedOut' = timedOut \cup {<<op, d>>} /\ op >= 1 /\ doneBy(op)),
           unfinished' => (unfinished /\ guard'[op] = guard[op]) \/ guard'[op] \in {"none", "armed"},
           \A g \in Guards : g > op => guard'[g] = guard[g],
           guard'[0] # "none" => op >= 1,
           pc' = "read" => pc = "read", pc' = "relay" => pc = "relay"
    PROVE  OriginOK'
<1>1. unfinished' => guard'[op] # "stopped" /\ (guard'[op] = "ended" => rdl' = -1 \/ hasDeadline)
  BY DEF OriginOK
<1>2. pc' = "read" /\ hasDeadline => rdl' \in {-1, ctx[op]}
  BY DEF OriginOK
<1>3. pc' = "relay" /\ ~doneBy(op) => rdl' = 0 /\ wdl' = 0
  BY DEF OriginOK
<1> QED
  BY <1>1, <1>2, <1>3, OriginKept

\* An operation that fails.
LEMMA FailOrigin ==
    ASSUME ClientTypeOK, ControlOK, OriginOK, pc \in {"handshake", "write", "read"},
           NEW next \in {"broken", "closed", "held"}, Fail(next),
           timedOut' = timedOut \/ (\E d : timedOut' = timedOut \cup {<<op, d>>} /\ doneBy(op))
    PROVE  OriginOK'
<1> USE DEF ctxVars, dlVars
<1>0. op \in Nat /\ op >= 1
  BY DEF ControlOK, ClientTypeOK
<1>1. ~body'.stop /\ pc' = next /\ UNCHANGED <<op, ctx, kind, cancelled, passed, rdl, wdl>>
  BY FailTyped
<1>2. ~unfinished'
  BY <1>1 DEF unfinished
<1>3. PICK gs \in SUBSET (0..op) : Stop(gs)
  BY <1>0, FailStopsOwn
<1>4. \A g \in Guards : g > op => guard'[g] = guard[g]
  BY <1>3, StopGuards
<1>5. pc' # "read" /\ pc' # "relay"
  BY <1>1
<1> QED
  BY <1>0, <1>1, <1>2, <1>4, <1>5, OriginQuiet

\* Every outcome of a line.
LEMMA OutcomeOrigin ==
    ASSUME ClientTypeOK, ControlOK, OriginOK, pc = "read", NEW l, Outcome(l),
           UNCHANGED <<mode, kind, cancelled, passed, secure, todo, net, gone, timedOut, givenUp>>
    PROVE  OriginOK'
<1> USE DEF ctxVars, dlVars, guardVars
<1>0. /\ op \in Guards /\ op \in Nat /\ op >= 1 /\ op \in Ops /\ ctx[op] \in Ops
      /\ \A g \in Guards : g \in Nat
  BY DeadlineTyped DEF ControlOK, ClientTypeOK, Guards
<1>1. unfinished
  BY DEF unfinished
<1>3. ASSUME NEW gs \in SUBSET (0..op), Stop(gs), UNCHANGED <<op, ctx, rdl, wdl>>,
             pc' \notin {"read", "relay"}, unfinished' => op \notin gs
      PROVE  OriginOK'
  <2>1. /\ \A g \in Guards : g > op => guard'[g] = guard[g]
        /\ op \notin gs => guard'[op] = guard[op]
    BY <1>3, StopGuards
  <2> QED
    BY <1>0, <1>1, <1>3, <2>1, OriginQuiet
<1>4. ASSUME UNCHANGED <<op, ctx, rdl, wdl, guard>>, pc' \notin {"read", "relay"}
      PROVE  OriginOK'
  BY <1>0, <1>1, <1>4, OriginQuiet
<1>5. CASE want \in {"status", "lines"} /\ (Complete \/ TooLong \/ Refuse)
  <2>1. Stop({op}) \/ Stop(deferred)
    BY <1>5 DEF Complete, TooLong, Refuse
  <2>2. {op} \in SUBSET (0..op) /\ deferred \in SUBSET (0..op)
    BY <1>0 DEF deferred
  <2>3. PICK gs \in SUBSET (0..op) : Stop(gs)
    BY <2>1, <2>2, Zenon
  <2>4. ~body.stop
    BY <1>5 DEF ControlOK
  <2>5. UNCHANGED <<op, ctx, rdl, wdl, body>> /\ pc' \in {"idle", "closed"}
    BY <1>5 DEF Complete, TooLong, Refuse
  <2>6. ~unfinished' /\ pc' \notin {"read", "relay"}
    BY <2>4, <2>5 DEF unfinished
  <2> QED
    BY <1>3, <2>3, <2>5, <2>6
<1>6. CASE want = "status" /\ cmd = "dial" /\ StartSTLS
  <2>1. UNCHANGED <<op, ctx, rdl, wdl>> /\ pc' = "armWrite"
    BY <1>6 DEF StartSTLS
  <2>2. \A g \in Guards : g # 0 => guard'[g] = guard[g]
    BY <1>6 DEF StartSTLS, ClientTypeOK
  <2>3. /\ \A g \in Guards : g > op => guard'[g] = guard[g]
        /\ guard'[op] = guard[op]
    <3>1. op # 0 /\ \A g \in Nat : g > op => g # 0
      BY <1>0
    <3> QED
      BY <1>0, <2>2, <3>1
  <2>4. pc' # "read" /\ pc' # "relay"
    BY <2>1
  <2> QED
    BY <1>0, <1>1, <2>1, <2>3, <2>4, OriginQuiet
<1>7. CASE want = "status" /\ cmd = "stls" /\ StartHandshake
  <2>1. /\ Stop({0}) /\ UNCHANGED <<op, ctx>> /\ pc' = "handshake"
        /\ \/ UNCHANGED <<rdl, wdl>>
           \/ rdl' = ctx[op] /\ wdl' = ctx[op] /\ hasDeadline
    BY <1>7 DEF StartHandshake
  <2>2. {0} \in SUBSET (0..op) /\ op \notin {0} /\ pc' \notin {"read", "relay"}
    BY <1>0, <2>1
  <2>3. (\A g \in Guards : g > op => guard'[g] = guard[g]) /\ guard'[op] = guard[op]
    BY <2>1, <2>2, StopGuards
  <2>4. guard'[op] # "stopped" /\ (guard'[op] = "ended" => rdl' = -1 \/ hasDeadline)
    BY <1>1, <2>1, <2>3 DEF OriginOK
  <2>5. \A d \in {rdl', wdl'} : d \in {0, rdl, wdl} \/ (op >= 1 /\ d = ctx[op])
    BY <1>0, <2>1
  <2> QED
    BY <1>0, <2>1, <2>2, <2>3, <2>4, <2>5, OriginKept
<1>8. CASE want = "status" /\ cmd = "user" /\ SendPass
  <2>1. /\ op' = op + 1 /\ op' \in Ops /\ op' \in Guards /\ pc' = "armWrite"
        /\ UNCHANGED <<rdl, wdl>>
    BY <1>0, <1>8, ClientAssumption DEF SendPass, ControlOK, Ops, Guards
  <2>2. ctx' = [ctx EXCEPT ![op'] = ctx[op]]
    BY <1>8, <2>1 DEF SendPass
  <2>3. \A p \in Ops : p # op' => ctx'[p] = ctx[p]
    BY <2>1, <2>2 DEF ClientTypeOK
  <2>4. guard' = [stopped({op}) EXCEPT ![op'] = armedGuard(kind[ctx[op]])]
    BY <1>8, <2>1 DEF SendPass
  <2>5. armedGuard(kind[ctx[op]]) \in {"none", "armed"}
    BY DEF armedGuard
  <2>6. /\ guard'[op'] \in {"none", "armed"}
        /\ \A g \in Guards : g > op' => guard'[g] = guard[g]
    BY <1>0, <2>1, <2>4, <2>5 DEF stopped
  <2>7. pc' \notin {"read", "relay"}
    BY <2>1
  <2> QED
    BY <2>1, <2>3, <2>6, <2>7, OriginStarts
<1>9. CASE (want = "status" /\ cmd = "multi" /\ ReadLines) \/ (want = "status" /\ cmd = "body" /\ GiveBody)
           \/ (want = "lines" /\ MoreLines) \/ (want \in {"body", "drain"} /\ BodyGoesOn)
  <2>1. UNCHANGED <<op, ctx, rdl, wdl, guard>> /\ pc' \in {"armRead", "held"}
    BY <1>9 DEF ReadLines, GiveBody, MoreLines, BodyGoesOn
  <2> QED
    BY <1>4, <2>1
<1>10. CASE want \in {"body", "drain"} /\ BodyEnds
  <2>1. UNCHANGED <<op, ctx, rdl, wdl>> /\ pc' \in {"held", "idle"} /\ finish /\ body.stop
    BY <1>10 DEF BodyEnds, ControlOK
  <2>2. Stop({op}) /\ ~body'.stop /\ {op} \in SUBSET (0..op)
    BY <1>0, <2>1 DEF finish
  <2>3. ~unfinished' /\ pc' \notin {"read", "relay"}
    BY <2>1, <2>2 DEF unfinished
  <2> QED
    BY <1>3, <2>1, <2>2, <2>3
<1> QED
  BY <1>5, <1>6, <1>7, <1>8, <1>9, <1>10 DEF Outcome

\* Every step sets deadlines that the contexts explain.
LEMMA OriginStep ==
    ASSUME ClientTypeOK, ControlOK, OriginOK, [Next]_cvars
    PROVE  OriginOK'
<1> USE DEF callVars, ctxVars, guardVars, dlVars, netVars, histVars
<1>0. /\ op \in Guards /\ op \in Nat /\ 0 \in Guards /\ 1 \in Guards /\ 1 \in Ops
      /\ \A g \in Guards : g \in Nat
  BY ClientAssumption DEF ClientTypeOK, Guards, Ops
<1>1. CASE ArmWrite \/ ArmRead
  <2>1. /\ op \in Ops /\ ctx[op] \in Ops
        /\ pc \in {"armWrite", "armRead"} /\ pc' \in {"write", "read"}
        /\ UNCHANGED <<op, ctx, kind, cancelled, passed, guard, timedOut>>
    BY <1>1, DeadlineTyped DEF ArmWrite, ArmRead
  <2>2. /\ rdl' = rdl \/ (rdl' = ctx[op] /\ hasDeadline)
        /\ wdl' = wdl \/ (wdl' = ctx[op] /\ hasDeadline)
        /\ pc' = "read" /\ hasDeadline => rdl' = ctx[op]
    <3>1. CASE ArmWrite
      BY <3>1 DEF ArmWrite
    <3>2. CASE ArmRead
      BY <3>2 DEF ArmRead
    <3> QED
      BY <1>1, <3>1, <3>2
  <2>3. unfinished /\ op >= 1 /\ pc' # "relay"
    BY <1>0, <2>1 DEF unfinished, Ops
  <2>4. guard'[op] # "stopped" /\ (guard'[op] = "ended" => rdl' = -1 \/ hasDeadline)
    BY <2>1, <2>2, <2>3 DEF OriginOK
  <2>5. \A d \in {rdl', wdl'} : d \in {0, rdl, wdl} \/ (op >= 1 /\ d = ctx[op])
    BY <2>2, <2>3
  <2> QED
    BY <2>1, <2>2, <2>3, <2>4, <2>5, OriginKept
<1>2. CASE Write \/ Fill \/ ServerAct \/ Terminated \/ Context \/ UNCHANGED cvars
  <2>1. /\ UNCHANGED <<op, ctx, kind, rdl, wdl, guard, timedOut, body>>
        /\ cancelled \subseteq cancelled' /\ passed \subseteq passed'
        /\ pc' = pc \/ (pc = "write" /\ pc' = "armRead")
    <3>1. CASE Write \/ Fill
      BY <3>1 DEF Write, Fill
    <3>2. CASE ServerAct
      BY <3>2 DEF ServerAct, ServerSends, ServerSendsHalf, ServerCloses
    <3>3. CASE Context
      BY <3>3 DEF Context, Cancel, DeadlinePasses
    <3>4. CASE Terminated \/ UNCHANGED cvars
      BY <3>4 DEF Terminated, cvars
    <3> QED
      BY <1>2, <3>1, <3>2, <3>3, <3>4
  <2>2. (unfinished' => unfinished) /\ (guard'[0] # "none" => op >= 1)
    BY <2>1 DEF unfinished, OriginOK
  <2>3. (pc' = "read" => pc = "read") /\ (pc' = "relay" => pc = "relay")
    BY <2>1
  <2> QED
    BY <2>1, <2>2, <2>3, OriginQuiet
<1>3. CASE WriteTimesOut \/ WriteFails \/ ReadTimesOut \/ LineTooLong \/ HandshakeFails
  <2>1. /\ pc \in {"handshake", "write", "read"} /\ Fail(brokenOff)
        /\ \/ timedOut' = timedOut
           \/ timedOut' = timedOut \cup {<<op, wdl>>} /\ expired(wdl)
           \/ timedOut' = timedOut \cup {<<op, rdl>>} /\ expired(rdl)
    BY <1>3 DEF WriteTimesOut, WriteFails, ReadTimesOut, LineTooLong, HandshakeFails, readTimedOut
  <2>2. PICK next \in {"broken", "closed"} : Fail(next)
    BY <2>1 DEF Fail, brokenOff
  <2>3. (expired(wdl) => doneBy(op)) /\ (expired(rdl) => doneBy(op))
    BY ExpiredDone DEF OriginOK
  <2>4. timedOut' = timedOut \/ (\E d : timedOut' = timedOut \cup {<<op, d>>} /\ doneBy(op))
    BY <2>1, <2>3, Zenon
  <2>5. pc \in {"handshake", "write", "read"} /\ next \in {"broken", "closed", "held"}
    BY <2>1
  <2> QED
    BY <2>2, <2>4, <2>5, FailOrigin
<1>4. CASE ReadFails
  <2>1. PICK next \in {brokenOff} \cup (IF want = "body" THEN {"held"} ELSE {}) : Fail(next)
    BY <1>4 DEF ReadFails
  <2>2. next \in {"broken", "closed", "held"} /\ pc \in {"handshake", "write", "read"}
    BY <1>4, <2>1 DEF brokenOff, ReadFails
  <2>3. timedOut' = timedOut
    BY <1>4 DEF ReadFails
  <2> QED
    BY <2>1, <2>2, <2>3, FailOrigin
<1>5. CASE TakeLine \/ TakeHalfLine
  <2>1. PICK l : Accept(l)
    BY <1>5 DEF TakeLine, TakeHalfLine
  <2>2. pc = "read"
    BY <1>5 DEF TakeLine, TakeHalfLine
  <2> QED
    BY <2>1, <2>2, AcceptOutcome, OutcomeOrigin
<1>6. CASE Handshake
  <2>1. /\ pc = "handshake" /\ pc' \in {"armRead", "idle"} /\ op = 1
        /\ UNCHANGED <<op, body, ctx, kind, cancelled, passed, rdl, wdl, timedOut>>
    BY <1>0, <1>6 DEF Handshake, ControlOK
  <2>2. pc' # "read" /\ pc' # "relay"
    BY <2>1
  <2>3. CASE cmd = "dial"
    <3>1. guard' = [guard EXCEPT ![1] = armedGuard(kind[1])]
      BY <1>6, <2>3 DEF Handshake
    <3>2. armedGuard(kind[1]) \in {"none", "armed"}
      BY DEF armedGuard
    <3>3. guard'[op] \in {"none", "armed"} /\ \A g \in Guards : g > op => guard'[g] = guard[g]
      BY <1>0, <2>1, <3>1, <3>2 DEF ClientTypeOK
    <3> QED
      BY <2>1, <2>2, <3>3, OriginQuiet
  <2>4. CASE cmd # "dial"
    <3>1. Stop({1}) /\ pc' = "idle" /\ ~body.stop /\ {1} \in SUBSET (0..op)
      BY <1>6, <2>1, <2>4 DEF Handshake, ControlOK
    <3>2. \A g \in Guards : g > op => guard'[g] = guard[g]
      BY <3>1, StopGuards
    <3>3. ~unfinished'
      BY <2>1, <3>1 DEF unfinished
    <3> QED
      BY <2>1, <2>2, <3>2, <3>3, OriginQuiet
  <2> QED
    BY <2>3, <2>4
<1>7. CASE Dial
  <2>1. /\ pc = "start" /\ op = 0 /\ op' = 1 /\ pc' \in {"handshake", "armRead"}
        /\ UNCHANGED <<cancelled, passed, timedOut>> /\ GiveContext(1)
    BY <1>7 DEF Dial, ControlOK
  <2>2. guard[1] = "none"
    BY <1>0, <2>1 DEF OriginOK
  <2>3. \A p \in Ops : p # op' => ctx'[p] = ctx[p]
    BY <1>0, <2>1, ContextTyped
  <2>4. ctx'[1] = 1
    BY <1>0, <2>1 DEF GiveContext, ClientTypeOK
  <2>5. rdl' \in {0, rdl, ctx'[op']} /\ wdl' \in {0, wdl, ctx'[op']}
    BY <1>7, <2>1, <2>4 DEF Dial
  <2>6. armedGuard(kind'[1]) \in {"none", "armed"}
    BY DEF armedGuard
  <2>7. guard' = guard \/ guard' = [guard EXCEPT ![1] = armedGuard(kind'[1])]
    BY <1>7 DEF Dial
  <2>8. guard'[op'] \in {"none", "armed"} /\ \A g \in Guards : g > op' => guard'[g] = guard[g]
    BY <1>0, <2>1, <2>2, <2>6, <2>7 DEF ClientTypeOK
  <2>9. op' = op + 1 /\ op' \in Ops /\ pc' \notin {"read", "relay"}
    BY <1>0, <2>1
  <2> QED
    BY <2>1, <2>3, <2>5, <2>8, <2>9, OriginStarts
<1>8. CASE DialFails \/ Close \/ EnterRelay
  <2>1. /\ UNCHANGED <<op, body, ctx, kind, cancelled, passed, guard, timedOut>>
        /\ \/ pc' = "closed" /\ UNCHANGED <<rdl, wdl>>
           \/ pc' = "relay" /\ rdl' = 0 /\ wdl' = 0
    BY <1>8 DEF DialFails, Close, EnterRelay
  <2>2. unfinished' => unfinished /\ ~(rdl' = 0 /\ wdl' = 0 /\ pc' = "relay")
    BY <1>8, <2>1 DEF unfinished, ControlOK, DialFails, Close, EnterRelay
  <2>3. unfinished' => guard'[op] # "stopped" /\ (guard'[op] = "ended" => rdl' = -1 \/ hasDeadline)
    BY <2>1, <2>2 DEF OriginOK
  <2>4. \A d \in {rdl', wdl'} : d \in {0, rdl, wdl}
    BY <2>1
  <2>5. /\ guard'[0] # "none" => op >= 1
        /\ pc' # "read"
        /\ pc' = "relay" => rdl' = 0 /\ wdl' = 0
    BY <2>1 DEF OriginOK
  <2> QED
    BY <2>1, <2>3, <2>4, <2>5, OriginKept
<1>9. CASE \E c \in {"status", "user", "multi", "body"} : Start(c)
  <2>1. /\ op' = op + 1 /\ op < MaxOps /\ pc' = "armWrite"
        /\ UNCHANGED <<cancelled, passed, timedOut, rdl, wdl>>
        /\ GiveContext(op + 1) /\ guard' = [guard EXCEPT ![op + 1] = armedGuard(kind'[ctx'[op + 1]])]
    BY <1>9 DEF Start, Begin
  <2>2. op' \in Ops /\ op + 1 \in Ops /\ op + 1 \in Guards /\ pc' \notin {"read", "relay"}
    BY <1>0, <2>1, ClientAssumption DEF Ops, Guards
  <2>4. \A p \in Ops : p # op' => ctx'[p] = ctx[p]
    <3>1. PICK o \in Ops : o = op + 1
      BY <2>2
    <3>2. GiveContext(o)
      BY <2>1, <3>1
    <3> QED
      BY <2>1, <3>1, <3>2, ContextTyped
  <2>5. armedGuard(kind'[ctx'[op + 1]]) \in {"none", "armed"}
    BY DEF armedGuard
  <2>6. guard'[op'] \in {"none", "armed"} /\ \A g \in Guards : g > op' => guard'[g] = guard[g]
    BY <1>0, <2>1, <2>2, <2>5 DEF ClientTypeOK
  <2> QED
    BY <2>1, <2>2, <2>4, <2>6, OriginStarts
<1>10. CASE ReadBody \/ CloseBody
  <2>1. /\ pc \in {"held", "broken"} /\ pc' \in {"armRead", "closed", "idle"}
        /\ UNCHANGED <<op, ctx, kind, cancelled, passed, rdl, wdl, timedOut>>
    BY <1>10 DEF ReadBody, CloseBody
  <2>2. pc' # "read" /\ pc' # "relay" /\ op >= 1
    BY <2>1 DEF ControlOK
  <2>3. CASE ReadBody \/ ~body.done
    <3>1. UNCHANGED <<body, guard>> /\ ~body.done
      BY <1>10, <2>3 DEF ReadBody, CloseBody
    <3>2. unfinished
      BY <2>1, <3>1 DEF unfinished, ControlOK, ClientTypeOK
    <3> QED
      BY <2>1, <2>2, <3>1, <3>2, OriginQuiet
  <2>4. CASE CloseBody /\ body.done
    <3>1. finish /\ pc' \in {"closed", "idle"} /\ ~body.stop
      BY <2>4 DEF CloseBody, ControlOK, ClientTypeOK
    <3>2. Stop({}) /\ ~body'.stop
      BY <3>1 DEF finish
    <3>3. ~unfinished'
      BY <3>1, <3>2 DEF unfinished
    <3>4. \A g \in Guards : g > op => guard'[g] = guard[g]
      BY <3>2, StopGuards
    <3> QED
      BY <2>1, <2>2, <3>3, <3>4, OriginQuiet
  <2> QED
    BY <1>10, <2>3, <2>4
<1>12. CASE \E g \in Guards : GuardStep(g)
  <2>1. PICK g \in Guards : GuardStep(g)
    BY <1>12
  <2>2. /\ guard' = [guard EXCEPT ![g] = "ended"] /\ guard[g] \in {"armed", "stopped"}
        /\ UNCHANGED <<pc, op, body, ctx, kind, cancelled, passed, timedOut>>
        /\ \/ ctxDone(guardCtx(g)) /\ rdl' = -1 /\ wdl' = -1
           \/ guard[g] = "stopped" /\ rdl' = rdl /\ wdl' = wdl
    BY <2>1 DEF GuardStep, GuardFires, GuardEnds
  <2>3. g <= op /\ op >= 1
    BY <1>0, <2>2 DEF OriginOK
  <2>4. ctxDone(guardCtx(g)) => doneBy(op)
    <3>1. (IF g = 0 THEN 1 ELSE g) \in 1..op
      BY <1>0, <2>3
    <3> QED
      BY <3>1 DEF guardCtx, doneBy
  <2>5. guard'[g] = "ended" /\ \A h \in Guards : h # g => guard'[h] = guard[h]
    BY <2>2 DEF ClientTypeOK
  <2>6. \A h \in Guards : h > op => guard'[h] = guard[h]
    BY <1>0, <2>3, <2>5
  <2>7. unfinished' => guard'[op] # "stopped" /\ (guard'[op] = "ended" => rdl' = -1 \/ hasDeadline)
    <3>1. unfinished' => unfinished
      BY <2>2 DEF unfinished
    <3>2. unfinished /\ g = op => rdl' = -1
      BY <2>2 DEF OriginOK
    <3>3. rdl = -1 => rdl' = -1
      BY <2>2
    <3> QED
      BY <1>0, <2>5, <3>1, <3>2, <3>3 DEF OriginOK
  <2>8. \A d \in {rdl', wdl'} : d \in {0, rdl, wdl} \/ (d = -1 /\ doneBy(op))
    BY <2>2, <2>4
  <2>9. pc' = "read" /\ hasDeadline => rdl' \in {-1, ctx[op]}
    BY <2>2 DEF OriginOK
  <2>10. pc' = "relay" /\ ~doneBy(op) => rdl' = 0 /\ wdl' = 0
    BY <2>2, <2>4 DEF OriginOK
  <2> QED
    BY <2>2, <2>3, <2>6, <2>7, <2>8, <2>9, <2>10, OriginKept
<1>14. Call => \/ Dial \/ DialFails \/ Close \/ EnterRelay \/ ReadBody \/ CloseBody
               \/ \E c \in {"status", "user", "multi", "body"} : Start(c)
  BY DEF Call, Cmd, XClient, AuthPlain, User, Stat, ListOne, UidlOne, Dele, Capa, List, Uidl,
     retrieve
<1> QED
  BY <1>1, <1>2, <1>3, <1>4, <1>5, <1>6, <1>7, <1>8, <1>9, <1>10, <1>12, <1>14 DEF Next, Step

(* With every kind of context, cancelled at any time, and any number of      *)
(* operations: an operation times out only if its context or that of an      *)
(* earlier one is done; the guard's poisoned deadline is undone only by the  *)
(* context's own; and a relay finds the deadlines cleared unless a context   *)
(* the caller used is done - guard, writeCmd, readLine and SetDeadline       *)
(* interleaved in any order.                                                 *)
THEOREM DeadlinesHold == Spec => []DeadlinesExplained
<1>1. Init => OriginOK
  <2> SUFFICES ASSUME Init PROVE OriginOK
    OBVIOUS
  <2>1. rdl = 0 /\ wdl = 0 /\ timedOut = {} /\ pc = "start"
    BY DEF Init
  <2>2. \A g \in Guards : guard[g] = "none"
    BY DEF Init
  <2>3. ~unfinished /\ 0 \in Guards
    BY ClientAssumption DEF Init, unfinished, Guards
  <2> QED
    BY <2>1, <2>2, <2>3 DEF OriginOK, explained
<1>2. ClientTypeOK /\ ControlOK /\ OriginOK /\ [Next]_cvars => OriginOK'
  BY OriginStep
<1>3. OriginOK => DeadlinesExplained
  <2> SUFFICES ASSUME OriginOK PROVE DeadlinesExplained
    OBVIOUS
  <2>1. CancellationSticks \/ (hasDeadline /\ rdl = ctx[op])
    BY DEF CancellationSticks, OriginOK, unfinished, expired
  <2> QED
    BY <2>1 DEF DeadlinesExplained, OriginOK
<1> QED
  BY Kept, <1>1, <1>2, <1>3, PTL DEF Spec

------------------------------------------------------------------------------
(* Answers, as sequences of lines.                                           *)

\* Three sequences behind each other.
LEMMA Concat3 ==
    ASSUME NEW a \in Seq(Line), NEW b \in Seq(Line), NEW c \in Seq(Line)
    PROVE  /\ a \o (b \o c) \in Seq(Line) /\ Len(a \o (b \o c)) = Len(a) + Len(b) + Len(c)
           /\ \A i \in 1..Len(a) : (a \o (b \o c))[i] = a[i]
           /\ \A i \in 1..Len(b) : (a \o (b \o c))[Len(a) + i] = b[i]
           /\ \A i \in 1..Len(c) : (a \o (b \o c))[Len(a) + Len(b) + i] = c[i]
<1>0. Len(a) \in Nat /\ Len(b) \in Nat /\ Len(c) \in Nat
  OBVIOUS
<1>9. b \o c \in Seq(Line)
  BY ConcatProperties
<1>1. PICK d \in Seq(Line) : d = b \o c
  BY <1>9, Zenon
<1>2. /\ d \in Seq(Line) /\ Len(d) = Len(b) + Len(c)
      /\ \A i \in 1..(Len(b) + Len(c)) : d[i] = IF i <= Len(b) THEN b[i] ELSE c[i - Len(b)]
  BY <1>1, ConcatProperties
<1>3. /\ a \o d \in Seq(Line) /\ Len(a \o d) = Len(a) + Len(d)
      /\ \A i \in 1..(Len(a) + Len(d)) : (a \o d)[i] = IF i <= Len(a) THEN a[i] ELSE d[i - Len(a)]
  BY <1>1, ConcatProperties
<1>4. PICK e : e = a \o d
  OBVIOUS
<1>5. \A i \in 1..Len(a) : e[i] = a[i]
  BY <1>0, <1>2, <1>3, <1>4
<1>6. \A i \in 1..Len(d) : e[Len(a) + i] = d[i]
  BY <1>0, <1>2, <1>3, <1>4
<1>7. \A i \in 1..Len(b) : e[Len(a) + i] = b[i]
  <2> SUFFICES ASSUME NEW i \in 1..Len(b) PROVE e[Len(a) + i] = b[i]
    OBVIOUS
  <2>1. i \in 1..Len(d) /\ i \in 1..(Len(b) + Len(c)) /\ i <= Len(b)
    BY <1>0, <1>2
  <2> QED
    BY <1>2, <1>6, <2>1
<1>8. \A i \in 1..Len(c) : e[Len(a) + Len(b) + i] = c[i]
  <2> SUFFICES ASSUME NEW i \in 1..Len(c) PROVE e[Len(a) + Len(b) + i] = c[i]
    OBVIOUS
  <2>1. Len(b) + i \in 1..Len(d) /\ Len(a) + (Len(b) + i) = Len(a) + Len(b) + i
    BY <1>0, <1>2
  <2>2. d[Len(b) + i] = c[i]
    BY <1>0, <1>2
  <2>3. e[Len(a) + (Len(b) + i)] = d[Len(b) + i]
    BY <1>6, <2>1
  <2> QED
    BY <2>1, <2>2, <2>3
<1>10. e \in Seq(Line) /\ Len(e) = Len(a) + Len(b) + Len(c)
  <2>1. Len(a) + (Len(b) + Len(c)) = Len(a) + Len(b) + Len(c)
    BY <1>0
  <2> QED
    BY <1>2, <1>3, <1>4, <2>1, Zenon
<1>11. e = a \o (b \o c)
  BY <1>1, <1>4, Zenon
<1> QED
  BY <1>5, <1>7, <1>8, <1>10, <1>11, Zenon

\* Concatenation, as a name to reason with.
cat(s, t) == s \o t

\* Concatenation is associative.
LEMMA Regroup ==
    /\ \A s, t \in Seq(Line) : cat(s, t) \in Seq(Line)
    /\ \A s, t, u \in Seq(Line) : cat(cat(s, t), u) = cat(s, cat(t, u))
<1>1. ASSUME NEW s \in Seq(Line), NEW t \in Seq(Line)
      PROVE  s \o t \in Seq(Line)
  BY ConcatProperties
<1>2. ASSUME NEW s \in Seq(Line), NEW t \in Seq(Line), NEW u \in Seq(Line)
      PROVE  (s \o t) \o u = s \o (t \o u)
  BY ConcatAssociative
<1> QED
  BY <1>1, <1>2, Zenon DEF cat

\* What moves from the network to the reader, or from the server to the network,
\* stays in its place.
LEMMA MovedOn ==
    ASSUME NEW a \in Seq(Line), NEW b \in Seq(Line), NEW c \in Seq(Line)
    PROVE  /\ \A n \in 1..Len(b) :
                (a \o SubSeq(b, 1, n)) \o (SubSeq(b, n + 1, Len(b)) \o c) = a \o (b \o c)
           /\ c # <<>> => a \o (Append(b, Head(c)) \o Tail(c)) = a \o (b \o c)
<1>1. ASSUME NEW n \in 1..Len(b)
      PROVE  (a \o SubSeq(b, 1, n)) \o (SubSeq(b, n + 1, Len(b)) \o c) = a \o (b \o c)
  <2>1. PICK x : x = SubSeq(b, 1, n)
    OBVIOUS
  <2>2. PICK y : y = SubSeq(b, n + 1, Len(b))
    OBVIOUS
  <2>3. x \in Seq(Line)
    BY <2>1
  <2>4. y \in Seq(Line)
    BY <2>2
  <2>5. cat(x, y) = b
    <3>1. 1 \in 1..(Len(b) + 1) /\ n \in 0..Len(b) /\ Len(b) \in n..Len(b)
      OBVIOUS
    <3>2. SubSeq(b, 1, n) \o SubSeq(b, n + 1, Len(b)) = SubSeq(b, 1, Len(b))
      BY <3>1, ConcatAdjacentSubSeq
    <3>3. SubSeq(b, 1, Len(b)) = b
      OBVIOUS
    <3> QED
      BY <2>1, <2>2, <3>2, <3>3 DEF cat
  <2>6. cat(y, c) \in Seq(Line)
    BY <2>4, Regroup
  <2>7. cat(cat(a, x), cat(y, c)) = cat(a, cat(x, cat(y, c)))
    BY <2>3, <2>6, Regroup
  <2>8. cat(x, cat(y, c)) = cat(cat(x, y), c)
    BY <2>3, <2>4, Regroup
  <2>9. cat(cat(a, x), cat(y, c)) = cat(a, cat(b, c))
    BY <2>5, <2>7, <2>8
  <2> QED
    BY <2>1, <2>2, <2>9 DEF cat
<1>2. ASSUME c # <<>>
      PROVE  a \o (Append(b, Head(c)) \o Tail(c)) = a \o (b \o c)
  <2>1. PICK h \in Line : h = Head(c)
    BY <1>2
  <2>2. PICK t : t = Tail(c)
    OBVIOUS
  <2>3. t \in Seq(Line) /\ <<h>> \o t = c
    BY <1>2, <2>1, <2>2
  <2>4. <<h>> \in Seq(Line) /\ Append(b, h) = b \o <<h>>
    BY <2>1, AppendIsConcat
  <2>5. cat(cat(b, <<h>>), t) = cat(b, cat(<<h>>, t))
    BY <2>3, <2>4, Regroup
  <2>6. cat(a, cat(Append(b, h), t)) = cat(a, cat(b, c))
    BY <2>3, <2>4, <2>5 DEF cat
  <2> QED
    BY <2>1, <2>2, <2>6 DEF cat
<1> QED
  BY <1>1, <1>2

\* The same, with names for what moves.
joined(a, b, c)   == a \o (b \o c)
fills(a, b, x, y) == \E n \in 1..Len(b) : x = a \o SubSeq(b, 1, n) /\ y = SubSeq(b, n + 1, Len(b))
sends(b, c, y, z) == c # <<>> /\ y = Append(b, Head(c)) /\ z = Tail(c)

\* Lines that move on, from the server to the wire or from there to the buffer, keep their order.
LEMMA MovedJoined ==
    ASSUME NEW a \in Seq(Line), NEW b \in Seq(Line), NEW c \in Seq(Line), NEW x, NEW y, NEW z
    PROVE  /\ fills(a, b, x, y) => joined(x, y, c) = joined(a, b, c)
           /\ sends(b, c, y, z) => joined(a, y, z) = joined(a, b, c)
<1>1. ASSUME fills(a, b, x, y) PROVE joined(x, y, c) = joined(a, b, c)
  <2>1. PICK n \in 1..Len(b) : x = a \o SubSeq(b, 1, n) /\ y = SubSeq(b, n + 1, Len(b))
    BY <1>1 DEF fills
  <2>2. (a \o SubSeq(b, 1, n)) \o (SubSeq(b, n + 1, Len(b)) \o c) = a \o (b \o c)
    BY MovedOn, Zenon
  <2> QED
    BY <2>1, <2>2, Zenon DEF joined
<1>2. ASSUME sends(b, c, y, z) PROVE joined(a, y, z) = joined(a, b, c)
  <2>1. a \o (Append(b, Head(c)) \o Tail(c)) = a \o (b \o c)
    BY <1>2, MovedOn, Zenon DEF sends
  <2> QED
    BY <1>2, <2>1, Zenon DEF sends, joined
<1> QED
  BY <1>1, <1>2

\* What is taken from the front of the reader is taken from the front of the stream.
LEMMA TakenOff ==
    ASSUME NEW a \in Seq(Line), NEW d \in Seq(Line), NEW n \in 0..Len(a)
    PROVE  /\ SubSeq(a, n + 1, Len(a)) \o d = SubSeq(a \o d, n + 1, Len(a \o d))
           /\ \A i \in 1..n : (a \o d)[i] = a[i]
<1>0. Len(a) \in Nat /\ Len(d) \in Nat
  OBVIOUS
<1>13. a \o d \in Seq(Line)
  BY ConcatProperties
<1>1. PICK e \in Seq(Line) : e = a \o d
  BY <1>13, Zenon
<1>2. /\ e \in Seq(Line) /\ Len(e) = Len(a) + Len(d)
      /\ \A i \in 1..(Len(a) + Len(d)) : e[i] = IF i <= Len(a) THEN a[i] ELSE d[i - Len(a)]
  BY <1>1, ConcatProperties
<1>3. PICK x : x = SubSeq(a, n + 1, Len(a))
  OBVIOUS
<1>4. x \in Seq(Line) /\ Len(x) = Len(a) - n /\ \A i \in 1..(Len(a) - n) : x[i] = a[n + i]
  BY <1>0, <1>3
<1>5. PICK y : y = SubSeq(e, n + 1, Len(e))
  OBVIOUS
<1>6. y \in Seq(Line) /\ Len(y) = Len(e) - n /\ \A i \in 1..(Len(e) - n) : y[i] = e[n + i]
  <2>1. n \in 0..Len(e)
    BY <1>0, <1>2
  <2> QED
    BY <1>5, <2>1
<1>7. PICK z : z = x \o d
  OBVIOUS
<1>8. /\ z \in Seq(Line) /\ Len(z) = Len(x) + Len(d)
      /\ \A i \in 1..(Len(x) + Len(d)) : z[i] = IF i <= Len(x) THEN x[i] ELSE d[i - Len(x)]
  BY <1>4, <1>7, ConcatProperties
<1>9. Len(z) = Len(y)
  BY <1>0, <1>2, <1>4, <1>6, <1>8
<1>10. \A i \in 1..Len(z) : z[i] = y[i]
  <2> SUFFICES ASSUME NEW i \in 1..Len(z) PROVE z[i] = y[i]
    OBVIOUS
  <2>1. y[i] = e[n + i] /\ n + i \in 1..(Len(a) + Len(d))
    <3>1. i \in 1..(Len(e) - n)
      BY <1>6, <1>9
    <3>2. n + i \in 1..(Len(a) + Len(d))
      BY <1>0, <1>2, <3>1
    <3> QED
      BY <1>6, <3>1, <3>2
  <2>2. CASE i <= Len(x)
    <3>1. i \in 1..(Len(a) - n) /\ n + i <= Len(a)
      BY <1>0, <1>4, <2>2
    <3>2. z[i] = x[i] /\ x[i] = a[n + i] /\ e[n + i] = a[n + i]
      BY <1>2, <1>4, <1>8, <2>1, <2>2, <3>1
    <3> QED
      BY <2>1, <3>2
  <2>3. CASE i > Len(x)
    <3>1. n + i > Len(a) /\ i - Len(x) = n + i - Len(a)
      BY <1>0, <1>4, <2>3
    <3>2. z[i] = d[i - Len(x)]
      BY <1>4, <1>8, <2>3
    <3>3. e[n + i] = d[n + i - Len(a)]
      BY <1>0, <1>2, <2>1, <3>1
    <3> QED
      BY <2>1, <3>1, <3>2, <3>3
  <2> QED
    BY <1>4, <2>2, <2>3
<1>11. z = y
  BY <1>6, <1>8, <1>9, <1>10, SeqEqual
<1>12. \A i \in 1..n : e[i] = a[i]
  BY <1>0, <1>2
<1> QED
  BY <1>1, <1>3, <1>5, <1>7, <1>11, <1>12

\* An answer that has not been sent yet.
LEMMA WholeAnswer ==
    ASSUME NEW s \in Seq(Line), NEW o, NEW b, NEW c,
           \A i \in 1..Len(s) : s[i].op = o /\ s[i].tls = b /\ s[i].part = "whole",
           c # "stls" => \A i \in 1..Len(s) : lastOf(s[i], c) => i = Len(s)
    PROVE  answers(s, o, b, c)
<1>1. ours(s, o, b)
  BY DEF ours
<1>2. \A i \in 2..Len(s) : i \in 1..Len(s)
  OBVIOUS
<1>3. s # <<>> => 1 \in 1..Len(s)
  OBVIOUS
<1>4. paired(s)
  BY <1>2, <1>3 DEF paired
<1>5. c # "stls" => endsOnce(s, c)
  BY DEF endsOnce
<1> QED
  BY <1>1, <1>4, <1>5 DEF answers

\* No line, nothing to show.
LEMMA EmptyAnswer == \A o, b, c : answers(<<>>, o, b, c)
<1> SUFFICES ASSUME NEW o, NEW b, NEW c PROVE answers(<<>>, o, b, c)
  OBVIOUS
<1>0. <<>> \in Seq(Line)
  OBVIOUS
<1>1. PICK s \in Seq(Line) : s = <<>>
  BY <1>0, Zenon
<1>2. \A i \in 1..Len(s) : FALSE
  BY <1>1
<1>3. answers(s, o, b, c)
  BY <1>1, <1>2, WholeAnswer
<1> QED
  BY <1>1, <1>3

\* A line is sent in halves.
LEMMA HalvedAnswer ==
    ASSUME NEW s \in Seq(Line), NEW o, NEW b, NEW c, answers(s, o, b, c), Split,
           NEW p \in 1..Len(s), s[p].part = "whole",
           NEW t \in Seq(Line), Len(t) = Len(s) + 1,
           \A i \in 1..(p - 1) : t[i] = s[i],
           t[p] = [s[p] EXCEPT !.part = "head"],
           t[p + 1] = [s[p] EXCEPT !.part = "tail"],
           \A i \in (p + 1)..Len(s) : t[i + 1] = s[i]
    PROVE  answers(t, o, b, c)
<1>0. Len(s) \in Nat /\ p \in Nat /\ p >= 1 /\ p <= Len(s) /\ s[p] \in Line
  OBVIOUS
<1>1. /\ t[p].part = "head" /\ t[p].op = s[p].op /\ t[p].tls = s[p].tls /\ t[p].kind = s[p].kind
      /\ t[p + 1].part = "tail" /\ t[p + 1].op = s[p].op /\ t[p + 1].tls = s[p].tls
      /\ t[p + 1].kind = s[p].kind
  BY <1>0, PartTyped
<1>2. t[p + 1] = [t[p] EXCEPT !.part = "tail"]
  <2>1. \A l \in Line : [l EXCEPT !.part = "tail"] = [[l EXCEPT !.part = "head"] EXCEPT !.part = "tail"]
    BY DEF Line
  <2> QED
    BY <1>0, <2>1
\* Where each line of t comes from.
<1>3. ASSUME NEW i \in 1..Len(t)
      PROVE  \/ i \in 1..(p - 1) /\ t[i] = s[i] /\ i \in 1..Len(s)
             \/ i = p
             \/ i = p + 1
             \/ i - 1 \in (p + 1)..Len(s) /\ t[i] = s[i - 1] /\ i - 1 \in 1..Len(s)
  <2>1. \/ i \in 1..(p - 1) /\ i \in 1..Len(s)
        \/ i = p
        \/ i = p + 1
        \/ i - 1 \in (p + 1)..Len(s) /\ i - 1 \in 1..Len(s)
    BY <1>0, <1>3
  <2>2. i - 1 + 1 = i
    BY <1>3
  <2>3. i - 1 \in (p + 1)..Len(s) => t[i] = s[i - 1]
    BY <2>2
  <2> QED
    BY <2>1, <2>3
<1>4. ours(s, o, b) /\ paired(s) /\ (c # "stls" => endsOnce(s, c))
  BY DEF answers
<1>5. ours(t, o, b)
  <2> SUFFICES ASSUME NEW i \in 1..Len(t) PROVE t[i].op = o /\ t[i].tls = b
    BY DEF ours
  <2>1. \A j \in 1..Len(s) : s[j].op = o /\ s[j].tls = b
    BY <1>4 DEF ours
  <2> QED
    BY <1>1, <1>3, <2>1
<1>6. t # <<>> => t[1].part # "tail"
  <2>1. CASE p = 1
    BY <1>1, <2>1
  <2>2. CASE p # 1
    <3>1. 1 \in 1..(p - 1) /\ s # <<>>
      BY <1>0, <2>2
    <3> QED
      BY <1>4, <3>1 DEF paired
  <2> QED
    BY <2>1, <2>2
<1>7. \A i \in 1..Len(t) :
         t[i].part = "head" => i < Len(t) /\ t[i + 1] = [t[i] EXCEPT !.part = "tail"]
  <2> SUFFICES ASSUME NEW i \in 1..Len(t), t[i].part = "head"
               PROVE  i < Len(t) /\ t[i + 1] = [t[i] EXCEPT !.part = "tail"]
    OBVIOUS
  <2>0. \A j \in 1..Len(s) :
           s[j].part = "head" => j < Len(s) /\ s[j + 1] = [s[j] EXCEPT !.part = "tail"]
    BY <1>4 DEF paired
  <2>1. CASE i \in 1..(p - 1) /\ t[i] = s[i] /\ i \in 1..Len(s)
    <3>1. i < Len(s) /\ s[i + 1] = [s[i] EXCEPT !.part = "tail"]
      BY <2>0, <2>1
    <3>2. s[i + 1].part = "tail"
      <4>1. s[i] \in Line
        BY <2>1
      <4> QED
        BY <3>1, <4>1, PartTyped
    <3>3. i + 1 # p
      BY <3>2
    <3>4. i + 1 \in 1..(p - 1)
      BY <1>0, <2>1, <3>3
    <3>5. t[i + 1] = s[i + 1]
      BY <3>4
    <3> QED
      BY <1>0, <2>1, <3>1, <3>5
  <2>2. CASE i = p
    <3>1. p < Len(t)
      BY <1>0
    <3> QED
      BY <1>2, <2>2, <3>1
  <2>3. CASE i = p + 1
    BY <1>1, <2>3
  <2>4. CASE i - 1 \in (p + 1)..Len(s) /\ t[i] = s[i - 1] /\ i - 1 \in 1..Len(s)
    <3>1. i - 1 < Len(s) /\ s[i - 1 + 1] = [s[i - 1] EXCEPT !.part = "tail"]
      BY <2>0, <2>4
    <3>2. i - 1 + 1 = i /\ i \in (p + 1)..Len(s) /\ i < Len(t)
      BY <1>0, <2>4, <3>1
    <3>3. t[i + 1] = s[i]
      BY <3>2
    <3> QED
      BY <2>4, <3>1, <3>2, <3>3
  <2> QED
    BY <1>3, <2>1, <2>2, <2>3, <2>4
<1>8. \A i \in 2..Len(t) : t[i].part = "tail" => t[i - 1].part = "head"
  <2> SUFFICES ASSUME NEW i \in 2..Len(t), t[i].part = "tail"
               PROVE  t[i - 1].part = "head"
    OBVIOUS
  <2>0. \A j \in 2..Len(s) : s[j].part = "tail" => s[j - 1].part = "head"
    BY <1>4 DEF paired
  <2>1. CASE i \in 1..(p - 1) /\ t[i] = s[i] /\ i \in 1..Len(s)
    <3>1. i - 1 \in 1..(p - 1) /\ i \in 2..Len(s)
      BY <1>0, <2>1
    <3> QED
      BY <2>0, <2>1, <3>1
  <2>2. CASE i = p
    BY <1>1, <2>2
  <2>3. CASE i = p + 1
    <3>1. i - 1 = p
      BY <1>0, <2>3
    <3> QED
      BY <1>1, <3>1
  <2>4. CASE i - 1 \in (p + 1)..Len(s) /\ t[i] = s[i - 1] /\ i - 1 \in 1..Len(s)
    <3>1. i - 1 \in 2..Len(s)
      BY <1>0, <2>4
    <3>2. s[i - 1 - 1].part = "head"
      BY <2>0, <2>4, <3>1
    <3>3. i - 1 - 1 # p
      BY <3>2
    <3>4. i - 1 - 1 \in (p + 1)..Len(s) /\ i - 1 - 1 + 1 = i - 1
      BY <1>0, <2>4, <3>3
    <3>5. t[i - 1 - 1 + 1] = s[i - 1 - 1]
      BY <3>4
    <3> QED
      BY <3>2, <3>4, <3>5
  <2>5. i \in 1..Len(t)
    OBVIOUS
  <2> QED
    BY <1>3, <2>1, <2>2, <2>3, <2>4, <2>5
<1>9. paired(t)
  BY <1>6, <1>7, <1>8 DEF paired
<1>10. c # "stls" => endsOnce(t, c)
  <2> SUFFICES ASSUME c # "stls", NEW i \in 1..Len(t), t[i].part # "head", lastOf(t[i], c)
               PROVE  i = Len(t)
    BY DEF endsOnce
  <2>0. \A j \in 1..Len(s) : s[j].part # "head" /\ lastOf(s[j], c) => j = Len(s)
    BY <1>4 DEF endsOnce
  <2>1. CASE i \in 1..(p - 1) /\ t[i] = s[i] /\ i \in 1..Len(s)
    <3>1. i = Len(s)
      BY <2>0, <2>1
    <3> QED
      BY <1>0, <2>1, <3>1
  <2>2. CASE i = p
    BY <1>1, <2>2
  <2>3. CASE i = p + 1
    <3>1. lastOf(s[p], c)
      BY <1>1, <2>3 DEF lastOf
    <3>2. p = Len(s)
      BY <2>0, <3>1
    <3> QED
      BY <1>0, <2>3, <3>2
  <2>4. CASE i - 1 \in (p + 1)..Len(s) /\ t[i] = s[i - 1] /\ i - 1 \in 1..Len(s)
    <3>1. i - 1 = Len(s)
      BY <2>0, <2>4
    <3> QED
      BY <1>0, <3>1
  <2> QED
    BY <1>3, <2>1, <2>2, <2>3, <2>4
<1> QED
  BY <1>5, <1>9, <1>10 DEF answers

\* What stays of s when its first line, of n parts, is taken.
isRest(t, s, n) ==
    /\ n \in {1, 2} /\ (n = 2 <=> s[1].part = "head")
    /\ t = SubSeq(s, n + 1, Len(s))

\* A line is taken from the front: what stays is the rest of the answer, and nothing
\* stays behind the line that completes the command.
LEMMA RestOfAnswer ==
    ASSUME NEW s \in Seq(Line), NEW o, NEW b, NEW c, answers(s, o, b, c), s # <<>>,
           NEW n, NEW t \in Seq(Line), isRest(t, s, n)
    PROVE  /\ n \in 1..Len(s) /\ answers(t, o, b, c)
           /\ s[1].op = o /\ s[1].tls = b /\ s[1].part \in {"whole", "head"}
           /\ c # "stls" /\ lastOf(s[1], c) => t = <<>>
<1>0. Len(s) \in Nat /\ 1 \in 1..Len(s) /\ s[1] \in Line
  OBVIOUS
<1> n \in {1, 2} /\ (n = 2 <=> s[1].part = "head") /\ t = SubSeq(s, n + 1, Len(s))
  BY DEF isRest
<1>1. ours(s, o, b) /\ paired(s) /\ (c # "stls" => endsOnce(s, c))
  BY DEF answers
<1>2. s[1].op = o /\ s[1].tls = b
  BY <1>0, <1>1 DEF ours
<1>3. s[1].part \in {"whole", "head"}
  BY <1>0, <1>1 DEF paired, Line
<1>4. n = 2 => 1 < Len(s) /\ s[2] = [s[1] EXCEPT !.part = "tail"]
  <2>1. n = 2 => 1 < Len(s) /\ s[1 + 1] = [s[1] EXCEPT !.part = "tail"]
    BY <1>0, <1>1 DEF paired
  <2> QED
    BY <2>1
<1>5. n \in 1..Len(s)
  BY <1>0, <1>4
<1>6. Len(t) = Len(s) - n /\ \A i \in 1..Len(t) : t[i] = s[n + i] /\ n + i \in 1..Len(s)
  <2>1. Len(t) = Len(s) - n
    BY <1>0, <1>5
  <2>2. ASSUME NEW i \in 1..(Len(s) - n)
        PROVE  t[i] = s[n + i] /\ n + i \in 1..Len(s)
    <3>1. n + i \in 1..Len(s) /\ (n + 1) + i - 1 = n + i
      BY <1>0, <1>5
    <3>2. t[i] = s[(n + 1) + i - 1]
      BY <1>0, <1>5
    <3> QED
      BY <3>1, <3>2
  <2> QED
    BY <2>1, <2>2
<1>7. ours(t, o, b)
  BY <1>1, <1>6 DEF ours
<1>8. s[n].part # "head" /\ s[n].kind = s[1].kind
  <2>1. CASE n = 1
    BY <2>1
  <2>2. CASE n = 2
    <3>1. s[2] = [s[1] EXCEPT !.part = "tail"]
      BY <1>4, <2>2
    <3> QED
      BY <1>0, <2>2, <3>1, PartTyped
  <2> QED
    BY <2>1, <2>2
<1>9. paired(t)
  <2>1. t # <<>> => t[1].part # "tail"
    <3> SUFFICES ASSUME t # <<>>, t[1].part = "tail" PROVE FALSE
      OBVIOUS
    <3>1. 1 \in 1..Len(t)
      OBVIOUS
    <3>2. t[1] = s[n + 1] /\ n + 1 \in 2..Len(s)
      BY <1>0, <1>5, <1>6, <3>1
    <3>3. s[n + 1 - 1].part = "head" /\ n + 1 - 1 = n
      BY <1>1, <3>2 DEF paired
    <3> QED
      BY <1>8, <3>3
  <2>2. \A i \in 1..Len(t) :
           t[i].part = "head" => i < Len(t) /\ t[i + 1] = [t[i] EXCEPT !.part = "tail"]
    <3> SUFFICES ASSUME NEW i \in 1..Len(t), t[i].part = "head"
                 PROVE  i < Len(t) /\ t[i + 1] = [t[i] EXCEPT !.part = "tail"]
      OBVIOUS
    <3>1. t[i] = s[n + i] /\ n + i \in 1..Len(s)
      BY <1>6
    <3>2. n + i < Len(s) /\ s[n + i + 1] = [s[n + i] EXCEPT !.part = "tail"]
      BY <1>1, <3>1 DEF paired
    <3>3. i < Len(t) /\ i + 1 \in 1..Len(t) /\ n + (i + 1) = n + i + 1
      <4>1. Len(t) = Len(s) - n /\ n + i < Len(s)
        BY <1>6, <3>2
      <4> QED
        BY <1>0, <4>1
    <3>4. t[i + 1] = s[n + (i + 1)]
      BY <1>6, <3>3
    <3> QED
      BY <3>1, <3>2, <3>3, <3>4
  <2>3. \A i \in 2..Len(t) : t[i].part = "tail" => t[i - 1].part = "head"
    <3> SUFFICES ASSUME NEW i \in 2..Len(t), t[i].part = "tail"
                 PROVE  t[i - 1].part = "head"
      OBVIOUS
    <3>1. i \in 1..Len(t) /\ i - 1 \in 1..Len(t) /\ n + i - 1 = n + (i - 1) /\ n + i \in 2..Len(s)
      BY <1>0, <1>5, <1>6
    <3>2. t[i] = s[n + i] /\ t[i - 1] = s[n + (i - 1)]
      BY <1>6, <3>1
    <3>3. s[n + i - 1].part = "head"
      <4>1. \A j \in 2..Len(s) : s[j].part = "tail" => s[j - 1].part = "head"
        BY <1>1 DEF paired
      <4>2. PICK j : j = n + i
        OBVIOUS
      <4>3. j \in 2..Len(s) /\ s[j].part = "tail"
        BY <3>1, <3>2, <4>2
      <4>4. s[j - 1].part = "head"
        BY <4>1, <4>3
      <4> QED
        BY <4>2, <4>4
    <3> QED
      BY <3>1, <3>2, <3>3
  <2>4. ~Split => \A i \in 1..Len(t) : t[i].part = "whole"
    BY <1>1, <1>6 DEF paired
  <2> QED
    BY <2>1, <2>2, <2>3, <2>4 DEF paired
<1>10. c # "stls" => endsOnce(t, c)
  <2> SUFFICES ASSUME c # "stls", NEW i \in 1..Len(t), t[i].part # "head", lastOf(t[i], c)
               PROVE  i = Len(t)
    BY DEF endsOnce
  <2>1. t[i] = s[n + i] /\ n + i \in 1..Len(s)
    BY <1>6
  <2>2. n + i = Len(s)
    BY <1>1, <2>1 DEF endsOnce
  <2> QED
    BY <1>0, <1>6, <2>2
<1>11. c # "stls" /\ lastOf(s[1], c) => t = <<>>
  <2> SUFFICES ASSUME c # "stls", lastOf(s[1], c) PROVE t = <<>>
    OBVIOUS
  <2>1. lastOf(s[n], c)
    BY <1>8 DEF lastOf
  <2>2. n = Len(s)
    BY <1>1, <1>5, <1>8, <2>1 DEF endsOnce
  <2>3. Len(t) = 0
    BY <1>6, <2>2
  <2> QED
    BY <2>3, EmptySeq
<1> QED
  BY <1>2, <1>3, <1>5, <1>7, <1>9, <1>10, <1>11 DEF answers

------------------------------------------------------------------------------
(* The stream of lines to come.                                              *)

\* Where lines are.
LEMMA StreamTyped ==
    ASSUME ClientTypeOK
    PROVE  /\ stream \in Seq(Line) /\ Len(stream) = Len(buf) + Len(net) + Len(todo)
           /\ stream = <<>> <=> buf = <<>> /\ net = <<>> /\ todo = <<>>
           /\ buf # <<>> => stream[1] = buf[1]
<1>1. buf \in Seq(Line) /\ net \in Seq(Line) /\ todo \in Seq(Line)
  BY DEF ClientTypeOK
<1>2. /\ stream \in Seq(Line) /\ Len(stream) = Len(buf) + Len(net) + Len(todo)
      /\ \A i \in 1..Len(buf) : stream[i] = buf[i]
  BY <1>1, Concat3 DEF stream
<1>3. \A s \in Seq(Line) : Len(s) \in Nat /\ (s = <<>> <=> Len(s) = 0)
  BY EmptySeq
<1>4. stream = <<>> <=> buf = <<>> /\ net = <<>> /\ todo = <<>>
  <2>1. stream = <<>> <=> Len(stream) = 0
    BY <1>2, <1>3, Zenon
  <2>2. /\ buf = <<>> <=> Len(buf) = 0
        /\ net = <<>> <=> Len(net) = 0
        /\ todo = <<>> <=> Len(todo) = 0
    BY <1>1, <1>3, Zenon
  <2>3. Len(buf) \in Nat /\ Len(net) \in Nat /\ Len(todo) \in Nat
    BY <1>1
  <2>4. Len(stream) = 0 <=> Len(buf) = 0 /\ Len(net) = 0 /\ Len(todo) = 0
    BY <1>2, <2>3
  <2> QED
    BY <2>1, <2>2, <2>4, Zenon
<1>5. buf # <<>> => stream[1] = buf[1]
  <2>1. buf # <<>> => 1 \in 1..Len(buf)
    BY <1>1
  <2> QED
    BY <1>2, <2>1
<1> QED
  BY <1>2, <1>4, <1>5

\* A deadline forced into the past stays there, for a Client that was given up.
LEMMA PoisonStays ==
    ASSUME NoDeadlines, ClientTypeOK, ControlOK, DeadlineOK, rdl = -1, wdl = -1, [Next]_cvars
    PROVE  rdl' = -1 /\ wdl' = -1
<1> USE DEF callVars, ctxVars, guardVars, dlVars, netVars, histVars
<1>0. givenUp /\ pc \notin {"start", "relay"}
  BY DEF DeadlineOK
<1>1. pc # "closed" => ~hasDeadline
  <2>1. pc # "closed" => ctx[op] \in Ops
    BY <1>0, DeadlineTyped
  <2> QED
    BY <2>1 DEF hasDeadline, DeadlineOK
<1>2. CASE ArmWrite \/ Write \/ ArmRead \/ Fill
  BY <1>1, <1>2 DEF ArmWrite, Write, ArmRead, Fill
<1>3. CASE WriteTimesOut \/ WriteFails \/ ReadTimesOut \/ LineTooLong \/ HandshakeFails \/ ReadFails
  BY <1>3 DEF WriteTimesOut, WriteFails, ReadTimesOut, LineTooLong, HandshakeFails, ReadFails, Fail
<1>4. CASE TakeLine \/ TakeHalfLine
  <2>1. PICK l : Accept(l)
    BY <1>4 DEF TakeLine, TakeHalfLine
  <2>2. pc = "read"
    BY <1>4 DEF TakeLine, TakeHalfLine
  <2>3. Outcome(l)
    BY <2>1, <2>2, AcceptOutcome
  <2> QED
    BY <1>1, <2>2, <2>3 DEF Outcome, Complete, Refuse, StartSTLS, StartHandshake, SendPass, ReadLines, GiveBody,
       TooLong, MoreLines, BodyEnds, BodyGoesOn
<1>5. CASE Handshake
  BY <1>5 DEF Handshake
<1>6. CASE Dial \/ DialFails \/ Close \/ EnterRelay \/ ReadBody \/ CloseBody
  BY <1>0, <1>6 DEF Dial, DialFails, Close, EnterRelay, ReadBody, CloseBody
<1>7. CASE \E c \in {"status", "user", "multi", "body"} : Start(c)
  BY <1>7 DEF Start
<1>8. CASE Context \/ ServerAct
  BY <1>8 DEF Context, Cancel, DeadlinePasses, ServerAct, ServerSends, ServerSendsHalf, ServerCloses
<1>9. CASE \E g \in Guards : GuardStep(g)
  BY <1>9 DEF GuardStep, GuardFires, GuardEnds
<1>10. CASE Terminated \/ UNCHANGED cvars
  BY <1>10 DEF Terminated, cvars
<1>11. Call => \/ Dial \/ DialFails \/ Close \/ EnterRelay \/ ReadBody \/ CloseBody
               \/ \E c \in {"status", "user", "multi", "body"} : Start(c)
  BY DEF Call, Cmd, XClient, AuthPlain, User, Stat, ListOne, UidlOne, Dele, Capa, List, Uidl,
     retrieve
<1> QED
  BY <1>2, <1>3, <1>4, <1>5, <1>6, <1>7, <1>8, <1>9, <1>10, <1>11 DEF Next, Step

\* A server that has closed the connection and whose lines are all read sends no more;
\* an empty reader stays empty when the network is silent or the deadline past.
LEMMA DryStays ==
    ASSUME ClientTypeOK, stuck, [Next]_cvars
    PROVE  buf' = <<>> /\ (gone /\ net = <<>> => gone' /\ net' = <<>>)
<1> USE DEF callVars, ctxVars, guardVars, dlVars, netVars, histVars
<1>0. buf = <<>> /\ (rdl = -1 \/ (gone /\ net = <<>>))
  BY DEF stuck
<1>1. ~hasLine /\ ~halfLine
  BY <1>0 DEF hasLine, halfLine
<1>2. CASE ArmWrite \/ Write \/ ArmRead
  BY <1>0, <1>2 DEF ArmWrite, Write, ArmRead
<1>3. CASE WriteTimesOut \/ WriteFails \/ ReadTimesOut \/ LineTooLong \/ HandshakeFails \/ ReadFails
  BY <1>0, <1>3 DEF WriteTimesOut, WriteFails, ReadTimesOut, LineTooLong, HandshakeFails, ReadFails, Fail
<1>4. ~Fill /\ ~TakeLine /\ ~TakeHalfLine
  BY <1>0, <1>1 DEF Fill, TakeLine, TakeHalfLine, expired
<1>5. CASE Handshake
  BY <1>0, <1>5 DEF Handshake, newReader
<1>6. CASE Dial \/ DialFails \/ Close \/ EnterRelay \/ ReadBody \/ CloseBody
  BY <1>0, <1>6 DEF Dial, DialFails, Close, EnterRelay, ReadBody, CloseBody
<1>7. CASE \E c \in {"status", "user", "multi", "body"} : Start(c)
  BY <1>0, <1>7 DEF Start
<1>8. CASE Context \/ ServerAct
  BY <1>0, <1>8 DEF Context, Cancel, DeadlinePasses, ServerAct, ServerSends, ServerSendsHalf, ServerCloses
<1>9. CASE \E g \in Guards : GuardStep(g)
  BY <1>0, <1>9 DEF GuardStep, GuardFires, GuardEnds
<1>10. CASE Terminated \/ UNCHANGED cvars
  BY <1>0, <1>10 DEF Terminated, cvars
<1>11. Call => \/ Dial \/ DialFails \/ Close \/ EnterRelay \/ ReadBody \/ CloseBody
               \/ \E c \in {"status", "user", "multi", "body"} : Start(c)
  BY DEF Call, Cmd, XClient, AuthPlain, User, Stat, ListOne, UidlOne, Dele, Capa, List, Uidl,
     retrieve
<1> QED
  BY <1>2, <1>3, <1>4, <1>5, <1>6, <1>7, <1>8, <1>9, <1>10, <1>11 DEF Next, Step

\* A Client that reads nothing more never reads again.
LEMMA StuckStep ==
    ASSUME ClientTypeOK, ControlOK, NoDeadlines => DeadlineOK, stuck, [Next]_cvars
    PROVE  stuck'
<1>1. buf' = <<>> /\ (gone /\ net = <<>> => gone' /\ net' = <<>>)
  BY DryStays
<1>2. NoDeadlines /\ rdl = -1 /\ wdl = -1 => rdl' = -1 /\ wdl' = -1
  BY PoisonStays
<1>3. (NoDeadlines /\ rdl = -1 /\ wdl = -1) \/ (gone /\ net = <<>>)
  BY DEF stuck
<1> QED
  BY <1>1, <1>2, <1>3 DEF stuck

\* Lines that move on, and steps that move none.
LEMMA StreamSame ==
    ASSUME StreamOK, ~stuck, stream' = stream, UNCHANGED <<pc, op, cmd, want, body, secure>>
    PROVE  StreamOK'
<1>1. AnswerOK => AnswerOK'
  BY DEF AnswerOK
<1> QED
  BY <1>1 DEF StreamOK

\* Half a line is sent.
LEMMA HalfSent ==
    ASSUME ClientTypeOK, ClientTypeOK', StreamOK, ~stuck, ServerSendsHalf
    PROVE  StreamOK'
<1> USE DEF callVars, ctxVars, guardVars, dlVars, netVars, histVars
<1>1. /\ Split /\ todo # <<>> /\ pc # "closed" /\ Head(todo).part = "whole"
      /\ UNCHANGED <<pc, op, cmd, want, body, secure, buf>>
  BY DEF ServerSendsHalf
<1>2. stream # <<>>
  BY <1>1, StreamTyped
<1>3. CASE pc = "broken" \/ (pc = "handshake" /\ cmd # "dial")
  BY <1>1, <1>3 DEF StreamOK
<1>4. CASE pc \in {"armRead", "read", "held"} /\ AnswerOK
  <2>1. PICK a \in Seq(Line) : a = buf
    BY DEF ClientTypeOK
  <2>2. PICK b \in Seq(Line) : b = net
    BY DEF ClientTypeOK
  <2>3. PICK c \in Seq(Line) : c = todo
    BY DEF ClientTypeOK
  <2>4. PICK h \in Line : h = [c[1] EXCEPT !.part = "head"] /\ c[1] \in Line /\ Head(c) = c[1]
    <3>1. c # <<>>
      BY <1>1, <2>3
    <3>2. c[1] \in Line /\ Head(c) = c[1]
      BY <2>3, <3>1
    <3>3. [c[1] EXCEPT !.part = "head"] \in Line
      BY <3>2, PartTyped
    <3> QED
      BY <3>2, <3>3, Zenon
  <2>5. PICK d : d = [c EXCEPT ![1].part = "tail"]
    OBVIOUS
  <2>6. /\ d \in Seq(Line) /\ Len(d) = Len(c)
        /\ d[1] = [c[1] EXCEPT !.part = "tail"]
        /\ \A i \in 2..Len(c) : d[i] = c[i]
    BY <1>1, <2>3, <2>5, HalfTyped
  <2>7. PICK e : e = Append(b, h)
    OBVIOUS
  <2>8. /\ e \in Seq(Line) /\ Len(e) = Len(b) + 1
        /\ \A i \in 1..Len(b) : e[i] = b[i]
        /\ e[Len(b) + 1] = h
    BY <2>2, <2>4, <2>7, AppendProperties
  <2>9. PICK s : s = stream
    OBVIOUS
  <2>10. s = a \o (b \o c)
    BY <2>1, <2>2, <2>3, <2>9 DEF stream
  <2>11. PICK t : t = stream'
    OBVIOUS
  <2>12. t = a \o (e \o d)
    <3>1. net' = e
      BY <2>2, <2>3, <2>4, <2>7 DEF ServerSendsHalf
    <3>2. todo' = d
      BY <2>3, <2>5 DEF ServerSendsHalf
    <3> QED
      BY <1>1, <2>1, <2>11, <3>1, <3>2 DEF stream
  <2>13. /\ s \in Seq(Line) /\ Len(s) = Len(a) + Len(b) + Len(c)
         /\ \A i \in 1..Len(a) : s[i] = a[i]
         /\ \A i \in 1..Len(b) : s[Len(a) + i] = b[i]
         /\ \A i \in 1..Len(c) : s[Len(a) + Len(b) + i] = c[i]
    BY <2>1, <2>2, <2>3, <2>10, Concat3
  <2>14. /\ t \in Seq(Line) /\ Len(t) = Len(a) + Len(e) + Len(d)
         /\ \A i \in 1..Len(a) : t[i] = a[i]
         /\ \A i \in 1..Len(e) : t[Len(a) + i] = e[i]
         /\ \A i \in 1..Len(d) : t[Len(a) + Len(e) + i] = d[i]
    <3>1. a \in Seq(Line) /\ e \in Seq(Line) /\ d \in Seq(Line)
      BY <2>1, <2>6, <2>8
    <3> QED
      BY <2>12, <3>1, Concat3
  <2>15. PICK p : p = Len(a) + Len(b) + 1
    OBVIOUS
  <2>16. /\ Len(a) \in Nat /\ Len(b) \in Nat /\ Len(c) \in Nat /\ Len(c) >= 1
    BY <1>1, <2>1, <2>2, <2>3
  <2>17. p \in 1..Len(s) /\ Len(t) = Len(s) + 1
    BY <2>6, <2>8, <2>13, <2>14, <2>15, <2>16
  <2>18. s[p] = c[1]
    BY <2>13, <2>15, <2>16
  <2>19. t[p] = h
    <3>1. Len(b) + 1 \in 1..Len(e) /\ p = Len(a) + (Len(b) + 1)
      BY <2>8, <2>15, <2>16
    <3> QED
      BY <2>8, <2>14, <3>1
  <2>20. t[p + 1] = d[1]
    <3>1. 1 \in 1..Len(d) /\ p + 1 = Len(a) + Len(e) + 1
      BY <2>6, <2>8, <2>15, <2>16
    <3> QED
      BY <2>14, <3>1
  <2>21. \A i \in 1..(p - 1) : t[i] = s[i]
    <3> SUFFICES ASSUME NEW i \in 1..(p - 1) PROVE t[i] = s[i]
      OBVIOUS
    <3>1. CASE i <= Len(a)
      BY <2>13, <2>14, <2>16, <3>1
    <3>2. CASE i > Len(a)
      <4>1. PICK j : j = i - Len(a)
        OBVIOUS
      <4>2. j \in 1..Len(b) /\ j \in 1..Len(e) /\ i = Len(a) + j
        BY <2>8, <2>15, <2>16, <3>2, <4>1
      <4>3. t[Len(a) + j] = e[j] /\ s[Len(a) + j] = b[j] /\ e[j] = b[j]
        BY <2>8, <2>13, <2>14, <4>2
      <4> QED
        BY <4>2, <4>3
    <3> QED
      BY <2>16, <3>1, <3>2
  <2>22. \A i \in (p + 1)..Len(s) : t[i + 1] = s[i]
    <3> SUFFICES ASSUME NEW i \in (p + 1)..Len(s) PROVE t[i + 1] = s[i]
      OBVIOUS
    <3>1. PICK j : j = i - (Len(a) + Len(b))
      OBVIOUS
    <3>2. /\ j \in 2..Len(c) /\ j \in 1..Len(c) /\ j \in 1..Len(d)
          /\ i = Len(a) + Len(b) + j /\ i + 1 = Len(a) + Len(e) + j
      <4>1. Len(d) = Len(c) /\ Len(e) = Len(b) + 1 /\ Len(s) = Len(a) + Len(b) + Len(c)
        BY <2>6, <2>8, <2>13
      <4> QED
        BY <2>15, <2>16, <3>1, <4>1
    <3>3. t[Len(a) + Len(e) + j] = d[j] /\ s[Len(a) + Len(b) + j] = c[j] /\ d[j] = c[j]
      BY <2>6, <2>13, <2>14, <3>2
    <3> QED
      BY <3>2, <3>3
  <2>23. /\ s[p].part = "whole" /\ t[p] = [s[p] EXCEPT !.part = "head"]
         /\ t[p + 1] = [s[p] EXCEPT !.part = "tail"]
    BY <1>1, <2>3, <2>4, <2>6, <2>18, <2>19, <2>20
  <2>24. PICK o, u, k : o = op /\ u = secure /\ k = cmd
    OBVIOUS
  <2>25. answers(s, o, u, k)
    BY <1>4, <2>9, <2>24 DEF AnswerOK
  <2>26. answers(t, o, u, k)
    BY <1>1, <2>13, <2>14, <2>17, <2>21, <2>22, <2>23, <2>25, HalvedAnswer
  <2>27. answers(stream', op', secure', cmd')
    BY <1>1, <2>11, <2>24, <2>26
  <2>28. t[1].kind = s[1].kind
    <3>1. CASE p = 1
      <4>1. h.kind = c[1].kind
        BY <2>4, PartTyped
      <4> QED
        BY <2>18, <2>19, <3>1, <4>1
    <3>2. CASE p # 1
      <4>1. 1 \in 1..(p - 1)
        BY <2>17, <3>2
      <4> QED
        BY <2>21, <4>1
    <3> QED
      BY <3>1, <3>2
  <2>29. AnswerOK'
    <3>1. pc' # "held" /\ want' = "status" => stream'[1].kind \in {"ok", "err"}
      BY <1>1, <1>2, <1>4, <2>9, <2>11, <2>28 DEF AnswerOK
    <3>2. ~(pc' = "held" /\ body'.done)
      BY <1>1, <1>2, <1>4 DEF AnswerOK
    <3> QED
      BY <2>27, <3>1, <3>2 DEF AnswerOK
  <2> QED
    BY <1>1, <1>4, <2>29 DEF StreamOK
<1> QED
  BY <1>1, <1>2, <1>3, <1>4 DEF StreamOK

\* A line of an answer, and what stays of the answer behind it.
LEMMA LineTaken ==
    ASSUME ClientTypeOK, AnswerOK, pc = "read", TakeLine
    PROVE  \E l \in Line :
              /\ Accept(l) /\ l.part = "whole" /\ l.op = op /\ l.tls = secure
              /\ want = "status" => l.kind \in {"ok", "err"}
              /\ answers(stream', op, secure, cmd)
              /\ cmd # "stls" /\ lastOf(l, cmd) => stream' = <<>>
<1>1. hasLine /\ buf # <<>>
  BY DEF TakeLine, hasLine
<1>2. PICK a \in Seq(Line) : a = buf
  BY DEF ClientTypeOK
<1>3. PICK d : d = net \o todo
  OBVIOUS
<1>4. d \in Seq(Line)
  <2>1. net \in Seq(Line) /\ todo \in Seq(Line)
    BY DEF ClientTypeOK
  <2> QED
    BY <1>3, <2>1
<1>5. PICK s : s = stream
  OBVIOUS
<1>6. s = a \o d
  BY <1>2, <1>3, <1>5 DEF stream
<1>7. s \in Seq(Line) /\ s # <<>> /\ s[1] = a[1] /\ a[1] \in Line
  <2>1. s \in Seq(Line) /\ s # <<>> /\ s[1] = a[1]
    BY <1>1, <1>2, <1>5, StreamTyped
  <2>2. a[1] \in Line
    BY <1>1, <1>2
  <2> QED
    BY <2>1, <2>2
<1>8. PICK n \in {1, 2} :
         /\ n = 2 <=> a[1].part = "head"
         /\ buf' = SubSeq(a, n + 1, Len(a))
         /\ n = 2 => Accept([a[1] EXCEPT !.part = "whole"])
         /\ n = 1 => Accept(a[1])
  <2>1. CASE a[1].part = "head"
    BY <1>2, <2>1 DEF TakeLine
  <2>2. CASE a[1].part # "head"
    BY <1>2, <2>2 DEF TakeLine
  <2> QED
    BY <2>1, <2>2
<1>9. n \in 0..Len(a)
  BY <1>1, <1>2, <1>8 DEF hasLine
<1>10. PICK l \in Line : /\ Accept(l) /\ l.op = a[1].op /\ l.tls = a[1].tls /\ l.kind = a[1].kind
                         /\ n = 2 => l.part = "whole"
                         /\ n = 1 => l = a[1]
  <2>1. CASE n = 1
    BY <1>7, <1>8, <2>1
  <2>2. CASE n = 2
    <3>1. [a[1] EXCEPT !.part = "whole"] \in Line
      BY <1>7, PartTyped
    <3>2. PICK l \in Line : l = [a[1] EXCEPT !.part = "whole"]
      BY <3>1, Zenon
    <3>3. l.op = a[1].op /\ l.tls = a[1].tls /\ l.kind = a[1].kind /\ l.part = "whole"
      <4>1. a[1] \in Line
        BY <1>7
      <4> QED
        BY <3>2, <4>1, PartTyped
    <3>4. Accept(l)
      BY <1>8, <2>2, <3>2
    <3> QED
      <4>1. l \in Line /\ n # 1
        BY <2>2, <3>2
      <4> QED
        BY <3>3, <3>4, <4>1, Zenon
  <2> QED
    BY <2>1, <2>2
<1>11. PICK t : t = stream'
  OBVIOUS
<1>12. t = SubSeq(s, n + 1, Len(s))
  <2>1. UNCHANGED <<todo, net>>
    BY <1>10 DEF Accept
  <2>2. t = SubSeq(a, n + 1, Len(a)) \o d
    BY <1>3, <1>8, <1>11, <2>1 DEF stream
  <2>3. SubSeq(a, n + 1, Len(a)) \o d = SubSeq(a \o d, n + 1, Len(a \o d))
    BY <1>2, <1>4, <1>9, TakenOff
  <2> QED
    BY <1>6, <2>2, <2>3
<1>13. PICK o, u, k : o = op /\ u = secure /\ k = cmd
  OBVIOUS
<1>14. answers(s, o, u, k)
  BY <1>5, <1>13 DEF AnswerOK
<1>15. t \in Seq(Line)
  BY <1>7, <1>12
<1>16. /\ answers(t, o, u, k) /\ s[1].op = o /\ s[1].tls = u /\ s[1].part \in {"whole", "head"}
       /\ k # "stls" /\ lastOf(s[1], k) => t = <<>>
  <2>1. isRest(t, s, n)
    BY <1>7, <1>8, <1>12 DEF isRest
  <2>2. s \in Seq(Line) /\ s # <<>>
    BY <1>7
  <2> QED
    BY <1>14, <1>15, <2>1, <2>2, RestOfAnswer
<1>17. l.part = "whole"
  BY <1>7, <1>8, <1>10, <1>16
<1>18. want = "status" => l.kind \in {"ok", "err"}
  BY <1>5, <1>7, <1>10 DEF AnswerOK
<1>19. lastOf(l, k) => lastOf(s[1], k)
  BY <1>7, <1>10 DEF lastOf
<1>20. l.op = op /\ l.tls = secure
  BY <1>7, <1>10, <1>13, <1>16
<1>21. answers(stream', op, secure, cmd)
  BY <1>11, <1>13, <1>16
<1>22. cmd # "stls" /\ lastOf(l, cmd) => stream' = <<>>
  BY <1>11, <1>13, <1>16, <1>19
<1> QED
  BY <1>10, <1>17, <1>18, <1>20, <1>21, <1>22

\* Whatever a complete line leads to, the stream stays in step.
LEMMA TakeInStep ==
    ASSUME ClientTypeOK, ControlOK, StreamOK, ~stuck, TakeLine
    PROVE  StreamOK' /\ ResponseMatches'
<1> USE DEF ctxVars, dlVars, guardVars
<1>0. pc = "read" /\ AnswerOK
  BY DEF TakeLine, StreamOK
<1>1. PICK l \in Line :
              /\ Accept(l) /\ l.part = "whole" /\ l.op = op /\ l.tls = secure
              /\ want = "status" => l.kind \in {"ok", "err"}
              /\ answers(stream', op, secure, cmd)
              /\ cmd # "stls" /\ lastOf(l, cmd) => stream' = <<>>
  BY <1>0, LineTaken
<1>2. /\ Outcome(l) /\ last' = [line |-> l, op |-> op, tls |-> secure]
      /\ secure' = secure
  BY <1>0, <1>1, AcceptOutcome
<1>3. ResponseMatches'
  BY <1>1, <1>2 DEF ResponseMatches
<1> SUFFICES StreamOK'
  BY <1>3
<1>4. (TRUE \in isDot(l) <=> l.kind = "dot") /\ (FALSE \in isOK(l) <=> l.kind # "ok")
  BY <1>1 DEF isDot, isOK
<1>5. ASSUME pc' \in {"idle", "armWrite"}, stream' = <<>>
      PROVE  StreamOK'
  BY <1>5 DEF StreamOK
<1>6. ASSUME pc' \in {"armRead", "held"}, op' = op, cmd' = cmd,
             pc' = "held" \/ want' # "status", pc' = "held" /\ body'.done => stream' = <<>>
      PROVE  StreamOK'
  <2>1. answers(stream', op', secure', cmd')
    BY <1>1, <1>2, <1>6
  <2>2. AnswerOK'
    BY <1>6, <2>1 DEF AnswerOK
  <2> QED
    BY <1>6, <2>2 DEF StreamOK
<1>7. CASE want \in {"status", "lines"} /\ cmd # "stls" /\ completes(l) /\ Complete
  <2>1. pc' = "idle"
    BY <1>7 DEF Complete
  <2>2. lastOf(l, cmd)
    <3>1. CASE want = "status"
      <4>1. l.kind = "err" \/ (l.kind = "ok" /\ cmd \in {"dial", "status", "user"})
        BY <1>1, <1>4, <1>7, <3>1 DEF completes
      <4> QED
        BY <4>1 DEF lastOf
    <3>2. CASE want = "lines"
      BY <1>4, <1>7, <3>2 DEF completes, lastOf
    <3> QED
      BY <1>7, <3>1, <3>2
  <2> QED
    BY <1>1, <1>5, <1>7, <2>1, <2>2
<1>8. CASE (want = "status" /\ Refuse) \/ (want = "lines" /\ TooLong)
  BY <1>8 DEF Refuse, TooLong, StreamOK
<1>9. CASE want = "status" /\ cmd \in {"dial", "user"} /\ (StartSTLS \/ SendPass)
  <2>1. pc' = "armWrite"
    BY <1>9 DEF StartSTLS, SendPass
  <2>2. lastOf(l, cmd) /\ cmd # "stls"
    BY <1>1, <1>9 DEF lastOf
  <2> QED
    BY <1>1, <1>5, <2>1, <2>2
<1>10. CASE want = "status" /\ cmd = "stls" /\ StartHandshake
  <2>1. pc' = "handshake" /\ cmd' = "stls"
    BY <1>10 DEF StartHandshake
  <2> QED
    BY <2>1 DEF StreamOK
<1>11. CASE want = "status" /\ cmd = "multi" /\ ReadLines
  BY <1>6, <1>11 DEF ReadLines
<1>12. CASE want = "status" /\ cmd = "body" /\ GiveBody
  <2>1. pc' = "held" /\ UNCHANGED <<op, cmd>> /\ ~body'.done
    BY <1>12 DEF GiveBody
  <2> QED
    BY <1>6, <2>1
<1>13. CASE want = "lines" /\ MoreLines
  <2>1. pc' = "armRead" /\ UNCHANGED <<op, cmd, want>>
    BY <1>13 DEF MoreLines
  <2> QED
    BY <1>6, <1>13, <2>1
<1>14. CASE want \in {"body", "drain"} /\ completes(l) /\ BodyEnds
  <2>1. UNCHANGED <<op, cmd, want>> /\ cmd # "stls" /\ l.kind = "dot"
    BY <1>0, <1>4, <1>14 DEF BodyEnds, ControlOK, completes
  <2>2. stream' = <<>>
    BY <1>1, <2>1 DEF lastOf
  <2>3. pc' = "idle" \/ (pc' = "held" /\ want = "body")
    BY <1>14 DEF BodyEnds
  <2> QED
    BY <1>5, <1>6, <2>1, <2>2, <2>3
<1>15. CASE want \in {"body", "drain"} /\ BodyGoesOn
  <2>1. UNCHANGED <<op, cmd, want, body>> /\ ~body.done /\ pc' \in {"armRead", "held"}
    BY <1>0, <1>15 DEF BodyGoesOn, ControlOK, ClientTypeOK
  <2> QED
    BY <1>6, <1>15, <2>1
<1> QED
  BY <1>2, <1>7, <1>8, <1>9, <1>10, <1>11, <1>12, <1>13, <1>14, <1>15 DEF Outcome

\* Half a line taken for a line is one of the operation in flight; nothing is read after it.
LEMMA HalfTaken ==
    ASSUME NoDeadlines \/ ~Split, ClientTypeOK, ControlOK, NoDeadlines => DeadlineOK,
           StreamOK, ~stuck, TakeHalfLine
    PROVE  StreamOK' /\ ResponseMatches'
<1>0. pc = "read" /\ AnswerOK /\ halfLine /\ buf' = <<>> /\ Accept(buf[1])
  BY DEF TakeHalfLine, StreamOK
<1>1. buf # <<>> /\ buf[1].part = "head"
  BY <1>0 DEF halfLine, hasLine
<1>2. stream \in Seq(Line) /\ stream # <<>> /\ stream[1] = buf[1]
  BY <1>1, StreamTyped
<1>3. 1 \in 1..Len(stream) /\ ours(stream, op, secure) /\ paired(stream)
  BY <1>0, <1>2 DEF AnswerOK, answers
<1>4. buf[1].op = op /\ buf[1].tls = secure
  BY <1>2, <1>3 DEF ours
<1>5. NoDeadlines /\ DeadlineOK
  BY <1>1, <1>2, <1>3 DEF paired
<1>6. PICK l : l = buf[1]
  OBVIOUS
<1>7. last' = [line |-> l, op |-> op, tls |-> secure] /\ UNCHANGED <<net, gone>>
  BY <1>0, <1>6 DEF Accept
<1>8. ResponseMatches'
  BY <1>4, <1>6, <1>7 DEF ResponseMatches
<1>9. CASE readTimedOut
  <2>1. rdl = -1 /\ wdl = -1
    BY <1>5, <1>9 DEF readTimedOut, expired, DeadlineOK
  <2>2. Next
    BY DEF Next, Step
  <2>3. rdl' = -1 /\ wdl' = -1
    BY <1>5, <2>1, <2>2, PoisonStays
  <2> QED
    BY <1>0, <1>5, <1>8, <2>3 DEF StreamOK, stuck
<1>10. CASE readEOF
  BY <1>0, <1>7, <1>8, <1>10 DEF readEOF, StreamOK, stuck
<1> QED
  BY <1>9, <1>10 DEF TakeHalfLine

\* An answer is on its way, and nothing else.
LEMMA AnswerBegins ==
    ASSUME ClientTypeOK', pc' = "armRead", want' = "status", buf' = <<>>, net' = <<>>,
           NEW r \in Seq(Line), todo' = r, r # <<>> => r[1].kind \in {"ok", "err"},
           NEW o, NEW u, NEW c, op' = o, secure' = u, cmd' = c,
           \A i \in 1..Len(r) : r[i].op = o /\ r[i].tls = u /\ r[i].part = "whole",
           c # "stls" => \A i \in 1..Len(r) : lastOf(r[i], c) => i = Len(r)
    PROVE  StreamOK'
<1>1. stream' = r
  <2>1. stream' = <<>> \o (<<>> \o r)
    BY DEF stream
  <2> QED
    BY <2>1
<1>2. answers(r, o, u, c)
  BY WholeAnswer
<1>3. answers(stream', op', secure', cmd')
  BY <1>1, <1>2
<1>4. AnswerOK'
  BY <1>1, <1>3 DEF AnswerOK
<1> QED
  BY <1>4 DEF StreamOK

\* Every step keeps what is read in step with what is asked.
LEMMA StreamStep ==
    ASSUME NoDeadlines \/ ~Split, ClientTypeOK, ControlOK, NoDeadlines => DeadlineOK,
           ClientTypeOK', StreamOK, [Next]_cvars
    PROVE  StreamOK'
<1> USE DEF callVars, ctxVars, guardVars, dlVars, netVars, histVars
<1>1. CASE stuck
  BY <1>1, StuckStep DEF StreamOK
<1> SUFFICES ASSUME ~stuck PROVE StreamOK'
  BY <1>1
<1>2. stream = <<>> <=> buf = <<>> /\ net = <<>> /\ todo = <<>>
  BY StreamTyped
<1>3. ASSUME buf' = <<>>, net' = <<>>, todo' = <<>>
      PROVE  stream' = <<>>
  BY <1>3 DEF stream
<1>4. ASSUME UNCHANGED <<buf, net, todo>>
      PROVE  stream' = stream
  BY <1>4 DEF stream
<1>5. CASE Context \/ (\E g \in Guards : GuardStep(g)) \/ ServerCloses \/ Terminated \/ UNCHANGED cvars
  <2>1. UNCHANGED <<pc, op, cmd, want, body, secure, buf, net, todo>>
    <3>1. CASE Context
      BY <3>1 DEF Context, Cancel, DeadlinePasses
    <3>2. CASE \E g \in Guards : GuardStep(g)
      BY <3>2 DEF GuardStep, GuardFires, GuardEnds
    <3>3. CASE ServerCloses \/ Terminated \/ UNCHANGED cvars
      BY <3>3 DEF ServerCloses, Terminated, cvars
    <3> QED
      BY <1>5, <3>1, <3>2, <3>3
  <2> QED
    BY <1>4, <2>1, StreamSame
<1>6. CASE Fill \/ ServerSends
  <2>1. stream' = stream
    <3>1. PICK a \in Seq(Line) : a = buf
      BY DEF ClientTypeOK
    <3>2. PICK b \in Seq(Line) : b = net
      BY DEF ClientTypeOK
    <3>3. PICK c \in Seq(Line) : c = todo
      BY DEF ClientTypeOK
    <3>4. PICK x, y, z : x = buf' /\ y = net' /\ z = todo'
      OBVIOUS
    <3>5. stream = joined(a, b, c) /\ stream' = joined(x, y, z)
      BY <3>1, <3>2, <3>3, <3>4 DEF stream, joined
    <3>6. (fills(a, b, x, y) /\ z = c) \/ (sends(b, c, y, z) /\ x = a)
      <4>1. CASE Fill
        BY <3>1, <3>2, <3>3, <3>4, <4>1 DEF Fill, fills
      <4>2. CASE ServerSends
        BY <3>1, <3>2, <3>3, <3>4, <4>2 DEF ServerSends, sends
      <4> QED
        BY <1>6, <4>1, <4>2
    <3>7. /\ fills(a, b, x, y) => joined(x, y, c) = joined(a, b, c)
          /\ sends(b, c, y, z) => joined(a, y, z) = joined(a, b, c)
      BY <3>1, <3>2, <3>3, MovedJoined
    <3> QED
      BY <3>5, <3>6, <3>7
  <2>2. UNCHANGED <<pc, op, cmd, want, body, secure>>
    BY <1>6 DEF Fill, ServerSends
  <2> QED
    BY <2>1, <2>2, StreamSame
<1>7. CASE ServerSendsHalf
  BY <1>7, HalfSent
<1>8. CASE TakeLine
  BY <1>8, TakeInStep
<1>9. CASE TakeHalfLine
  BY <1>9, HalfTaken
<1>10. CASE WriteTimesOut \/ WriteFails \/ ReadTimesOut \/ LineTooLong \/ HandshakeFails \/ ReadFails
  <2>1. CASE WriteTimesOut \/ WriteFails \/ ReadTimesOut \/ LineTooLong \/ HandshakeFails
    <3>1. pc' \in {"broken", "closed"}
      BY <2>1 DEF WriteTimesOut, WriteFails, ReadTimesOut, LineTooLong, HandshakeFails, Fail, brokenOff
    <3> QED
      BY <3>1 DEF StreamOK
  <2>2. CASE ReadFails
    <3>1. buf' = <<>> /\ gone' /\ net' = <<>>
      BY <2>2 DEF ReadFails, readEOF, Fail
    <3> QED
      BY <3>1 DEF StreamOK, stuck
  <2> QED
    BY <1>10, <2>1, <2>2
<1>11. CASE ArmWrite \/ ArmRead \/ EnterRelay \/ \E c \in {"status", "user", "multi", "body"} : Start(c)
  <2>1. UNCHANGED <<buf, net, todo, body, secure>>
    BY <1>11 DEF ArmWrite, ArmRead, EnterRelay, Start
  <2>2. stream' = stream
    BY <1>4, <2>1
  <2>3. CASE pc \in {"armWrite", "idle"}
    <3>1. stream = <<>>
      BY <2>3 DEF StreamOK
    <3>2. pc' \in {"write", "relay", "armWrite"}
      BY <1>11, <2>3 DEF ArmWrite, ArmRead, EnterRelay, Start, Begin
    <3> QED
      BY <2>2, <3>1, <3>2 DEF StreamOK
  <2>4. CASE pc = "armRead"
    <3>1. ArmRead
      BY <1>11, <2>4 DEF ArmWrite, EnterRelay, Start
    <3>2. pc' = "read" /\ UNCHANGED <<op, cmd, want>>
      BY <3>1 DEF ArmRead
    <3>3. AnswerOK
      BY <2>4 DEF StreamOK
    <3>4. AnswerOK'
      BY <2>1, <2>2, <2>4, <3>2, <3>3 DEF AnswerOK
    <3> QED
      BY <3>2, <3>4 DEF StreamOK
  <2> QED
    BY <1>11, <2>3, <2>4 DEF ArmWrite, ArmRead, EnterRelay, Start
<1>12. CASE Write
  <2>1. /\ pc = "write" /\ pc' = "armRead" /\ want' = want
        /\ UNCHANGED <<op, cmd, secure, net, buf>>
    BY <1>12 DEF Write
  <2>2. buf = <<>> /\ net = <<>> /\ todo = <<>> /\ want = "status"
    BY <1>2, <2>1 DEF StreamOK, ControlOK
  <2>3. op \in Ops /\ secure \in BOOLEAN
    BY <2>1, DeadlineTyped DEF ClientTypeOK
  <2>4. PICK r \in replies(op, cmd) : todo' = todo \o r
    BY <1>12 DEF Write
  <2>5. isAnswer(r, op, cmd)
    BY <2>3, AnswerShape
  <2>6. todo' = r
    BY <2>2, <2>4, <2>5 DEF isAnswer
  <2>7. PICK o, u, c : o = op /\ u = secure /\ c = cmd
    OBVIOUS
  <2>8. /\ r \in Seq(Line) /\ r[1].kind \in {"ok", "err"}
        /\ \A i \in 1..Len(r) : r[i].op = o /\ r[i].tls = u /\ r[i].part = "whole"
        /\ c # "stls" => \A i \in 1..Len(r) : lastOf(r[i], c) => i = Len(r)
    BY <2>5, <2>7 DEF isAnswer
  <2>9. want' = "status" /\ op' = o /\ secure' = u /\ cmd' = c /\ buf' = <<>> /\ net' = <<>>
    BY <2>1, <2>2, <2>7
  <2> QED
    BY <2>1, <2>6, <2>8, <2>9, AnswerBegins
<1>13. CASE Dial
  <2>1. /\ pc = "start" /\ op' = 1 /\ cmd' = "dial" /\ want' = "status"
        /\ UNCHANGED <<secure, net, buf>>
    BY <1>13 DEF Dial
  <2>2. buf = <<>> /\ net = <<>> /\ todo = <<>>
    BY <1>2, <2>1 DEF StreamOK
  <2>3. CASE mode = "implicit"
    <3>1. pc' = "handshake" /\ todo' = todo
      BY <1>13, <2>3 DEF Dial
    <3> QED
      BY <1>3, <2>1, <2>2, <3>1 DEF StreamOK
  <2>4. CASE mode # "implicit"
    <3>1. PICK r \in replies(1, "dial") : todo' = r
      BY <1>13, <2>4 DEF Dial
    <3>2. isAnswer(r, 1, "dial")
      <4>1. 1 \in Ops /\ secure \in BOOLEAN
        BY ClientAssumption DEF Ops, ClientTypeOK
      <4> QED
        BY <4>1, AnswerShape
    <3>3. PICK u : u = secure
      OBVIOUS
    <3>4. /\ r \in Seq(Line) /\ r[1].kind \in {"ok", "err"}
          /\ \A i \in 1..Len(r) : r[i].op = 1 /\ r[i].tls = u /\ r[i].part = "whole"
          /\ \A i \in 1..Len(r) : lastOf(r[i], "dial") => i = Len(r)
      BY <3>2, <3>3 DEF isAnswer
    <3>5. pc' = "armRead"
      BY <1>13, <2>4 DEF Dial
    <3>6. secure' = u /\ buf' = <<>> /\ net' = <<>>
      BY <2>1, <2>2, <3>3
    <3> QED
      BY <2>1, <3>1, <3>4, <3>5, <3>6, AnswerBegins
  <2> QED
    BY <2>3, <2>4
<1>14. CASE Handshake
  <2>1. pc = "handshake" /\ todo = <<>> /\ net = <<>> /\ UNCHANGED <<op, cmd, want, net>> /\ secure' = TRUE
    BY <1>14 DEF Handshake
  <2>2. CASE cmd = "dial"
    <3>1. buf = <<>> /\ buf' = <<>> /\ pc' = "armRead" /\ want = "status"
      BY <1>2, <1>14, <2>1, <2>2 DEF Handshake, StreamOK, ControlOK
    <3>2. PICK q \in replies(1, "dial") : todo' = [i \in 1..Len(q) |-> [q[i] EXCEPT !.tls = TRUE]]
      BY <1>14, <2>2 DEF Handshake
    <3>3. isAnswer(q, 1, "dial") /\ op = 1
      <4>1. 1 \in Ops /\ secure \in BOOLEAN
        BY ClientAssumption DEF Ops, ClientTypeOK
      <4>2. op = 1
        BY <2>1, <2>2 DEF ControlOK, ClientTypeOK
      <4> QED
        BY <4>1, <4>2, AnswerShape
    <3>4. q \in Seq(Line) /\ Len(q) \in Nat /\ q # <<>> /\ \A i \in 1..Len(q) : q[i] \in Line
      BY <3>3 DEF isAnswer
    <3>5. PICK r : r = [i \in 1..Len(q) |-> [q[i] EXCEPT !.tls = TRUE]]
      OBVIOUS
    <3>6. \A l \in Line : /\ [l EXCEPT !.tls = TRUE] \in Line /\ [l EXCEPT !.tls = TRUE].tls = TRUE
                          /\ [l EXCEPT !.tls = TRUE].op = l.op /\ [l EXCEPT !.tls = TRUE].kind = l.kind
                          /\ [l EXCEPT !.tls = TRUE].part = l.part
      BY DEF Line
    <3>7. r \in Seq(Line) /\ Len(r) = Len(q) /\ \A i \in 1..Len(q) : r[i] = [q[i] EXCEPT !.tls = TRUE]
      BY <3>4, <3>5, <3>6
    <3>8. \A i \in 1..Len(q) : /\ r[i].tls = TRUE /\ r[i].op = q[i].op /\ r[i].kind = q[i].kind
                               /\ r[i].part = q[i].part
      BY <3>4, <3>6, <3>7
    <3>9. r[1].kind \in {"ok", "err"}
      BY <3>3, <3>4, <3>8 DEF isAnswer
    <3>10. \A i \in 1..Len(r) : r[i].op = 1 /\ r[i].tls = TRUE /\ r[i].part = "whole"
      BY <3>3, <3>7, <3>8 DEF isAnswer
    <3>11. \A i \in 1..Len(r) : lastOf(r[i], "dial") => i = Len(r)
      BY <3>3, <3>7, <3>8 DEF isAnswer, lastOf
    <3>12. todo' = r
      BY <3>2, <3>5
    <3>13. r \in Seq(Line)
      BY <3>7
    <3>14. want' = "status" /\ net' = <<>> /\ op' = 1 /\ cmd' = "dial"
      BY <2>1, <2>2, <3>1, <3>3
    <3> QED
      BY <2>1, <3>1, <3>9, <3>10, <3>11, <3>12, <3>13, <3>14, AnswerBegins
  <2>3. CASE cmd # "dial"
    <3>1. buf' = <<>> /\ todo' = todo /\ pc' = "idle"
      BY <1>14, <2>3 DEF Handshake, newReader
    <3> QED
      BY <1>3, <2>1, <3>1 DEF StreamOK
  <2> QED
    BY <2>2, <2>3
<1>15. CASE DialFails \/ Close
  BY <1>15 DEF DialFails, Close, StreamOK
<1>16. CASE ReadBody \/ CloseBody
  <2>1. pc \in {"held", "broken"} /\ UNCHANGED <<op, cmd, secure, buf, net, todo>>
    BY <1>16 DEF ReadBody, CloseBody
  <2>2. stream' = stream
    BY <1>4, <2>1
  <2>3. CASE ReadBody \/ ~body.done
    <3>1. pc' = "armRead" /\ UNCHANGED body /\ ~body.done /\ want' # "status"
      BY <1>16, <2>3 DEF ReadBody, CloseBody
    <3>2. pc = "held"
      BY <2>1, <3>1 DEF ControlOK, ClientTypeOK
    <3>3. AnswerOK
      BY <3>2 DEF StreamOK
    <3>4. AnswerOK'
      BY <2>1, <2>2, <3>1, <3>3 DEF AnswerOK
    <3> QED
      BY <3>1, <3>4 DEF StreamOK
  <2>4. CASE CloseBody /\ body.done
    <3>1. pc' = IF pc = "broken" THEN "closed" ELSE "idle"
      BY <2>4 DEF CloseBody
    <3>2. CASE pc = "held"
      <4>1. stream = <<>>
        BY <2>4, <3>2 DEF StreamOK, AnswerOK
      <4> QED
        BY <2>2, <3>1, <3>2, <4>1 DEF StreamOK
    <3>3. CASE pc = "broken"
      BY <3>1, <3>3 DEF StreamOK
    <3> QED
      BY <2>1, <3>2, <3>3
  <2> QED
    BY <1>16, <2>3, <2>4
<1>17. Call => \/ Dial \/ DialFails \/ Close \/ EnterRelay \/ ReadBody \/ CloseBody
               \/ \E c \in {"status", "user", "multi", "body"} : Start(c)
  BY DEF Call, Cmd, XClient, AuthPlain, User, Stat, ListOne, UidlOne, Dele, Capa, List, Uidl,
     retrieve
<1> QED
  BY <1>5, <1>6, <1>7, <1>8, <1>9, <1>10, <1>11, <1>12, <1>13, <1>14, <1>15, <1>16, <1>17
     DEF Next, Step, ServerAct

\* The last line that was read answered the operation it was read for.
LEMMA MatchStep ==
    ASSUME NoDeadlines \/ ~Split, ClientTypeOK, ControlOK, NoDeadlines => DeadlineOK,
           StreamOK, ResponseMatches, [Next]_cvars
    PROVE  ResponseMatches'
<1> USE DEF histVars
<1>1. CASE TakeLine
  <2>1. ~stuck
    BY <1>1 DEF TakeLine, hasLine, stuck
  <2> QED
    BY <1>1, <2>1, TakeInStep
<1>2. CASE TakeHalfLine
  <2>1. ~stuck
    BY <1>2 DEF TakeHalfLine, halfLine, stuck
  <2> QED
    BY <1>2, <2>1, HalfTaken
<1>3. last' = last => ResponseMatches'
  BY DEF ResponseMatches
<1>4. CASE Context \/ (\E g \in Guards : GuardStep(g)) \/ ServerAct \/ Terminated \/ UNCHANGED cvars
  <2>1. last' = last
    BY <1>4 DEF Context, Cancel, DeadlinePasses, GuardStep, GuardFires, GuardEnds, ServerAct,
       ServerSends, ServerSendsHalf, ServerCloses, Terminated, cvars
  <2> QED
    BY <1>3, <2>1
<1>5. CASE Step /\ ~TakeLine /\ ~TakeHalfLine
  <2>1. last' = last
    BY <1>5 DEF Step, ArmWrite, Write, WriteTimesOut, WriteFails, ArmRead, Fill, ReadTimesOut,
       ReadFails, LineTooLong, HandshakeFails, Fail
  <2> QED
    BY <1>3, <2>1
<1>6. CASE Handshake \/ Call
  <2>1. Call => \/ Dial \/ DialFails \/ Close \/ EnterRelay \/ ReadBody \/ CloseBody
                \/ \E c \in {"status", "user", "multi", "body"} : Start(c)
    BY DEF Call, Cmd, XClient, AuthPlain, User, Stat, ListOne, UidlOne, Dele, Capa, List, Uidl,
       retrieve
  <2>2. last' = last
    BY <1>6, <2>1 DEF Handshake, Dial, DialFails, Close, EnterRelay, ReadBody, CloseBody, Start
  <2> QED
    BY <1>3, <2>2
<1> QED
  BY <1>1, <1>2, <1>4, <1>5, <1>6 DEF Next

(* readLine hands an operation only lines that answer this operation, and    *)
(* none that was sent before the STLS handshake as an answer under TLS: for  *)
(* any number of operations, answers of any length, refused commands,        *)
(* drained bodies and cancelled reads.  The argument is StreamOK: between    *)
(* operations nothing is left to be read, inside one only its own answer,    *)
(* which ends with the line that completes it - or nothing is read any more. *)
(* The hypothesis excludes the one case in which the code reads out of step, *)
(* half a line taken for a line when a deadline passes inside it.            *)
THEOREM ResponsesMatch ==
    ASSUME NoDeadlines \/ ~Split
    PROVE  Spec => []ResponseMatches
<1>1. Init => StreamOK /\ ResponseMatches
  <2> SUFFICES ASSUME Init PROVE StreamOK /\ ResponseMatches
    OBVIOUS
  <2>1. StreamOK
    BY DEF Init, StreamOK, stream
  <2>2. ResponseMatches
    BY DEF Init, ResponseMatches, NoLine
  <2> QED
    BY <2>1, <2>2
<1>2. Init => (NoDeadlines => DeadlineOK)
  BY DeadlineInit
<1>3. ClientTypeOK /\ ControlOK /\ (NoDeadlines => DeadlineOK) /\ [Next]_cvars
        => (NoDeadlines => DeadlineOK)'
  <2> SUFFICES ASSUME ClientTypeOK, ControlOK, NoDeadlines => DeadlineOK, [Next]_cvars, NoDeadlines
               PROVE  DeadlineOK'
    OBVIOUS
  <2> QED
    BY DeadlineStep
<1>4. ClientTypeOK /\ ControlOK /\ (NoDeadlines => DeadlineOK) /\ StreamOK /\ ResponseMatches
      /\ [Next]_cvars => (StreamOK /\ ResponseMatches)'
  <2> SUFFICES ASSUME ClientTypeOK, ControlOK, NoDeadlines => DeadlineOK, StreamOK, ResponseMatches,
                      [Next]_cvars
               PROVE  StreamOK' /\ ResponseMatches'
    OBVIOUS
  <2>1. ClientTypeOK'
    BY TypeStep
  <2>2. StreamOK'
    BY <2>1, StreamStep
  <2>3. ResponseMatches'
    BY MatchStep
  <2> QED
    BY <2>2, <2>3
<1> QED
  BY Kept, <1>1, <1>2, <1>3, <1>4, PTL DEF Spec
=============================================================================
