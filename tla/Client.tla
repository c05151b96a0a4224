------------------------------- MODULE Client -------------------------------
(***************************************************************************)
(* pop3client (client.go, commands.go): Dial, the STLS upgrade, commands   *)
(* with single-line, multi-line and streamed responses, and the guard      *)
(* goroutine each operation starts so that a cancelled context interrupts  *)
(* a blocked read or write by forcing the connection's deadline into the   *)
(* past.                                                                   *)
(*                                                                         *)
(* Operation 1 is Dial.  The caller uses the Client from one goroutine and *)
(* as documented: it reads a body to its end or closes it before the next  *)
(* command, and gives the Client up when it cancelled an operation in      *)
(* flight or one failed with anything but a ProtocolError.  Contexts are   *)
(* named by the operation they were made for; later operations may be      *)
(* given the same one.  CancelWhen = {"completed"} is the usual            *)
(* "defer cancel()".                                                       *)
(*                                                                         *)
(* A response is a sequence of lines, each marked with the operation it    *)
(* answers.  With Split the server's bytes may arrive so that a read finds *)
(* half a line.                                                            *)
(***************************************************************************)
EXTENDS Integers, Sequences, FiniteSets

CONSTANTS
    MaxOps,             \* bound: operations, Dial included
    MaxBody,            \* bound: lines of a multi-line response
    MaxResponseLines,   \* Options.MaxResponseLines
    Kinds,              \* kinds of context: "background", "cancel", "deadline"
    Modes,              \* "plain", "implicit" (TLS), "starttls"
    Split,              \* whether a read may find half a line
    CancelWhen          \* contexts are cancelled "inFlight", or when their operations are "completed"

ASSUME ClientAssumption ==
    /\ MaxOps \in Nat \ {0} /\ MaxBody \in Nat /\ MaxResponseLines \in Nat
    /\ Kinds \subseteq {"background", "cancel", "deadline"}
    /\ Modes \subseteq {"plain", "implicit", "starttls"}
    /\ Split \in BOOLEAN /\ CancelWhen \subseteq {"inFlight", "completed"}

Ops    == 1..MaxOps
Guards == 0..MaxOps     \* guard 0 is the one of the STLS command inside Dial
NoLine == [op |-> 0, kind |-> "none", part |-> "whole", tls |-> FALSE]

VARIABLES
    pc,         \* where the caller's goroutine is
    op,         \* the last operation started
    cmd,        \* what it is: "dial", "stls", "status", "user", "multi" or "body"
    want,       \* what readLine is called for: "status", "lines", "body" or "drain"
    lines,      \* lines of a multi-line response so far
    body,       \* bodyReader: done, and whether stop is still set
    mode,       \* how Dial connects
    ctx,        \* the context of each operation
    kind,       \* the kind of each context
    cancelled,  \* contexts cancelled by the caller
    passed,     \* contexts whose deadline has passed
    guard,      \* guard goroutines: "none", "armed", "stopped" (done is closed), "ended"
    stops,      \* how often each stop function was called
    rdl, wdl,   \* the connection's read and write deadline: 0 (none), a context, or -1 (past)
    secure,     \* TLS is up
    todo,       \* lines the server will still send
    net,        \* lines sent and not yet read
    buf,        \* Client.reader
    gone,       \* the server has closed the connection
    \* history
    last,       \* the last line readLine returned, with the operation and TLS state it went to
    timedOut,   \* operations that failed with a timeout, with the deadline that passed
    givenUp     \* the caller has cancelled an operation in flight

callVars  == <<pc, op, cmd, want, lines, body, mode>>
ctxVars   == <<ctx, kind, cancelled, passed>>
guardVars == <<guard, stops>>
dlVars    == <<rdl, wdl>>
netVars   == <<secure, todo, net, buf, gone>>
histVars  == <<last, timedOut, givenUp>>

cvars == <<callVars, ctxVars, guardVars, dlVars, netVars, histVars>>

------------------------------------------------------------------------------
(* Contexts, deadlines and guards.                                           *)

ctxDone(c)  == c \in cancelled \cup passed
expired(d)  == d = -1 \/ d \in passed
hasDeadline == kind[ctx[op]] = "deadline"
guardCtx(g) == ctx[IF g = 0 THEN 1 ELSE g]

\* guard(ctx): a context that cannot be cancelled starts no goroutine.
armedGuard(k) == IF k = "background" THEN "none" ELSE "armed"

\* The stop functions of guards gs: each closes its done.
stopped(gs) ==
    [g \in Guards |-> IF g \in gs /\ guard[g] = "armed" THEN "stopped" ELSE guard[g]]

Stop(gs) ==
    /\ guard' = stopped(gs)
    /\ stops' = [g \in Guards |-> IF g \in gs THEN stops[g] + 1 ELSE stops[g]]

\* Mutant: only the write deadline is poisoned.
GuardFiresWriteOnly(g) ==
    /\ guard[g] \in {"armed", "stopped"}
    /\ ctxDone(guardCtx(g))
    /\ guard' = [guard EXCEPT ![g] = "ended"]
    /\ wdl' = -1
    /\ UNCHANGED <<callVars, ctxVars, stops, rdl, netVars, histVars>>

\* The goroutine's select finds ctx.Done ready, whether or not done is closed too.
GuardFires(g) ==
    /\ guard[g] \in {"armed", "stopped"}
    /\ ctxDone(guardCtx(g))
    /\ guard' = [guard EXCEPT ![g] = "ended"]
    /\ rdl' = -1 /\ wdl' = -1
    /\ UNCHANGED <<callVars, ctxVars, stops, netVars, histVars>>

\* Mutant: the goroutine poisons the deadline on its way out.
GuardEndsPoisoning(g) ==
    /\ guard[g] = "stopped"
    /\ guard' = [guard EXCEPT ![g] = "ended"]
    /\ rdl' = -1 /\ wdl' = -1
    /\ UNCHANGED <<callVars, ctxVars, stops, netVars, histVars>>

\* The select finds done closed.
GuardEnds(g) ==
    /\ guard[g] = "stopped"
    /\ guard' = [guard EXCEPT ![g] = "ended"]
    /\ UNCHANGED <<callVars, ctxVars, stops, dlVars, netVars, histVars>>

Busy == pc \in {"handshake", "armWrite", "write", "armRead", "read", "held"}

\* The caller, or a goroutine of its own, cancels a context.
Cancel(c) ==
    /\ c <= op /\ ctx[c] = c
    /\ kind[c] # "background" /\ c \notin cancelled
    /\ LET inFlight == Busy /\ ctx[op] = c
       IN  /\ (IF inFlight THEN "inFlight" ELSE "completed") \in CancelWhen
           /\ givenUp' = (givenUp \/ inFlight)
    /\ cancelled' = cancelled \cup {c}
    /\ UNCHANGED <<callVars, ctx, kind, passed, guardVars, dlVars, netVars, last, timedOut>>

DeadlinePasses(c) ==
    /\ c <= op /\ ctx[c] = c
    /\ kind[c] = "deadline" /\ c \notin passed
    /\ passed' = passed \cup {c}
    /\ UNCHANGED <<callVars, ctx, kind, cancelled, guardVars, dlVars, netVars, histVars>>

------------------------------------------------------------------------------
(* The server: answers in order, or not at all.                              *)

line(o, k) == [op |-> o, kind |-> k, part |-> "whole", tls |-> secure]

\* What may answer command c of operation o.  "+OK" to STLS may have plaintext behind it.
replies(o, c) ==
    LET okBody(n) == <<line(o, "ok")>> \o [i \in 1..n |-> line(o, "text")]
    IN  {<<line(o, "err")>>} \cup
        CASE c \in {"multi", "body"} ->
               {Append(okBody(n), line(o, "dot")) : n \in 0..MaxBody}
          [] c = "stls" -> {okBody(0), okBody(1)}
          [] OTHER      -> {okBody(0)}

ServerSends ==
    /\ todo # <<>> /\ ~gone /\ pc # "closed"
    /\ net' = Append(net, Head(todo))
    /\ todo' = Tail(todo)
    /\ UNCHANGED <<callVars, ctxVars, guardVars, dlVars, secure, buf, gone, histVars>>

\* A line in two pieces; the second is sent by ServerSends.
ServerSendsHalf ==
    /\ Split /\ todo # <<>> /\ ~gone /\ pc # "closed"
    /\ Head(todo).part = "whole"
    /\ net' = Append(net, [Head(todo) EXCEPT !.part = "head"])
    /\ todo' = [todo EXCEPT ![1].part = "tail"]
    /\ UNCHANGED <<callVars, ctxVars, guardVars, dlVars, secure, buf, gone, histVars>>

ServerCloses ==
    /\ ~gone /\ pc \notin {"start", "closed"}
    /\ gone' = TRUE
    /\ UNCHANGED <<callVars, ctxVars, guardVars, dlVars, secure, todo, net, buf, histVars>>

------------------------------------------------------------------------------
(* Starting an operation.                                                    *)

\* The context the next operation o is given: a new one, or that of the operation before.
GiveContext(o) ==
    \/ \E k \in Kinds : /\ kind' = [kind EXCEPT ![o] = k]
                        /\ ctx' = [ctx EXCEPT ![o] = o]
    \/ o > 1 /\ kind' = kind /\ ctx' = [ctx EXCEPT ![o] = ctx[o - 1]]

\* The guard and the command of operation o; its context is given.
Begin(o, c) ==
    /\ op' = o /\ cmd' = c /\ want' = "status"
    /\ pc' = "armWrite"
    /\ guard' = [guard EXCEPT ![o] = armedGuard(kind'[ctx'[o]])]

Start(c) ==
    /\ pc = "idle" /\ op < MaxOps
    /\ ~givenUp
    /\ GiveContext(op + 1)
    /\ Begin(op + 1, c)
    /\ UNCHANGED <<lines, body, mode, cancelled, passed, stops, dlVars, netVars, histVars>>

Cmd       == Start("status")
Stat      == Start("status")    \* what it reads out of the response changes nothing more
ListOne   == Start("status")
UidlOne   == Start("status")
Dele      == Start("status")    \* Rset, Noop and Quit too
XClient   == Start("status")
AuthPlain == Start("status")
User      == op + 1 < MaxOps /\ Start("user")
Capa      == Start("multi")
List      == Start("multi")
Uidl      == Start("multi")
retrieve  == Start("body")

\* Dial: connect; with implicit TLS the handshake comes before the guard.
Dial ==
    /\ pc = "start"
    /\ GiveContext(1)
    /\ op' = 1 /\ cmd' = "dial" /\ want' = "status"
    /\ IF mode = "implicit"
       THEN /\ pc' = "handshake"
            /\ rdl' = (IF kind'[1] = "deadline" THEN 1 ELSE 0) /\ wdl' = rdl'
            /\ UNCHANGED <<guard, todo>>
       ELSE /\ pc' = "armRead"
            /\ guard' = [guard EXCEPT ![1] = armedGuard(kind'[1])]
            /\ todo' \in replies(1, "dial")
            /\ UNCHANGED dlVars
    /\ UNCHANGED <<lines, body, mode, cancelled, passed, stops, secure, net, buf, gone, histVars>>

\* DialContext fails.
DialFails ==
    /\ pc = "start"
    /\ pc' = "closed"
    /\ UNCHANGED <<op, cmd, want, lines, body, mode, ctxVars, guardVars, dlVars, netVars, histVars>>

------------------------------------------------------------------------------
(* Writing and reading.                                                      *)

\* The guards whose stop is deferred when an operation returns now.
deferred ==
    CASE pc = "handshake" /\ cmd = "dial" -> {}
      [] pc # "handshake" /\ cmd = "stls" -> {0, 1}
      [] OTHER                            -> {op}

\* Mutant: finish does not forget the stop function.
finishAgain ==
    /\ body' = [done |-> TRUE, stop |-> body.stop]
    /\ Stop(IF body.stop THEN {op} ELSE {})

\* bodyReader.finish: the body is consumed or has failed; its guard is released.
finish ==
    /\ body' = [done |-> TRUE, stop |-> FALSE]
    /\ Stop(IF body.stop THEN {op} ELSE {})

\* An I/O error: Dial closes the connection itself, otherwise the caller does,
\* after closing the body reader it may hold.
Fail(next) ==
    /\ IF want \in {"body", "drain"} THEN finish ELSE Stop(deferred) /\ UNCHANGED body
    /\ pc' = next
    /\ UNCHANGED <<op, cmd, want, lines, mode, ctxVars, dlVars,
                   secure, todo, net, gone, last, givenUp>>

brokenOff == IF want = "body" THEN "broken" ELSE "closed"

\* writeCmd: the deadline, then the line.
ArmWrite ==
    /\ pc = "armWrite"
    /\ pc' = "write"
    /\ wdl' = IF hasDeadline THEN ctx[op] ELSE wdl
    /\ UNCHANGED <<op, cmd, want, lines, body, mode, ctxVars, guardVars, rdl, netVars, histVars>>

Write ==
    /\ pc = "write" /\ ~expired(wdl)
    /\ pc' = "armRead"
    /\ \E r \in replies(op, cmd) : todo' = todo \o r
    /\ UNCHANGED <<op, cmd, want, lines, body, mode, ctxVars, guardVars, dlVars,
                   secure, net, buf, gone, histVars>>

WriteTimesOut ==
    /\ pc = "write" /\ expired(wdl)
    /\ Fail(brokenOff)
    /\ timedOut' = timedOut \cup {<<op, wdl>>}
    /\ UNCHANGED buf

WriteFails ==
    /\ pc = "write" /\ gone
    /\ Fail(brokenOff)
    /\ UNCHANGED <<buf, timedOut>>

\* readLine: the deadline, then ReadLine until a line is there.
ArmRead ==
    /\ pc = "armRead"
    /\ pc' = "read"
    /\ rdl' = IF hasDeadline THEN ctx[op] ELSE rdl
    /\ UNCHANGED <<op, cmd, want, lines, body, mode, ctxVars, guardVars, wdl, netVars, histVars>>

\* A half line is complete when its other half is behind it.
hasLine  == buf # <<>> /\ (buf[1].part = "head" => Len(buf) > 1)
halfLine == buf # <<>> /\ ~hasLine

Fill ==
    /\ pc = "read" /\ ~hasLine
    /\ net # <<>> /\ ~expired(rdl)
    /\ \E n \in 1..Len(net) : /\ buf' = buf \o SubSeq(net, 1, n)
                              /\ net' = SubSeq(net, n + 1, Len(net))
    /\ UNCHANGED <<callVars, ctxVars, guardVars, dlVars, secure, todo, gone, histVars>>

readTimedOut == expired(rdl)
readEOF      == gone /\ net = <<>>

ReadTimesOut ==
    /\ pc = "read" /\ buf = <<>> /\ readTimedOut
    /\ Fail(brokenOff)
    /\ timedOut' = timedOut \cup {<<op, rdl>>}
    /\ UNCHANGED buf

\* The caller of bodyReader.Read cannot tell the end of the connection, io.EOF,
\* from the end of the body.
ReadFails ==
    /\ pc = "read" /\ buf = <<>> /\ readEOF /\ ~readTimedOut
    /\ \E next \in {brokenOff} \cup (IF want = "body" THEN {"held"} ELSE {}) : Fail(next)
    /\ UNCHANGED <<buf, timedOut>>

\* More bytes than MaxLineLength; the rest of the line is not read.
LineTooLong ==
    /\ pc = "read" /\ buf # <<>>
    /\ Fail(brokenOff)
    /\ UNCHANGED <<buf, timedOut>>

------------------------------------------------------------------------------
(* What becomes of a line.                                                   *)

\* Half a line may be cut before or after what tells its kind: "+O", the first dot
\* of "..", the terminator with or without its CR.
isOK(l)  == IF l.part = "tail" \/ (l.part = "head" /\ l.kind = "ok") THEN BOOLEAN
            ELSE {l.part = "whole" /\ l.kind = "ok"}
isDot(l) == IF l.part # "whole" /\ (l.kind = "text" \/ (l.part = "head" /\ l.kind = "dot"))
            THEN BOOLEAN
            ELSE {l.part = "whole" /\ l.kind = "dot"}

\* Mutant: retrieve forgets its guard when the command is refused.
CompleteForgetsGuard ==
    /\ Stop({op} \ (IF cmd = "body" THEN {op} ELSE {}))
    /\ pc' = "idle"
    /\ UNCHANGED <<op, cmd, want, lines, body, ctx, dlVars>>

\* The operation is over, well or with a ProtocolError, and the Client usable.
Complete ==
    /\ Stop({op})
    /\ pc' = "idle"
    /\ UNCHANGED <<op, cmd, want, lines, body, ctx, dlVars>>

\* Dial refuses a greeting, or an answer to STLS, that is not "+OK".
Refuse ==
    /\ cmd \in {"dial", "stls"}
    /\ Stop(deferred)
    /\ pc' = "closed"
    /\ UNCHANGED <<op, cmd, want, lines, body, ctx, dlVars>>

\* startTLS after the greeting: Cmd("STLS") with a guard of its own.
StartSTLS ==
    /\ cmd' = "stls" /\ pc' = "armWrite"
    /\ guard' = [guard EXCEPT ![0] = armedGuard(kind[ctx[1]])]
    /\ UNCHANGED <<op, want, lines, body, ctx, stops, dlVars>>

\* startTLS after the answer: the handshake, under the context's deadline.
StartHandshake ==
    /\ Stop({0})
    /\ pc' = "handshake"
    /\ IF hasDeadline THEN rdl' = ctx[op] /\ wdl' = ctx[op] ELSE UNCHANGED dlVars
    /\ UNCHANGED <<op, cmd, want, lines, body, ctx>>

\* User: the PASS command after a good answer to USER.
SendPass ==
    /\ ctx' = [ctx EXCEPT ![op + 1] = ctx[op]]
    /\ op' = op + 1 /\ cmd' = "status" /\ pc' = "armWrite"
    /\ guard' = [stopped({op}) EXCEPT ![op + 1] = armedGuard(kind[ctx[op]])]
    /\ stops' = [stops EXCEPT ![op] = @ + 1]
    /\ UNCHANGED <<want, lines, body, dlVars>>

ReadLines ==
    /\ want' = "lines" /\ lines' = 0 /\ pc' = "armRead"
    /\ UNCHANGED <<op, cmd, body, ctx, guardVars, dlVars>>

\* retrieve returns the bodyReader; the guard stays armed.
GiveBody ==
    /\ body' = [done |-> FALSE, stop |-> TRUE]
    /\ pc' = "held"
    /\ UNCHANGED <<op, cmd, want, lines, ctx, guardVars, dlVars>>

Status(ok) ==
    IF ~ok THEN (IF cmd \in {"dial", "stls"} THEN Refuse ELSE Complete)
    ELSE CASE cmd = "dial"   -> IF mode = "starttls" THEN StartSTLS ELSE Complete
           [] cmd = "stls"   -> StartHandshake
           [] cmd = "status" -> Complete
           [] cmd = "user"   -> SendPass
           [] cmd = "multi"  -> ReadLines
           [] cmd = "body"   -> GiveBody

\* Mutant: one line too many is accepted.
tooManyLate(n) == n > MaxResponseLines + 1

tooMany(n) == n > MaxResponseLines

\* readMultiLine: the response ends, is too long, or goes on.  The error leaves the
\* Client open with lines unread; the caller gives it up, as after every such error.
MultiLine(end) ==
    IF end THEN Complete
    ELSE IF tooMany(lines + 1)
    THEN /\ Stop({op})
         /\ pc' = "closed"
         /\ UNCHANGED <<op, cmd, want, lines, body, ctx, dlVars>>
    ELSE /\ lines' = lines + 1
         /\ pc' = "armRead"
         /\ UNCHANGED <<op, cmd, want, body, ctx, guardVars, dlVars>>

\* bodyReader.Read: a line for the caller, or the end.
BodyLine(end) ==
    /\ pc' = "held"
    /\ IF end THEN finish ELSE UNCHANGED <<body, guardVars>>
    /\ UNCHANGED <<op, cmd, want, lines, ctx, dlVars>>

\* bodyReader.Close: lines are thrown away up to the end.
DrainLine(end) ==
    /\ IF end THEN finish /\ pc' = "idle"
       ELSE pc' = "armRead" /\ UNCHANGED <<body, guardVars>>
    /\ UNCHANGED <<op, cmd, want, lines, ctx, dlVars>>

Accept(l) ==
    /\ CASE want = "status" -> \E ok \in isOK(l) : Status(ok)
         [] want = "lines"  -> \E end \in isDot(l) : MultiLine(end)
         [] want = "body"   -> \E end \in isDot(l) : BodyLine(end)
         [] want = "drain"  -> \E end \in isDot(l) : DrainLine(end)
    /\ last' = [line |-> l, op |-> op, tls |-> secure]
    /\ UNCHANGED <<mode, kind, cancelled, passed, secure, todo, net, gone, timedOut, givenUp>>

TakeLine ==
    /\ pc = "read" /\ hasLine
    /\ LET n == IF buf[1].part = "head" THEN 2 ELSE 1
       IN  /\ buf' = SubSeq(buf, n + 1, Len(buf))
           /\ Accept(IF n = 2 THEN [buf[1] EXCEPT !.part = "whole"] ELSE buf[1])

\* bufio.ReadLine: when the read fails with bytes in the buffer it returns them
\* as a line, without the error.
TakeHalfLine ==
    /\ pc = "read" /\ halfLine /\ (readTimedOut \/ readEOF)
    /\ buf' = <<>>
    /\ Accept(buf[1])

------------------------------------------------------------------------------
(* TLS, bodies, relays, the end.                                             *)

\* startTLS: a new reader forgets what was buffered.
newReader == <<>>

\* The handshake succeeds if nothing else is on the way.  Dial then arms its
\* guard and reads the greeting; startTLS is done, and Dial with it.
Handshake ==
    /\ pc = "handshake" /\ ~gone /\ todo = <<>> /\ net = <<>>
    /\ secure' = TRUE
    /\ IF cmd = "dial"
       THEN /\ pc' = "armRead"
            /\ guard' = [guard EXCEPT ![1] = armedGuard(kind[1])]
            /\ \E r \in replies(1, "dial") :
                  todo' = [i \in 1..Len(r) |-> [r[i] EXCEPT !.tls = TRUE]]
            /\ UNCHANGED <<stops, buf>>
       ELSE pc' = "idle" /\ Stop({1}) /\ buf' = newReader /\ UNCHANGED todo
    /\ UNCHANGED <<op, cmd, want, lines, body, mode, ctxVars, dlVars, net, gone, histVars>>

\* HandshakeContext also watches the context itself.
HandshakeFails ==
    /\ pc = "handshake"
    /\ gone \/ net # <<>> \/ expired(rdl) \/ ctxDone(ctx[1])
    /\ Fail(brokenOff)
    /\ UNCHANGED <<buf, timedOut>>

ReadBody ==
    /\ pc = "held" /\ ~body.done
    /\ want' = "body" /\ pc' = "armRead"
    /\ UNCHANGED <<op, cmd, lines, body, mode, ctxVars, guardVars, dlVars, netVars, histVars>>

\* Mutant: Close leaves the rest of the body unread.
CloseBodyUnread ==
    /\ pc \in {"held", "broken"}
    /\ finish
    /\ pc' = IF pc = "broken" THEN "closed" ELSE "idle"
    /\ UNCHANGED <<op, cmd, lines, want, mode, ctxVars, dlVars, netVars, histVars>>

CloseBody ==
    /\ pc \in {"held", "broken"}
    /\ IF body.done
       THEN finish /\ pc' = (IF pc = "broken" THEN "closed" ELSE "idle") /\ UNCHANGED want
       ELSE want' = "drain" /\ pc' = "armRead" /\ UNCHANGED <<body, guardVars>>
    /\ UNCHANGED <<op, cmd, lines, mode, ctxVars, dlVars, netVars, histVars>>

\* The caller clears the deadlines and takes the connection over.
EnterRelay ==
    /\ pc = "idle"
    /\ ~givenUp
    /\ pc' = "relay"
    /\ rdl' = 0 /\ wdl' = 0
    /\ UNCHANGED <<op, cmd, want, lines, body, mode, ctxVars, guardVars, netVars, histVars>>

Close ==
    /\ pc \in {"idle", "relay"}
    /\ pc' = "closed"
    /\ UNCHANGED <<op, cmd, want, lines, body, mode, ctxVars, guardVars, dlVars, netVars, histVars>>

------------------------------------------------------------------------------

Init ==
    /\ pc = "start" /\ op = 0 /\ cmd = "dial" /\ want = "status" /\ lines = 0
    /\ body = [done |-> TRUE, stop |-> FALSE]
    /\ mode \in Modes
    /\ ctx = [o \in Ops |-> o] /\ kind = [o \in Ops |-> "background"]
    /\ cancelled = {} /\ passed = {}
    /\ guard = [g \in Guards |-> "none"] /\ stops = [g \in Guards |-> 0]
    /\ rdl = 0 /\ wdl = 0
    /\ secure = FALSE /\ todo = <<>> /\ net = <<>> /\ buf = <<>> /\ gone = FALSE
    /\ last = [line |-> NoLine, op |-> 0, tls |-> FALSE]
    /\ timedOut = {} /\ givenUp = FALSE

\* What the goroutine does inside an operation; a handshake also needs the server.
Step ==
    \/ ArmWrite \/ Write \/ WriteTimesOut \/ WriteFails
    \/ ArmRead \/ Fill \/ TakeLine \/ TakeHalfLine \/ ReadTimesOut \/ ReadFails
    \/ LineTooLong
    \/ HandshakeFails

\* What the caller chooses to do.
Call ==
    \/ Dial \/ DialFails \/ Cmd \/ XClient \/ AuthPlain \/ User
    \/ Stat \/ ListOne \/ UidlOne \/ Dele
    \/ Capa \/ List \/ Uidl \/ retrieve
    \/ ReadBody \/ CloseBody \/ EnterRelay \/ Close

GuardStep(g) == GuardFires(g) \/ GuardEnds(g)

Context   == \E c \in Ops : Cancel(c) \/ DeadlinePasses(c)
ServerAct == ServerSends \/ ServerSendsHalf \/ ServerCloses

Terminated == pc = "closed" /\ UNCHANGED cvars

Next ==
    \/ Step \/ Handshake \/ Call \/ Context \/ ServerAct
    \/ \E g \in Guards : GuardStep(g)
    \/ Terminated

Spec == Init /\ [][Next]_cvars

(* The goroutine runs when it can, some guard does when one can, and         *)
(* deadlines pass; nothing is assumed of the server or of the caller.        *)
FairSpec ==
    /\ Spec
    /\ WF_cvars(Step)
    /\ WF_cvars(\E g \in Guards : GuardStep(g))
    /\ WF_cvars(\E c \in Ops : DeadlinePasses(c))

------------------------------------------------------------------------------
(* Properties.                                                               *)

Line == [op : Ops, kind : {"ok", "err", "text", "dot"},
         part : {"whole", "head", "tail"}, tls : BOOLEAN]

(* Every variable keeps its type; a multi-line response never grows past     *)
(* Options.MaxResponseLines.                                                 *)
ClientTypeOK ==
    /\ pc \in {"start", "handshake", "armWrite", "write", "armRead", "read",
               "held", "broken", "idle", "relay", "closed"}
    /\ op \in 0..MaxOps
    /\ cmd \in {"dial", "stls", "status", "user", "multi", "body"}
    /\ want \in {"status", "lines", "body", "drain"}
    /\ lines \in 0..MaxResponseLines
    /\ body \in [done : BOOLEAN, stop : BOOLEAN]
    /\ mode \in Modes
    /\ ctx \in [Ops -> Ops] /\ kind \in [Ops -> Kinds \cup {"background"}]
    /\ cancelled \subseteq Ops /\ passed \subseteq Ops
    /\ guard \in [Guards -> {"none", "armed", "stopped", "ended"}]
    /\ stops \in [Guards -> Nat]
    /\ rdl \in {-1, 0} \cup Ops /\ wdl \in {-1, 0} \cup Ops
    /\ secure \in BOOLEAN /\ gone \in BOOLEAN
    /\ todo \in Seq(Line) /\ net \in Seq(Line) /\ buf \in Seq(Line)
    /\ last \in [line : Line \cup {NoLine}, op : 0..MaxOps, tls : BOOLEAN]
    /\ timedOut \subseteq Ops \X ({-1} \cup Ops) /\ givenUp \in BOOLEAN

(* readLine hands an operation only lines that answer this operation, after  *)
(* any sequence of refused commands, drained bodies and interrupted reads,   *)
(* and nothing that was sent before the STLS handshake is taken for an       *)
(* answer under TLS.                                                         *)
ResponseMatches == last.op = last.line.op /\ last.tls = last.line.tls

(* No guard's done channel is closed twice (which would panic), on any path  *)
(* through retrieve, bodyReader.Read, bodyReader.Close and their errors.     *)
GuardStoppedOnce == \A g \in Guards : stops[g] <= 1

(* The deadline of one context never ends an operation of another.           *)
NoStaleDeadline == \A t \in timedOut : t[2] \in {-1, ctx[t[1]]}

\* Once the guard of the operation in flight has fired, a read of this operation
\* waits for nothing.
CancellationSticks == pc = "read" /\ guard[op] = "ended" => expired(rdl)

\* An operation of the caller's, up to o, has a context that is done.
doneBy(o) == \E p \in 1..o : ctxDone(ctx[p])

(* The deadlines on the connection, which the operations and their guard     *)
(* goroutines write concurrently (guard, writeCmd, readLine, SetDeadline),   *)
(* all come from the caller's contexts, with every kind of context,          *)
(* cancelled at any time:                                                    *)
(*  - an operation times out only if its context or that of an earlier       *)
(*    operation is done;                                                     *)
(*  - a read whose guard has fired waits at most for the deadline of its own *)
(*    context, and not at all if this has none;                              *)
(*  - a caller that cleared the deadlines for its relay finds them cleared,  *)
(*    as long as none of the contexts it used is done.                       *)
DeadlinesExplained ==
    /\ \A t \in timedOut : doneBy(t[1])
    /\ CancellationSticks \/ (hasDeadline /\ rdl = ctx[op])
    /\ pc = "relay" /\ ~doneBy(op) => rdl = 0 /\ wdl = 0

Blocked(o) == op = o /\ Busy /\ pc # "held"

(* An operation whose context is done, cancelled or past its deadline, does  *)
(* not stay in a call, whatever the server does.                             *)
ContextEnds == \A o \in Ops : (Blocked(o) /\ ctxDone(ctx[o])) ~> ~Blocked(o)

(* When the Client is closed no guard goroutine stays behind.                *)
GuardsEnd == (pc = "closed") ~> (\A g \in Guards : guard[g] \in {"none", "ended"})
=============================================================================
