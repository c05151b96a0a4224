-------------------------------- MODULE Conn --------------------------------
(***************************************************************************)
(* One POP3 connection: the goroutine that runs Server.handleConn and      *)
(* Conn.serve (pop3server/server.go, pop3server/conn.go), the consumer's   *)
(* callbacks it enters, the client at the other end and the clock.         *)
(*                                                                         *)
(* pc is where the goroutine is:                                           *)
(*   "new"      in the NewSession callback                                 *)
(*   "flush"    in writer.Flush; after says what follows it                *)
(*   "read"     in readLine at the top of the loop                         *)
(*   "call"     in a Session method or the UnknownCommandHandler (call)    *)
(*   "stream"   in io.Copy of a RETR/TOP body                              *)
(*   "cont"     in readLine for the AUTH continuation                      *)
(*   "shake"    in the TLS handshake of STLS                               *)
(*   "post"     in serve, dispatch has returned                            *)
(*   "teardown" serve has returned, its deferred calls are about to run    *)
(*   "closing"  in Session.Close                                           *)
(*   "recover"  in recoverConn, after a panic                              *)
(*   "done"     the goroutine has ended                                    *)
(*                                                                         *)
(* The bytes of the client are items: "plain" and "tls" are lines sent     *)
(* before and under TLS, "hello" is a ClientHello.  What a line says is    *)
(* chosen when it is read.                                                 *)
(***************************************************************************)
EXTENDS Integers, Sequences

CONSTANTS
    UserOptions,   \* the Options records the embedder may pass to New
    Panics,        \* whether consumer code (NewSession, Session, hooks) may panic
    MaxInFlight,   \* bound: items the client has sent and the server not read
    ErrorBound     \* bound: the client sends nothing more once errorCount is here

\* SessionExt are the optional interfaces the Session implements; a session with
\* "SASL" advertises PLAIN.  Durations are in arbitrary units.
OptionsType ==
    [ InsecureAuth : BOOLEAN, TLSConfig : BOOLEAN, MaxErrors : Int,
      AuthFailuresExemptFromMaxErrors : BOOLEAN, ErrorDelay : Int,
      MaxErrorDelay : Int, IdleTimeout : Int, AuthIdleTimeout : Int,
      AbsoluteSessionTimeout : Int, CommandTimeout : Int, WriteTimeout : Int,
      UnknownCommandHandler : BOOLEAN,
      SessionExt : SUBSET {"SASL", "LANG", "UTF8"} ]

ASSUME OptionsAssumption ==
    /\ UserOptions \subseteq OptionsType
    /\ Panics \in BOOLEAN
    /\ MaxInFlight \in Nat
    /\ ErrorBound \in Nat

\* Options.defaults: a zero value takes the library's default, a negative one
\* stays and disables.
withDefault(o, f, d) == [o EXCEPT ![f] = IF o[f] = 0 THEN d ELSE o[f]]

defaults(o) ==
    LET o1 == withDefault(o, "IdleTimeout", 600)
        o2 == withDefault(o1, "MaxErrors", 10)
        o3 == withDefault(o2, "MaxErrorDelay", 30)
    IN  withDefault(o3, "WriteTimeout", 60)

VARIABLES
    opts,          \* Server.opts: fixed by New
    \* control of the goroutine
    pc, after,
    call,          \* the consumer method in progress, "Body" while a body is open
    quit,          \* dispatch's result, and the loop's decision to stop
    \* fields of Conn
    session,       \* Conn.session is set
    state,         \* Conn.state
    username,      \* Conn.username: "" or how it was sent, "plain" or "tls"
    errorCount,
    isTLS, hijacked, closePending,
    lastErr,       \* Conn.lastErr is set
    delay,         \* how long applyErrorDelay slept in this command
    \* the response stream
    resp,          \* complete responses written since the last command was read
    open,          \* a multi-line response has been left without its terminator
    unflushed,     \* bufio.Writer holds bytes
    wbroken,       \* bufio.Writer has met a write error (it keeps it)
    \* the request stream
    net,           \* sent by the client, not yet read from the socket
    buf,           \* in the bufio.Reader
    \* the client and the clock
    peer,          \* "active", "silent" (sends no more), "stalled" (nor reads), "gone"
    absExpired,    \* AbsoluteSessionTimeout has passed since startTime
    pendingTLS,    \* netConn is a tls.Conn that has not done its handshake yet
    past,          \* the armed read deadline had passed when it was armed
    dropped,       \* the connection timer that made the server give up, or "none"
    onTimeout,     \* the argument OnTimeout was called with, or "none"
    \* teardown
    panicking,     \* a panic is unwinding the goroutine
    netClosed,     \* net.Conn.Close has been called
    cancelled      \* the connection's context has been cancelled

loopVars   == <<pc, after, call, quit>>
authVars   == <<state, username, isTLS, hijacked>>
errVars    == <<errorCount, lastErr, delay>>
outVars    == <<resp, open, unflushed, wbroken>>
inVars     == <<net, buf>>
clientVars == <<peer, absExpired, pendingTLS>>
timerVars  == <<past, dropped, onTimeout>>
lifeVars   == <<session, panicking, netClosed, cancelled>>

vars == <<opts, loopVars, authVars, errVars, closePending, outVars, inVars,
          clientVars, timerVars, lifeVars>>

------------------------------------------------------------------------------
(* Commands.  The argument of a line is the class its handler sorts it into. *)

TransOnly == {"STAT", "LIST", "UIDL", "RETR", "TOP", "DELE", "RSET", "NOOP"}

\* "none" is no argument, "ok" a valid one, "bad" one the handler refuses (a
\* message number or line count that does not parse, a control character in a
\* user name, an unsupported mechanism).  After AUTH PLAIN, "cont" has no initial
\* response, "star" is the abort, "undec" does not decode.  XTRA stands for
\* every verb the dispatcher does not know.
Commands ==
         ({"CAPA", "STLS", "QUIT", "UTF8", "STAT", "RSET", "NOOP", "LAST", "XTRA"}
            \X {"none"})
    \cup ({"PASS", "LANG"} \X {"none", "ok"})
    \cup ({"USER", "LIST", "UIDL", "RETR", "TOP", "DELE"} \X {"none", "bad", "ok"})
    \cup ({"AUTH"} \X {"none", "bad", "cont", "star", "undec", "ok"})

\* Mutant: control characters in an argument are not refused.
CommandsInAnyBytes(item) ==
    IF item = "hello" THEN {<<"USER", "ok">>} ELSE Commands

\* What an item may turn out to be when it is read as a line.
CommandsIn(item) == IF item = "hello" THEN {<<"XTRA", "none">>} ELSE Commands

AuthMethods == {"Login", "AuthenticatePlain"}
TransMethods == {"Stat", "List", "ListOne", "Uidl", "UidlOne", "Retr", "Top",
                 "Dele", "Rset", "Noop", "Quit"}
ExtMethods == {"SetLanguage", "ListLanguages", "EnableUTF8"}
Methods == AuthMethods \cup TransMethods \cup ExtMethods

------------------------------------------------------------------------------
(* Helpers of conn.go.                                                       *)

\* Mutant: authentication is allowed in the clear.
authAllowedAlways == TRUE

authAllowed == opts.InsecureAuth \/ isTLS

\* Mutant: one error too many.
maxErrorsExceededLate == opts.MaxErrors > 0 /\ errorCount > opts.MaxErrors

maxErrorsExceeded == opts.MaxErrors > 0 /\ errorCount >= opts.MaxErrors

\* The sleep of applyErrorDelay when errorCount is n.  It is interruptible and
\* finite, so it takes no step of its own.
applyErrorDelay(n) ==
    LET d == n * opts.ErrorDelay
    IN  IF opts.ErrorDelay <= 0 THEN 0
        ELSE IF opts.MaxErrorDelay > 0 /\ d > opts.MaxErrorDelay
             THEN opts.MaxErrorDelay
             ELSE d

\* Whether an idle deadline applies in the present state (first half of
\* nextReadDeadline).
idleApplies ==
    \/ opts.IdleTimeout > 0
    \/ state = "AUTHORIZATION" /\ opts.AuthIdleTimeout > 0

\* Mutant: the deadline is not capped to the absolute one.
nextReadDeadlineIdleOnly == IF idleApplies THEN {"idle"} ELSE {}

\* The timers that may fire at a blocking read; the absolute one is reported
\* whenever it has expired.
nextReadDeadline ==
    IF absExpired THEN {"absolute"} ELSE IF idleApplies THEN {"idle"} ELSE {}

\* ok and err write one complete response; clientError counts it as well.  The
\* responses to a command are counted from when it is read.
answered == IF pc = "read" THEN 0 ELSE resp
Reply == resp' = answered + 1 /\ unflushed' = TRUE
NoReply == resp' = answered /\ UNCHANGED unflushed
NoError == lastErr' = FALSE /\ delay' = 0 /\ UNCHANGED errorCount
clientError ==
    /\ errorCount' = errorCount + 1
    /\ lastErr' = TRUE
    /\ delay' = applyErrorDelay(errorCount + 1)
    /\ Reply

\* Where a step leaves the goroutine.
Goto(l) == pc' = l /\ call' = "none" /\ UNCHANGED after
FlushThen(l) == pc' = "flush" /\ after' = l /\ call' = "none"
Invoke(m) == pc' = "call" /\ call' = m /\ UNCHANGED after

\* The three ends of a handler that needs no consumer code, and its start when
\* it does.
Answer == Goto("post") /\ Reply /\ NoError /\ UNCHANGED <<closePending, quit, username>>
Refuse == Goto("post") /\ clientError /\ UNCHANGED <<closePending, quit, username>>
Enter(m) == Invoke(m) /\ NoReply /\ NoError /\ UNCHANGED <<closePending, quit, username>>

------------------------------------------------------------------------------
(* Command handlers, up to their first entry into consumer code.             *)

handleCapa == Answer

handleUser(arg) ==
    \/ (~authAllowed \/ arg # "ok") /\ Refuse
    \/ /\ authAllowed /\ arg = "ok"
       /\ username' = Head(buf)
       /\ Goto("post") /\ Reply /\ NoError
       /\ UNCHANGED <<closePending, quit>>

handlePass(arg) ==
    IF ~authAllowed \/ username = "" \/ arg = "none" THEN Refuse ELSE Enter("Login")

\* Mutant: the prompt is not flushed.
PromptContinuationUnflushed ==
    /\ Goto("cont")
    /\ resp' = answered /\ unflushed' = TRUE /\ NoError
    /\ UNCHANGED <<closePending, quit, username>>

\* Send the continuation prompt, flush it, then read (AuthContinuation).
PromptContinuation ==
    /\ FlushThen("cont")
    /\ resp' = answered /\ unflushed' = TRUE /\ NoError
    /\ UNCHANGED <<closePending, quit, username>>

\* From the point where the encoded response is known.
authPlain(encoded) ==
    \/ encoded = "star" /\ Answer
    \/ encoded = "undec" /\ Refuse
    \/ encoded = "ok" /\ Enter("AuthenticatePlain")

handleAuth(arg) ==
    \/ (~authAllowed \/ "SASL" \notin opts.SessionExt \/ arg = "bad") /\ Refuse
    \/ /\ authAllowed /\ "SASL" \in opts.SessionExt
       /\ \/ arg = "none" /\ Answer
          \/ arg = "cont" /\ PromptContinuation
          \/ authPlain(arg)

\* Mutant: reader.Buffered is not looked at.
pipelinedAfterSTLSIgnored == FALSE

\* Bytes pipelined behind STLS: the line itself is still at the head of buf.
pipelinedAfterSTLS == Len(buf) > 1

handleSTLS ==
    \/ (isTLS \/ ~opts.TLSConfig) /\ Refuse
    \/ /\ ~isTLS /\ opts.TLSConfig
       /\ pipelinedAfterSTLS
       /\ Goto("post") /\ clientError
       /\ closePending' = TRUE
       /\ UNCHANGED <<quit, username>>
    \/ /\ ~isTLS /\ opts.TLSConfig
       /\ ~pipelinedAfterSTLS
       /\ FlushThen("shake") /\ Reply /\ NoError
       /\ UNCHANGED <<closePending, quit, username>>

\* parseOptionalMsgNum and parseMsgNum, then the session.
handleList(arg) ==
    CASE arg = "none" -> Enter("List") [] arg = "ok" -> Enter("ListOne") [] OTHER -> Refuse
handleUidl(arg) ==
    CASE arg = "none" -> Enter("Uidl") [] arg = "ok" -> Enter("UidlOne") [] OTHER -> Refuse
handleRetr(arg) == IF arg = "ok" THEN Enter("Retr") ELSE Refuse
handleTop(arg)  == IF arg = "ok" THEN Enter("Top") ELSE Refuse
handleDele(arg) == IF arg = "ok" THEN Enter("Dele") ELSE Refuse
handleStat == Enter("Stat")
handleRset == Enter("Rset")
handleNoop == Enter("Noop")
handleQuit == Enter("Quit")

handleLang(arg) ==
    IF "LANG" \notin opts.SessionExt THEN Refuse
    ELSE Enter(IF arg = "none" THEN "ListLanguages" ELSE "SetLanguage")

handleUTF8 == IF "UTF8" \notin opts.SessionExt THEN Refuse ELSE Enter("EnableUTF8")

dispatchUnknown == IF opts.UnknownCommandHandler THEN Enter("Unknown") ELSE Refuse

dispatchAuth(verb, arg) ==
    \/ verb = "CAPA" /\ handleCapa
    \/ verb = "USER" /\ handleUser(arg)
    \/ verb = "PASS" /\ handlePass(arg)
    \/ verb = "AUTH" /\ handleAuth(arg)
    \/ verb = "STLS" /\ handleSTLS
    \/ /\ verb = "QUIT"
       /\ Goto("post") /\ Reply /\ NoError
       /\ quit' = TRUE
       /\ UNCHANGED <<closePending, username>>
    \/ verb = "UTF8" /\ handleUTF8
    \/ verb = "LANG" /\ handleLang(arg)
    \/ verb \in TransOnly /\ Refuse
    \/ verb = "LAST" /\ Answer
    \/ verb = "XTRA" /\ dispatchUnknown

dispatchTransaction(verb, arg) ==
    \/ verb = "CAPA" /\ handleCapa
    \/ verb = "STAT" /\ handleStat
    \/ verb = "LIST" /\ handleList(arg)
    \/ verb = "UIDL" /\ handleUidl(arg)
    \/ verb = "RETR" /\ handleRetr(arg)
    \/ verb = "TOP"  /\ handleTop(arg)
    \/ verb = "DELE" /\ handleDele(arg)
    \/ verb = "RSET" /\ handleRset
    \/ verb = "NOOP" /\ handleNoop
    \/ verb = "QUIT" /\ handleQuit
    \/ verb = "LANG" /\ handleLang(arg)
    \/ verb = "UTF8" /\ handleUTF8
    \/ verb = "LAST" /\ Answer
    \/ verb \in {"USER", "PASS", "AUTH", "STLS", "XTRA"} /\ dispatchUnknown

------------------------------------------------------------------------------
(* Reading.                                                                  *)

\* One socket read brings any number of the waiting bytes into the bufio.Reader.
\* Under TLS only TLS records are readable.
Readable(n) == ~isTLS \/ \A i \in 1..n : net[i] = "tls"

Fill ==
    /\ pc \in {"read", "cont"}
    /\ buf = <<>>
    /\ ~past
    /\ \E n \in 1..Len(net) :
          /\ Readable(n)
          /\ buf' = SubSeq(net, 1, n)
          /\ net' = SubSeq(net, n + 1, Len(net))
    /\ UNCHANGED <<opts, loopVars, authVars, errVars, closePending, outVars,
                   clientVars, timerVars, lifeVars>>

\* A read that fails for another reason than a timer: EOF or a reset, or bytes
\* that are not a TLS record.
ReadFails ==
    /\ buf = <<>>
    /\ \/ peer = "gone"
       \/ net # <<>> /\ ~Readable(1)

CommandStep ==
    /\ pc = "read"
    /\ buf # <<>>
    /\ \E cmd \in CommandsIn(Head(buf)) :
          IF state = "AUTHORIZATION"
          THEN dispatchAuth(cmd[1], cmd[2])
          ELSE dispatchTransaction(cmd[1], cmd[2])
    /\ buf' = Tail(buf)
    /\ UNCHANGED <<opts, state, isTLS, hijacked, open, wbroken, net, clientVars,
                   timerVars, lifeVars>>

\* A blank line is skipped: the loop re-arms the deadline and reads again.
BlankLine ==
    /\ pc = "read"
    /\ buf # <<>>
    /\ Head(buf) # "hello"
    /\ buf' = Tail(buf)
    /\ past' = absExpired
    /\ UNCHANGED <<opts, loopVars, authVars, errVars, closePending, outVars, net,
                   clientVars, dropped, onTimeout, lifeVars>>

\* readLine returns errLineTooLong: a courtesy response, then the loop returns.
LineTooLong ==
    /\ pc = "read"
    /\ buf # <<>>
    /\ buf' = Tail(buf)
    /\ FlushThen("teardown")
    /\ resp' = resp + 1 /\ unflushed' = TRUE
    /\ UNCHANGED <<opts, quit, authVars, errVars, closePending, open, wbroken, net,
                   clientVars, timerVars, lifeVars>>

ReadError ==
    /\ pc = "read"
    /\ ReadFails
    /\ Goto("teardown")
    /\ UNCHANGED <<opts, quit, authVars, errVars, closePending, outVars, inVars,
                   clientVars, timerVars, lifeVars>>

ReadTimeout ==
    /\ pc = "read"
    /\ buf = <<>>
    /\ dropped' \in nextReadDeadline
    /\ FlushThen("timeout")
    /\ resp' = resp + 1 /\ unflushed' = TRUE
    /\ UNCHANGED <<opts, quit, authVars, errVars, closePending, open, wbroken, inVars,
                   clientVars, past, onTimeout, lifeVars>>

AuthContinuation ==
    /\ pc = "cont"
    /\ buf # <<>>
    /\ \E encoded \in IF Head(buf) = "hello" THEN {"undec"} ELSE {"star", "undec", "ok"} :
          authPlain(encoded)
    /\ buf' = Tail(buf)
    /\ UNCHANGED <<opts, state, isTLS, hijacked, open, wbroken, net, clientVars,
                   timerVars, lifeVars>>

\* The continuation cannot be read: the connection is dropped, silently.
continuationDrop ==
    /\ Goto("post")
    /\ closePending' = TRUE
    /\ UNCHANGED <<opts, quit, authVars, errVars, outVars, net, clientVars, past,
                   onTimeout, lifeVars>>

AuthContinuationError ==
    /\ pc = "cont"
    /\ \/ buf # <<>> /\ buf' = Tail(buf)     \* line too long
       \/ ReadFails /\ UNCHANGED buf
    /\ continuationDrop
    /\ UNCHANGED dropped

\* Mutant: the continuation read runs without a deadline.
continuationUnbounded == {}

\* The timers armed for the continuation read.
continuationDeadline == nextReadDeadline

AuthContinuationTimeout ==
    /\ pc = "cont"
    /\ buf = <<>>
    /\ dropped' \in continuationDeadline
    /\ continuationDrop
    /\ UNCHANGED buf

------------------------------------------------------------------------------
(* The TLS handshake of STLS.  It reads the socket, not the bufio.Reader.    *)

\* Mutant: the user name survives the upgrade.
HandshakeKeepsUser ==
    /\ pc = "shake"
    /\ ~past
    /\ net # <<>> /\ Head(net) = "hello"
    /\ peer \in {"active", "silent"}
    /\ net' = Tail(net)
    /\ buf' = <<>>
    /\ wbroken' = FALSE /\ unflushed' = FALSE
    /\ isTLS' = TRUE
    /\ Goto("post")
    /\ UNCHANGED <<opts, quit, state, username, hijacked, errVars, closePending, resp,
                   open, clientVars, timerVars, lifeVars>>

\* Reader, writer and netConn are replaced and the plaintext USER forgotten.
Handshake ==
    /\ pc = "shake"
    /\ ~past
    /\ net # <<>> /\ Head(net) = "hello"
    /\ peer \in {"active", "silent"}
    /\ net' = Tail(net)
    /\ buf' = <<>>
    /\ wbroken' = FALSE /\ unflushed' = FALSE
    /\ isTLS' = TRUE
    /\ username' = ""
    /\ Goto("post")
    /\ UNCHANGED <<opts, quit, state, hijacked, errVars, closePending, resp, open,
                   clientVars, timerVars, lifeVars>>

handshakeDrop ==
    /\ Goto("post")
    /\ closePending' = TRUE
    /\ UNCHANGED <<opts, quit, authVars, errVars, outVars, inVars, clientVars, past,
                   onTimeout, lifeVars>>

\* Bytes that are no ClientHello, a refused one, EOF, or CommandTimeout.  That
\* AbsoluteSessionTimeout ends the context too is among the timers below.
HandshakeError ==
    /\ pc = "shake"
    /\ net # <<>> \/ peer = "gone" \/ opts.CommandTimeout > 0
    /\ handshakeDrop
    /\ UNCHANGED dropped

HandshakeTimeout ==
    /\ pc = "shake"
    /\ dropped' \in nextReadDeadline
    /\ handshakeDrop

\* Server.Close cancels the context HandshakeContext runs under.  Whether and when
\* it is called is up to the embedder, so no fairness ever counts on this step.
HandshakeCancelled ==
    /\ pc = "shake"
    /\ handshakeDrop
    /\ UNCHANGED dropped

------------------------------------------------------------------------------
(* Returns from consumer code.  e = "close" is an *Error with Close set or   *)
(* ErrCloseConnection, "err" any other error.                                *)

sessionError(e) ==
    /\ lastErr' = TRUE
    /\ Reply
    /\ closePending' = (closePending \/ e = "close")

\* What no return from a call changes.
returnFrame ==
    UNCHANGED <<opts, username, isTLS, open, wbroken, inVars, clientVars, timerVars,
                lifeVars>>

LoginSucceeds ==
    /\ pc = "call" /\ call \in AuthMethods
    /\ state' = "TRANSACTION"
    /\ Goto("post") /\ Reply
    /\ UNCHANGED <<quit, hijacked, errVars, closePending>>
    /\ returnFrame

\* Conn.Hijack flushes, so it fails on a broken writer.  The error the method
\* may then return is handled like any failed login.
LoginFails ==
    /\ pc = "call" /\ call \in AuthMethods
    /\ hijacked' \in IF wbroken THEN {FALSE} ELSE BOOLEAN
    /\ \E e \in {"err", "close"} : sessionError(e)
    /\ errorCount' = IF opts.AuthFailuresExemptFromMaxErrors THEN errorCount
                                                             ELSE errorCount + 1
    /\ delay' = applyErrorDelay(errorCount')
    /\ Goto("post")
    /\ UNCHANGED <<quit, state>>
    /\ returnFrame

LoginHijacks ==
    /\ pc = "call" /\ call \in AuthMethods
    /\ ~wbroken
    /\ hijacked' = TRUE
    /\ Goto("post")
    /\ UNCHANGED <<quit, state, errVars, closePending, resp, unflushed>>
    /\ returnFrame

\* Mutant: dispatch goes on after QUIT.
MethodSucceedsQuitGoesOn ==
    /\ pc = "call" /\ call \in Methods \ (AuthMethods \cup {"Retr", "Top"})
    /\ Goto("post") /\ Reply
    /\ UNCHANGED <<quit, state, hijacked, errVars, closePending>>
    /\ returnFrame

\* Any other method returns nil: one complete response.
MethodSucceeds ==
    /\ pc = "call" /\ call \in Methods \ (AuthMethods \cup {"Retr", "Top"})
    /\ quit' = (call = "Quit")
    /\ Goto("post") /\ Reply
    /\ UNCHANGED <<state, hijacked, errVars, closePending>>
    /\ returnFrame

\* An error, or not exactly one item for a single-message LIST or UIDL.
MethodFails ==
    /\ pc = "call" /\ call \in Methods \ AuthMethods
    /\ \E e \in {"err", "close"} : sessionError(e)
    /\ quit' = (call = "Quit")
    /\ Goto("post")
    /\ UNCHANGED <<state, hijacked, errorCount, delay>>
    /\ returnFrame

\* Retr and Top return a body: the status line is written and flushed first.
BodyReturned ==
    /\ pc = "call" /\ call \in {"Retr", "Top"}
    /\ pc' = "flush" /\ after' = "stream" /\ call' = "Body"
    /\ unflushed' = TRUE
    /\ UNCHANGED <<quit, state, hijacked, errVars, closePending, resp>>
    /\ returnFrame

\* io.Copy through the dotStuffWriter, then the terminator and body.Close.
StreamDone ==
    /\ pc = "stream"
    /\ Goto("post") /\ Reply
    /\ UNCHANGED <<quit, state, hijacked, errVars, closePending>>
    /\ returnFrame

\* Mutant: the loop goes on after a broken body.
StreamFailsGoesOn ==
    /\ pc = "stream"
    /\ open' = TRUE
    /\ lastErr' = TRUE
    /\ unflushed' \in {unflushed, TRUE}
    /\ Goto("post")
    /\ UNCHANGED <<opts, quit, authVars, errorCount, delay, closePending, resp, wbroken,
                   inVars, clientVars, timerVars, lifeVars>>

\* The body cannot be read or the response not be written to the end.
StreamFails ==
    /\ pc = "stream"
    /\ open' = TRUE
    /\ lastErr' = TRUE
    /\ closePending' = TRUE
    /\ unflushed' \in {unflushed, TRUE}
    /\ Goto("post")
    /\ UNCHANGED <<opts, quit, authVars, errorCount, delay, resp, wbroken, inVars,
                   clientVars, timerVars, lifeVars>>

\* UnknownCommandHandler handled the command with a response of its own.
UnknownHandled ==
    /\ pc = "call" /\ call = "Unknown"
    /\ quit' \in BOOLEAN
    /\ Goto("post") /\ Reply
    /\ UNCHANGED <<state, hijacked, errVars, closePending>>
    /\ returnFrame

UnknownDeclined ==
    /\ pc = "call" /\ call = "Unknown"
    /\ Goto("post") /\ clientError
    /\ UNCHANGED <<quit, state, hijacked, closePending>>
    /\ returnFrame

------------------------------------------------------------------------------
(* The rest of the loop.                                                     *)

\* serve after dispatch: a hijacked connection is left alone; otherwise closure
\* is decided (closePending, then MaxErrors) and the response flushed.
tooManyErrors == ~quit /\ ~closePending /\ maxErrorsExceeded

\* Mutant: serve does not look at hijacked.
PostIgnoresHijack ==
    /\ pc = "post"
    /\ quit' = (quit \/ closePending \/ tooManyErrors)
    /\ IF tooManyErrors
       THEN resp' = resp + 1 /\ unflushed' = TRUE
       ELSE UNCHANGED <<resp, unflushed>>
    /\ FlushThen(IF quit' THEN "teardown" ELSE "read")
    /\ UNCHANGED <<opts, authVars, errVars, closePending, open, wbroken, inVars,
                   clientVars, timerVars, lifeVars>>

Post ==
    /\ pc = "post"
    /\ IF hijacked
       THEN Goto("teardown") /\ UNCHANGED <<quit, resp, unflushed>>
       ELSE /\ quit' = (quit \/ closePending \/ tooManyErrors)
            /\ IF tooManyErrors
               THEN resp' = resp + 1 /\ unflushed' = TRUE
               ELSE UNCHANGED <<resp, unflushed>>
            /\ FlushThen(IF quit' THEN "teardown" ELSE "read")
    /\ UNCHANGED <<opts, authVars, errVars, closePending, open, wbroken, inVars,
                   clientVars, timerVars, lifeVars>>

\* The first write on an implicit-TLS connection is a handshake first: tls.Conn
\* reads the client's part of it inside Write, where only a write deadline is
\* armed.  It ends with that part, with bytes that are none or are refused, or
\* with the connection; a client that sends nothing holds it for ever.
lazyHandshakeFails ==
    \/ peer = "gone"
    \/ net # <<>> /\ (Head(net) # "hello" \/ peer # "stalled")

\* writer.Flush: nothing to write, written, or an error that stays.  A stalled
\* client holds it until WriteTimeout, for ever without one.
flushSucceeds == ~wbroken /\ ~pendingTLS /\ (~unflushed \/ peer # "stalled")
flushFails ==
    \/ wbroken
    \/ pendingTLS /\ lazyHandshakeFails
    \/ /\ ~pendingTLS /\ unflushed
       /\ peer = "gone" \/ (peer = "stalled" /\ opts.WriteTimeout > 0)

\* The greeting, or the banner of a rejection, brings the handshake about.
LazyHandshake ==
    /\ pc = "flush" /\ pendingTLS
    /\ net # <<>> /\ Head(net) = "hello"
    /\ peer \in {"active", "silent"}
    /\ net' = Tail(net)
    /\ pendingTLS' = FALSE
    /\ UNCHANGED <<opts, loopVars, authVars, errVars, closePending, outVars, buf, peer,
                   absExpired, timerVars, lifeVars>>

\* Mutant: a notice the client did not take is not reported either.
flushReturnsUnreported(failed) ==
    /\ pc' = CASE after = "read" /\ failed           -> "teardown"
               [] after \in {"timeout", "teardown"}  -> "teardown"
               [] after = "reject"                   -> "done"
               [] OTHER                              -> after
    /\ onTimeout' = IF after = "timeout" /\ ~failed THEN dropped ELSE onTimeout
    /\ past' = absExpired
    /\ netClosed' = (netClosed \/ after = "reject")
    /\ cancelled' = (cancelled \/ after = "reject")
    /\ UNCHANGED <<opts, after, call, quit, authVars, errVars, closePending, resp, open,
                   inVars, clientVars, dropped, session, panicking>>

\* Only the flush before the next command looks at the error.
flushReturns(failed) ==
    /\ pc' = CASE after = "read" /\ failed           -> "teardown"
               [] after \in {"timeout", "teardown"}  -> "teardown"
               [] after = "reject"                   -> "done"
               [] OTHER                              -> after
    /\ onTimeout' = IF after = "timeout" THEN dropped ELSE onTimeout
    /\ past' = absExpired
    /\ netClosed' = (netClosed \/ after = "reject")
    /\ cancelled' = (cancelled \/ after = "reject")
    /\ UNCHANGED <<opts, after, call, quit, authVars, errVars, closePending, resp, open,
                   inVars, clientVars, dropped, session, panicking>>

FlushOK ==
    /\ pc = "flush" /\ flushSucceeds
    /\ unflushed' = FALSE
    /\ UNCHANGED wbroken
    /\ flushReturns(FALSE)

FlushError ==
    /\ pc = "flush" /\ flushFails
    /\ wbroken' = TRUE
    /\ UNCHANGED unflushed
    /\ flushReturns(TRUE)

------------------------------------------------------------------------------
(* Start and end of the connection.                                          *)

NewSessionOK ==
    /\ pc = "new"
    /\ session' = TRUE
    /\ FlushThen("read") /\ Reply            \* the greeting
    /\ UNCHANGED <<opts, quit, authVars, errVars, closePending, open, wbroken, inVars,
                   clientVars, timerVars, panicking, netClosed, cancelled>>

\* An error from NewSession: a banner first, unless it is ErrSilentReject.
NewSessionRejects ==
    /\ pc = "new"
    /\ \/ FlushThen("reject") /\ Reply /\ UNCHANGED <<netClosed, cancelled>>
       \/ /\ Goto("done")
          /\ netClosed' = TRUE /\ cancelled' = TRUE
          /\ UNCHANGED <<resp, unflushed>>
    /\ UNCHANGED <<opts, quit, authVars, errVars, closePending, open, wbroken, inVars,
                   clientVars, timerVars, session, panicking>>

\* A panic in consumer code: NewSession, a Session method, a body, OnTimeout, or
\* (at "post") OnCommand and AuthenticateMechanisms.  Before serve there is nothing deferred but recoverConn; from serve
\* on the deferred close comes first.  Login may have hijacked the connection
\* before it panics.
Panic ==
    /\ Panics
    /\ \/ pc \in {"new", "call", "stream", "post"}
       \/ pc = "teardown" /\ onTimeout # "none" /\ ~panicking
    /\ panicking' = TRUE
    /\ hijacked' \in IF pc = "call" /\ call \in AuthMethods /\ ~wbroken
                     THEN BOOLEAN ELSE {hijacked}
    /\ Goto(IF pc = "new" THEN "recover" ELSE "teardown")
    /\ UNCHANGED <<opts, quit, state, username, isTLS, errVars, closePending, outVars,
                   inVars, clientVars, timerVars, session, netClosed, cancelled>>

\* Conn.close, the first deferred call of serve.
CallClose ==
    /\ pc = "teardown"
    /\ pc' = "closing" /\ call' = "Close"
    /\ UNCHANGED <<opts, after, quit, authVars, errVars, closePending, outVars, inVars,
                   clientVars, timerVars, lifeVars>>

\* Session.Close returns or panics; a hijacked net.Conn is left open by close.
\* The deferred cancel runs in both cases, then recoverConn if there is a panic.
CloseReturns ==
    /\ pc = "closing"
    /\ \/ /\ panicking' = panicking
          /\ netClosed' = ~hijacked
       \/ /\ Panics
          /\ panicking' = TRUE
          /\ UNCHANGED netClosed
    /\ cancelled' = TRUE
    /\ Goto(IF panicking' THEN "recover" ELSE "done")
    /\ UNCHANGED <<opts, quit, authVars, errVars, closePending, outVars, inVars,
                   clientVars, timerVars, session>>

\* Mutant: recoverConn only recovers.
recoverConnLeaks ==
    /\ pc = "recover"
    /\ Goto("done")
    /\ UNCHANGED <<opts, quit, authVars, errVars, closePending, outVars, inVars,
                   clientVars, timerVars, session, panicking, netClosed, cancelled>>

recoverConn ==
    /\ pc = "recover"
    /\ netClosed' = TRUE
    /\ Goto("done")
    /\ UNCHANGED <<opts, quit, authVars, errVars, closePending, outVars, inVars,
                   clientVars, timerVars, session, panicking, cancelled>>

------------------------------------------------------------------------------
(* The client and the clock.                                                 *)

ClientSend ==
    /\ peer = "active"
    /\ Len(net) < MaxInFlight
    /\ errorCount < ErrorBound
    /\ \E item \in IF isTLS /\ ~pendingTLS THEN {"tls"} ELSE {"plain", "hello"} :
          net' = Append(net, item)
    /\ UNCHANGED <<opts, loopVars, authVars, errVars, closePending, outVars, buf,
                   clientVars, timerVars, lifeVars>>

\* The client falls silent, stops reading as well, or goes away.
ClientFades ==
    /\ \/ peer = "active" /\ peer' \in {"silent", "stalled", "gone"}
       \/ peer \in {"silent", "stalled"} /\ peer' = "gone"
    /\ UNCHANGED <<opts, loopVars, authVars, errVars, closePending, outVars, inVars,
                   absExpired, pendingTLS, timerVars, lifeVars>>

AbsoluteTimerExpires ==
    /\ opts.AbsoluteSessionTimeout > 0
    /\ ~absExpired
    /\ absExpired' = TRUE
    /\ UNCHANGED <<opts, loopVars, authVars, errVars, closePending, outVars, inVars,
                   peer, pendingTLS, timerVars, lifeVars>>

------------------------------------------------------------------------------

\* isTLS is what isTLSConn finds, or what NewSession sets with Conn.SetTLS.  The
\* handshake is still to come on a connection of ListenAndServeTLS; a wrapper of
\* the listener may have done it, and a TLS proxy in front leaves none to do.
Init ==
    /\ opts \in {defaults(o) : o \in UserOptions}
    /\ pc = "new" /\ after = "read" /\ call = "none" /\ quit = FALSE
    /\ session = FALSE
    /\ state = "AUTHORIZATION" /\ username = "" /\ errorCount = 0
    /\ isTLS \in BOOLEAN
    /\ hijacked = FALSE /\ closePending = FALSE /\ lastErr = FALSE /\ delay = 0
    /\ resp = 0 /\ open = FALSE /\ unflushed = FALSE /\ wbroken = FALSE
    /\ net = <<>> /\ buf = <<>>
    /\ peer = "active" /\ absExpired = FALSE
    /\ pendingTLS \in BOOLEAN /\ (pendingTLS => isTLS)
    /\ past = FALSE /\ dropped = "none" /\ onTimeout = "none"
    /\ panicking = FALSE /\ netClosed = FALSE /\ cancelled = FALSE

Start == NewSessionOK \/ NewSessionRejects

Reading ==
    \/ Fill \/ CommandStep \/ BlankLine \/ LineTooLong \/ ReadError \/ ReadTimeout
    \/ AuthContinuation \/ AuthContinuationError \/ AuthContinuationTimeout
    \/ Handshake \/ HandshakeError \/ HandshakeTimeout

Returning ==
    \/ LoginSucceeds \/ LoginFails \/ LoginHijacks \/ MethodSucceeds \/ MethodFails
    \/ BodyReturned \/ StreamDone \/ StreamFails \/ UnknownHandled \/ UnknownDeclined

Ending == Panic \/ CallClose \/ CloseReturns \/ recoverConn

\* The steps of the connection's goroutine, consumer code included.
Goroutine ==
    \/ Start \/ Reading \/ Returning \/ Post
    \/ LazyHandshake \/ FlushOK \/ FlushError \/ Ending

Environment == ClientSend \/ ClientFades \/ AbsoluteTimerExpires

\* The goroutine has ended and what the client does is of no interest.
Terminated == pc = "done" /\ UNCHANGED vars

Next == Goroutine \/ HandshakeCancelled \/ (pc # "done" /\ Environment) \/ Terminated

Spec == Init /\ [][Next]_vars

\* Go runs a runnable goroutine, a deadline that is armed fires, and consumer
\* code returns.  Nothing is assumed of the client.
FairSpec == Spec /\ WF_vars(Goroutine)
------------------------------------------------------------------------------
(* Properties.                                                               *)

Places == {"new", "flush", "read", "call", "stream", "cont", "shake", "post",
           "teardown", "closing", "recover", "done"}
Targets == {"read", "cont", "shake", "stream", "teardown", "timeout", "reject"}
Calls == Methods \cup {"none", "Unknown", "Body", "Close"}
States == {"AUTHORIZATION", "TRANSACTION"}
Usernames == {"", "plain", "tls"}
Peers == {"active", "silent", "stalled", "gone"}
Timers == {"none", "idle", "absolute"}
Items == {"plain", "tls", "hello"}

ControlType ==
    /\ pc \in Places /\ after \in Targets /\ call \in Calls
    /\ state \in States /\ username \in Usernames
    /\ peer \in Peers /\ dropped \in Timers /\ onTimeout \in Timers

FlagType ==
    /\ quit \in BOOLEAN /\ session \in BOOLEAN /\ isTLS \in BOOLEAN
    /\ hijacked \in BOOLEAN /\ closePending \in BOOLEAN /\ lastErr \in BOOLEAN
    /\ open \in BOOLEAN /\ unflushed \in BOOLEAN /\ wbroken \in BOOLEAN
    /\ absExpired \in BOOLEAN /\ pendingTLS \in BOOLEAN /\ past \in BOOLEAN
    /\ panicking \in BOOLEAN /\ netClosed \in BOOLEAN /\ cancelled \in BOOLEAN

DataType ==
    /\ opts \in OptionsType
    /\ errorCount \in Nat /\ delay \in Int /\ resp \in Nat
    /\ net \in Seq(Items) /\ buf \in Seq(Items)

(* Every variable of the connection keeps its type.                          *)
TypeOK == ControlType /\ FlagType /\ DataType

\* The goroutine is in the command loop and will block for the client or return
\* to the loop: at l, or in the flush that l follows.
At(l) == pc = l \/ (pc = "flush" /\ after = l)
Looping == pc = "call" \/ \E l \in {"read", "cont", "shake", "stream"} : At(l)

\* Where the goroutine is determines the consumer method it is in.
CallOK ==
    /\ pc = "call" => call \in Methods \cup {"Unknown"}
    /\ pc = "closing" => call = "Close"
    /\ At("stream") => call = "Body"
    /\ pc \notin {"call", "closing"} /\ ~At("stream") => call = "none"

\* A connection that is in the loop has a session and no reason to leave it.
LoopOK ==
    /\ Looping => /\ session /\ ~quit /\ ~closePending /\ ~hijacked /\ ~open
                  /\ ~panicking /\ ~netClosed /\ ~cancelled
    /\ pc = "new" => /\ ~session /\ ~quit /\ ~closePending /\ ~hijacked /\ ~open
                     /\ ~panicking /\ ~netClosed /\ ~cancelled
    /\ At("reject") => ~session
    /\ pc \in {"post", "closing"} \/ At("timeout") \/ At("teardown") => session
    /\ pc = "post" => ~panicking /\ ~netClosed /\ ~cancelled
    /\ hijacked => pc \in {"post", "teardown", "closing", "recover", "done"}

\* How many complete responses have been written, by place.
ResponseOK ==
    /\ pc \in {"new", "call"} \/ At("cont") \/ At("stream") => resp = 0
    /\ At("read") \/ At("shake") => resp = 1
    /\ pc = "post" /\ ~hijacked /\ ~closePending => resp = 1
    /\ open => /\ resp = 0 /\ closePending
               /\ \/ pc \in {"post", "teardown", "closing", "recover", "done"}
                  \/ At("teardown")

\* The error count never passes the limit and is below it in the loop.
ErrorsOK ==
    opts.MaxErrors > 0 =>
        /\ errorCount <= opts.MaxErrors
        /\ Looping \/ pc = "new" => errorCount < opts.MaxErrors

\* Which methods may be in progress in which state.
AuthOK ==
    /\ state = "TRANSACTION" \/ call \in AuthMethods \/ At("cont") => opts.InsecureAuth \/ isTLS
    /\ pc = "new" \/ call \in AuthMethods \/ At("cont") \/ At("shake")
         => state = "AUTHORIZATION"
    /\ call \in TransMethods \cup {"Body"} => state = "TRANSACTION"
    /\ At("shake") => ~isTLS /\ buf = <<>>

\* How the client's input was sent: under TLS exactly if the connection is on it.
InputOK ==
    /\ \A i \in 1..Len(buf) : (buf[i] = "tls") <=> isTLS
    /\ ~isTLS => \A i \in 1..Len(net) : net[i] # "tls"

UserOK ==
    /\ call = "Login" => username # ""
    /\ username = "plain" => ~isTLS
    /\ username = "tls" => isTLS

(* The inductive invariant of the connection: what dispatch, its handlers and *)
(* the loop keep true of each other at every step.  The safety properties    *)
(* below follow from it.                                                     *)
ConnInv == CallOK /\ LoopOK /\ ResponseOK /\ ErrorsOK /\ AuthOK /\ InputOK /\ UserOK

\* Until its handshake an implicit-TLS connection is in the greeting, in the banner
\* of a rejection, or on its way out.
ShakenOK ==
    pendingTLS => /\ state = "AUTHORIZATION"
                  /\ \/ pc \in {"new", "teardown", "closing", "recover", "done"}
                     \/ pc = "flush" /\ after \in {"read", "reject"}

\* Once a RETR or TOP body broke off (handleRetr, handleTop) nothing more is
\* written, not even the "Too many errors" notice, and no further command read.
NothingAfterBrokenBody ==
    open => resp = 0 /\ pc \in {"post", "flush", "teardown", "closing", "recover", "done"}

(* When the loop waits for the next command it has written exactly one       *)
(* complete response to the previous one (the greeting counts as the first), *)
(* so a pipelining client never loses step: no handler answers twice, not    *)
(* at all, or with half a multi-line response; and after a body that broke   *)
(* off, where the client would take anything for message text, nothing.      *)
OneResponsePerCommand == (pc = "read" => resp = 1) /\ NothingAfterBrokenBody

(* The server never waits for the client while the client's answer is still  *)
(* in the bufio.Writer: before every blocking read (next command, AUTH       *)
(* continuation, TLS handshake) the buffer is empty or beyond flushing.      *)
FlushedBeforeBlocking == pc \in {"read", "cont", "shake"} => ~unflushed \/ wbroken

(* No path bypasses MaxErrors (serve's central check): the count never goes  *)
(* past the limit and no command is read once the limit is reached.          *)
MaxErrorsEnforced ==
    opts.MaxErrors > 0 =>
        /\ errorCount <= opts.MaxErrors
        /\ pc \in {"read", "call", "cont", "shake", "stream"} => errorCount < opts.MaxErrors

(* Once the connection is on TLS, nothing the client sent in the clear can   *)
(* still act: no plaintext line is waiting in the reader and no user name    *)
(* given before the upgrade is remembered (handleSTLS, RFC 2595).            *)
NoPlaintextUnderTLS ==
    isTLS => username # "plain" /\ \A i \in 1..Len(buf) : buf[i] = "tls"

(* Credentials reach the Session, and the TRANSACTION state is entered, only *)
(* on TLS with its handshake done or with InsecureAuth, with a user name     *)
(* sent the same way.                                                        *)
CredentialsProtected ==
    /\ call \in AuthMethods \/ state = "TRANSACTION"
         => opts.InsecureAuth \/ (isTLS /\ ~pendingTLS)
    /\ call = "Login" => username = (IF isTLS THEN "tls" ELSE "plain")

(* When the goroutine has ended, also by a rejection, a panic, or a panic of *)
(* Session.Close itself, the socket is closed unless a hijacker owns it, one *)
(* a hijacker owns is open unless there was a panic, and Conn.Context is     *)
(* cancelled unless NewSession itself panicked.                              *)
ConnReleased ==
    pc = "done" => /\ netClosed \/ hijacked
                   /\ hijacked /\ ~panicking => ~netClosed
                   /\ session \/ ~panicking => cancelled

(* handleSTLS swaps the bufio.Reader for a new one: no byte is in the old    *)
(* one at that moment, so no client input is lost.                           *)
UpgradeLosesNothing == [][isTLS' # isTLS => buf = <<>>]_vars

(* After Conn.Hijack the stream is the hijacker's: the library takes no byte *)
(* out of the reader it handed over, writes nothing that is still buffered,  *)
(* and does not return to the command loop.                                  *)
HijackHandsOver ==
    [][hijacked => buf' = buf /\ unflushed' = unflushed /\ pc' # "read"]_vars

\* The Session's view of the connection.
sessionEnded ==
    \/ quit \/ closePending \/ hijacked \/ panicking \/ pc = "teardown"
    \/ pc = "flush" /\ after \in {"teardown", "timeout"}

sessionPhase ==
    IF ~session THEN "none"
    ELSE IF pc \in {"closing", "recover", "done"} THEN "closed"
    ELSE IF sessionEnded THEN "ended"
    ELSE IF state = "TRANSACTION" THEN "trans" ELSE "auth"

\* The UnknownCommandHandler is no method of the Session.
sessionBusy == IF call = "Unknown" THEN "none" ELSE call

Contract == INSTANCE SessionContract WITH phase <- sessionPhase, busy <- sessionBusy

(* The command loop implements what SessionContract promises to a Session:   *)
(* methods in their state only, one at a time, Quit last but for Close, the  *)
(* body closed before the next call, Close exactly once whatever happened.   *)
ImplementsSessionContract == Contract!ContractSpec

(* A client that falls silent, stalls or disappears is eventually let go, at *)
(* whatever point it does so, if IdleTimeout and WriteTimeout are on (both   *)
(* are by default): command read, AUTH continuation, TLS handshake of STLS,  *)
(* flush.  The handshake of implicit TLS, inside the greeting's flush, is    *)
(* the exception: there only a client that is gone is let go.                *)
AbandonedConnEnds ==
    (/\ opts.IdleTimeout > 0 /\ opts.WriteTimeout > 0
     /\ peer = "gone" \/ (peer # "active" /\ ~pendingTLS)) ~> (pc = "done")

(* AbsoluteSessionTimeout ends a session whose handshake is done whatever    *)
(* the client does, even one that keeps sending commands and with the idle   *)
(* timer off.                                                                *)
AbsoluteTimeoutEnds ==
    (absExpired /\ opts.WriteTimeout > 0 /\ ~pendingTLS) ~> (pc = "done")

(* What Options.AbsoluteSessionTimeout says: no connection is held longer.   *)
(* The read deadline that enforces it is first armed after the greeting, so  *)
(* a client of ListenAndServeTLS that sends no ClientHello is held for ever. *)
NoConnHeldForEver == (absExpired /\ opts.WriteTimeout > 0) ~> (pc = "done")

(* A report of Options.OnTimeout names the timer that ended the connection,  *)
(* and one that expired in the loop's own read is reported whether or not    *)
(* the client took the notice that precedes it.  Only the reads inside AUTH  *)
(* and STLS, which ask for the close themselves, may leave it out.           *)
LoopTimeoutReported ==
    pc = "done" => /\ onTimeout # "none" => onTimeout = dropped
                   /\ dropped # "none" /\ ~closePending => onTimeout = dropped

(* What Options.OnTimeout says: it is called for every connection-level      *)
(* timer that made the server disconnect a client.                           *)
TimeoutReported == pc = "done" => onTimeout = dropped
=============================================================================
