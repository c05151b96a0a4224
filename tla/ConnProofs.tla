----------------------------- MODULE ConnProofs -----------------------------
(***************************************************************************)
(* Proofs about module Conn, for every set of options, any number of bytes *)
(* in flight and with or without panics in consumer code.                  *)
(***************************************************************************)
EXTENDS Conn, TLAPS

\* The ends of a command handler, up to its first entry into consumer code.
MayEnter(m) ==
    \/ m \in AuthMethods /\ state = "AUTHORIZATION" /\ authAllowed
         /\ (m = "Login" => username # "")
    \/ m \in TransMethods /\ state = "TRANSACTION"
    \/ m \in ExtMethods \cup {"Unknown"}

Entered == \E m \in Methods \cup {"Unknown"} : MayEnter(m) /\ Enter(m)

UserTaken ==
    /\ Head(buf) # "hello"
    /\ username' = Head(buf)
    /\ Goto("post") /\ Reply /\ NoError
    /\ UNCHANGED <<closePending, quit>>

Prompted == state = "AUTHORIZATION" /\ authAllowed /\ PromptContinuation

StlsRefused ==
    /\ Goto("post") /\ clientError
    /\ closePending' = TRUE
    /\ UNCHANGED <<quit, username>>

StlsStarted ==
    /\ state = "AUTHORIZATION" /\ ~isTLS /\ ~pipelinedAfterSTLS
    /\ FlushThen("shake") /\ Reply /\ NoError
    /\ UNCHANGED <<closePending, quit, username>>

QuitGranted ==
    /\ Goto("post") /\ Reply /\ NoError
    /\ quit' = TRUE
    /\ UNCHANGED <<closePending, username>>

Outcome ==
    \/ Answer \/ Refuse \/ Entered \/ UserTaken \/ Prompted
    \/ StlsRefused \/ StlsStarted \/ QuitGranted

\* A line is taken from the reader, as a command or as a SASL response.
LineTaken ==
    /\ pc \in {"read", "cont"}
    /\ buf # <<>>
    /\ buf' = Tail(buf)
    /\ UNCHANGED <<opts, state, isTLS, hijacked, open, wbroken, net, clientVars,
                   timerVars, lifeVars>>

\* Whatever the verb, dispatch ends in one of the outcomes above.
LEMMA CommandOutcome ==
    ASSUME state \in States, CommandStep
    PROVE  LineTaken /\ Outcome
<1>1. LineTaken
  BY DEF CommandStep, LineTaken
<1> SUFFICES Outcome
  BY <1>1
<1>2. PICK cmd \in CommandsIn(Head(buf)) :
         IF state = "AUTHORIZATION"
         THEN dispatchAuth(cmd[1], cmd[2])
         ELSE dispatchTransaction(cmd[1], cmd[2])
  BY DEF CommandStep
<1> DEFINE verb == cmd[1]
           arg == cmd[2]
<1>3. Head(buf) = "hello" => verb = "XTRA"
  BY <1>2 DEF CommandsIn
<1>4. CASE state = "AUTHORIZATION"
  <2>1. dispatchAuth(verb, arg)
    BY <1>2, <1>4
  <2>2. CASE verb = "CAPA" /\ handleCapa
    BY <2>2 DEF handleCapa, Outcome
  <2>3. CASE verb = "USER" /\ handleUser(arg)
    BY <2>3, <1>3 DEF handleUser, Outcome, UserTaken
  <2>4. CASE verb = "PASS" /\ handlePass(arg)
    BY <2>4, <1>4 DEF handlePass, Outcome, Entered, MayEnter, Methods, AuthMethods
  <2>5. CASE verb = "AUTH" /\ handleAuth(arg)
    BY <2>5, <1>4 DEF handleAuth, authPlain, Outcome, Prompted, Entered, MayEnter,
                      Methods, AuthMethods
  <2>6. CASE verb = "STLS" /\ handleSTLS
    BY <2>6, <1>4 DEF handleSTLS, Outcome, StlsRefused, StlsStarted
  <2>7. CASE verb = "UTF8" /\ handleUTF8
    BY <2>7 DEF handleUTF8, Outcome, Entered, MayEnter, Methods, ExtMethods
  <2>8. CASE verb = "LANG" /\ handleLang(arg)
    BY <2>8 DEF handleLang, Outcome, Entered, MayEnter, Methods, ExtMethods
  <2>9. CASE verb = "XTRA" /\ dispatchUnknown
    BY <2>9 DEF dispatchUnknown, Outcome, Entered, MayEnter
  <2> QED
    BY <2>1, <2>2, <2>3, <2>4, <2>5, <2>6, <2>7, <2>8, <2>9
       DEF dispatchAuth, Outcome, QuitGranted
<1>5. CASE state = "TRANSACTION"
  <2>1. dispatchTransaction(verb, arg)
    BY <1>2, <1>5
  <2>2. ASSUME NEW m \in TransMethods, Enter(m)
        PROVE  Outcome
    BY <2>2, <1>5 DEF Outcome, Entered, MayEnter, Methods
  <2>3. CASE \/ verb = "STAT" /\ handleStat
             \/ verb = "RSET" /\ handleRset
             \/ verb = "NOOP" /\ handleNoop
             \/ verb = "QUIT" /\ handleQuit
    BY <2>2, <2>3 DEF handleStat, handleRset, handleNoop, handleQuit, TransMethods
  <2>4. CASE \/ verb = "LIST" /\ handleList(arg)
             \/ verb = "UIDL" /\ handleUidl(arg)
    BY <2>2, <2>4 DEF handleList, handleUidl, TransMethods, Outcome
  <2>5. CASE \/ verb = "RETR" /\ handleRetr(arg)
             \/ verb = "TOP"  /\ handleTop(arg)
             \/ verb = "DELE" /\ handleDele(arg)
    BY <2>2, <2>5 DEF handleRetr, handleTop, handleDele, TransMethods, Outcome
  <2>6. CASE verb = "LANG" /\ handleLang(arg)
    BY <2>6 DEF handleLang, Outcome, Entered, MayEnter, Methods, ExtMethods
  <2>7. CASE verb = "UTF8" /\ handleUTF8
    BY <2>7 DEF handleUTF8, Outcome, Entered, MayEnter, Methods, ExtMethods
  <2>8. CASE dispatchUnknown
    BY <2>8 DEF dispatchUnknown, Outcome, Entered, MayEnter
  <2> QED
    BY <2>1, <2>3, <2>4, <2>5, <2>6, <2>7, <2>8
       DEF dispatchTransaction, handleCapa, Outcome
<1> QED
  BY <1>4, <1>5 DEF States

\* So does the AUTH exchange once its continuation line is read.
LEMMA ContinuationOutcome ==
    ASSUME AuthOK, AuthContinuation
    PROVE  LineTaken /\ Outcome
<1>1. LineTaken
  BY DEF AuthContinuation, LineTaken
<1>2. state = "AUTHORIZATION" /\ authAllowed
  BY DEF AuthContinuation, AuthOK, At, authAllowed
<1>3. PICK encoded : authPlain(encoded)
  BY DEF AuthContinuation
<1> QED
  BY <1>1, <1>2, <1>3 DEF authPlain, Outcome, Entered, MayEnter, Methods, AuthMethods
\* Where a flush leads, whether it succeeds or not.
LEMMA FlushLands ==
    ASSUME after \in Targets, FlushOK \/ FlushError
    PROVE  /\ pc = "flush"
           /\ \/ after \in {"read", "cont", "shake", "stream"} /\ pc' = after
              \/ after \in {"read", "timeout", "teardown"} /\ pc' = "teardown"
              \/ after = "reject" /\ pc' = "done"
BY DEF FlushOK, FlushError, flushReturns, Targets

\* What a flush leaves alone.
LEMMA FlushFrame ==
    ASSUME FlagType, FlushOK \/ FlushError
    PROVE  /\ UNCHANGED <<opts, after, call, quit, authVars, errVars, closePending, resp,
                          open, inVars, clientVars, dropped, session, panicking>>
           /\ after # "reject" => netClosed' = netClosed /\ cancelled' = cancelled
BY DEF FlushOK, FlushError, flushReturns, FlagType

------------------------------------------------------------------------------
(* Types.                                                                    *)

\* The back-off is a number whatever the options are.
LEMMA DelayType ==
    ASSUME opts \in OptionsType, NEW n \in Nat
    PROVE  applyErrorDelay(n) \in Int
BY DEF OptionsType, applyErrorDelay

\* Taking a line leaves most flags alone.
LEMMA LineFlags ==
    ASSUME FlagType, LineTaken,
           (quit \in BOOLEAN /\ closePending \in BOOLEAN
              /\ lastErr \in BOOLEAN /\ unflushed \in BOOLEAN)'
    PROVE  FlagType'
<1> USE DEF outVars, clientVars, timerVars, lifeVars
<1>1. (isTLS \in BOOLEAN /\ hijacked \in BOOLEAN /\ open \in BOOLEAN /\ wbroken \in BOOLEAN
         /\ absExpired \in BOOLEAN /\ pendingTLS \in BOOLEAN /\ past \in BOOLEAN)'
  BY DEF LineTaken, FlagType
<1>2. (session \in BOOLEAN /\ panicking \in BOOLEAN /\ netClosed \in BOOLEAN
         /\ cancelled \in BOOLEAN)'
  BY DEF LineTaken, FlagType
<1> QED
  BY <1>1, <1>2 DEF FlagType

\* Every step keeps the types.
LEMMA TypeStep ==
    ASSUME TypeOK, ConnInv, [Next]_vars
    PROVE  TypeOK'
<1> USE DEF loopVars, authVars, errVars, outVars, inVars, clientVars, timerVars,
          lifeVars, Goto, FlushThen, answered, Reply, NoReply, NoError, clientError, sessionError,
          returnFrame
<1>1. CASE CommandStep \/ AuthContinuation
  <2>1. LineTaken /\ Outcome
    BY <1>1, CommandOutcome, ContinuationOutcome DEF TypeOK, ControlType, ConnInv
  <2>2. CASE Answer
    <3>1. ControlType' /\ DataType'
      BY <2>1, <2>2 DEF LineTaken, Answer, TypeOK, ControlType, DataType, Places, Calls
    <3>2. FlagType'
      BY <2>1, <2>2, LineFlags DEF Answer, TypeOK, FlagType
    <3> QED
      BY <3>1, <3>2 DEF TypeOK
  <2>3. CASE Refuse
    <3>1. ControlType' /\ DataType'
      BY <2>1, <2>3, DelayType DEF LineTaken, Refuse, TypeOK, ControlType, DataType,
         Places, Calls
    <3>2. FlagType'
      BY <2>1, <2>3, LineFlags DEF Refuse, TypeOK, FlagType
    <3> QED
      BY <3>1, <3>2 DEF TypeOK
  <2>4. CASE Entered
    <3>1. PICK m \in Methods \cup {"Unknown"} : Enter(m)
      BY <2>4 DEF Entered
    <3>2. ControlType' /\ DataType'
      BY <2>1, <3>1 DEF LineTaken, Enter, Invoke, TypeOK, ControlType, DataType, Places, Calls
    <3>3. FlagType'
      BY <2>1, <3>1, LineFlags DEF Enter, Invoke, TypeOK, FlagType
    <3> QED
      BY <3>2, <3>3 DEF TypeOK
  <2>5. CASE UserTaken
    <3>1. Head(buf) \in Items
      BY <2>1 DEF LineTaken, TypeOK, DataType
    <3>2. username' \in Usernames
      BY <2>5, <3>1 DEF UserTaken, Items, Usernames
    <3>3. ControlType' /\ DataType'
      BY <2>1, <2>5, <3>2 DEF LineTaken, UserTaken, TypeOK, ControlType, DataType,
         Places, Calls
    <3>4. FlagType'
      BY <2>1, <2>5, LineFlags DEF UserTaken, TypeOK, FlagType
    <3> QED
      BY <3>3, <3>4 DEF TypeOK
  <2>6. CASE Prompted
    <3>1. ControlType' /\ DataType'
      BY <2>1, <2>6 DEF LineTaken, Prompted, PromptContinuation, TypeOK, ControlType,
         DataType, Places, Calls, Targets
    <3>2. FlagType'
      BY <2>1, <2>6, LineFlags DEF Prompted, PromptContinuation, TypeOK, FlagType
    <3> QED
      BY <3>1, <3>2 DEF TypeOK
  <2>7. CASE StlsRefused
    <3>1. ControlType' /\ DataType'
      BY <2>1, <2>7, DelayType DEF LineTaken, StlsRefused, TypeOK, ControlType,
         DataType, Places, Calls
    <3>2. FlagType'
      BY <2>1, <2>7, LineFlags DEF StlsRefused, TypeOK, FlagType
    <3> QED
      BY <3>1, <3>2 DEF TypeOK
  <2>8. CASE StlsStarted
    <3>1. ControlType' /\ DataType'
      BY <2>1, <2>8 DEF LineTaken, StlsStarted, TypeOK, ControlType, DataType, Places,
         Calls, Targets
    <3>2. FlagType'
      BY <2>1, <2>8, LineFlags DEF StlsStarted, TypeOK, FlagType
    <3> QED
      BY <3>1, <3>2 DEF TypeOK
  <2>9. CASE QuitGranted
    <3>1. ControlType' /\ DataType'
      BY <2>1, <2>9 DEF LineTaken, QuitGranted, TypeOK, ControlType, DataType, Places,
         Calls
    <3>2. FlagType'
      BY <2>1, <2>9, LineFlags DEF QuitGranted, TypeOK, FlagType
    <3> QED
      BY <3>1, <3>2 DEF TypeOK
  <2> QED
    BY <2>1, <2>2, <2>3, <2>4, <2>5, <2>6, <2>7, <2>8, <2>9 DEF Outcome
<1>2. CASE NewSessionOK
  BY <1>2 DEF NewSessionOK, TypeOK, ControlType, FlagType, DataType, Places, Calls,
     Targets
<1>3. CASE NewSessionRejects
  <2>1. unflushed' \in BOOLEAN
    BY <1>3 DEF NewSessionRejects, TypeOK, FlagType
  <2>2. netClosed' \in BOOLEAN /\ cancelled' \in BOOLEAN
    BY <1>3 DEF NewSessionRejects, TypeOK, FlagType
  <2>3. FlagType'
    BY <1>3, <2>1, <2>2 DEF NewSessionRejects, TypeOK, FlagType
  <2>4. ControlType' /\ DataType'
    BY <1>3 DEF NewSessionRejects, TypeOK, ControlType, DataType, Places, Calls, Targets
  <2> QED
    BY <2>3, <2>4 DEF TypeOK
<1>4. CASE Fill
  BY <1>4 DEF Fill, TypeOK, ControlType, FlagType, DataType
<1>5. CASE BlankLine
  BY <1>5 DEF BlankLine, TypeOK, ControlType, FlagType, DataType
<1>6. CASE LineTooLong
  BY <1>6 DEF LineTooLong, TypeOK, ControlType, FlagType, DataType, Places, Calls,
     Targets
<1>7. CASE ReadError
  BY <1>7 DEF ReadError, TypeOK, ControlType, FlagType, DataType, Places, Calls
<1>8. CASE ReadTimeout
  BY <1>8 DEF ReadTimeout, TypeOK, ControlType, FlagType, DataType, Places, Calls,
     Targets, Timers, nextReadDeadline
<1>9. CASE AuthContinuationError
  <2>1. buf # <<>> /\ buf \in Seq(Items) => Tail(buf) \in Seq(Items)
    OBVIOUS
  <2> QED
    BY <1>9, <2>1 DEF AuthContinuationError, continuationDrop, TypeOK, ControlType, FlagType,
       DataType, Places, Calls
<1>10. CASE AuthContinuationTimeout
  BY <1>10 DEF AuthContinuationTimeout, continuationDrop, TypeOK, ControlType, FlagType,
     DataType, Places, Calls, Timers, nextReadDeadline, continuationDeadline
<1>11. CASE Handshake
  <2>1. net # <<>> /\ net' = Tail(net) /\ buf' = <<>>
    BY <1>11 DEF Handshake
  <2>2. net' \in Seq(Items) /\ buf' \in Seq(Items)
    BY <2>1 DEF TypeOK, DataType
  <2>3. ControlType'
    BY <1>11 DEF Handshake, Goto, TypeOK, ControlType, Places, Calls, Usernames
  <2>4. FlagType'
    BY <1>11 DEF Handshake, TypeOK, FlagType
  <2>5. DataType'
    BY <1>11, <2>2 DEF Handshake, TypeOK, DataType
  <2> QED
    BY <2>3, <2>4, <2>5 DEF TypeOK
<1>12. CASE HandshakeError \/ HandshakeCancelled
  <2>1. pc' = "post" /\ closePending' = TRUE /\ handshakeDrop /\ UNCHANGED dropped
    BY <1>12 DEF HandshakeError, HandshakeCancelled, handshakeDrop
  <2> QED
    BY <2>1 DEF handshakeDrop, TypeOK, ControlType, FlagType, DataType, Places, Calls
<1>13. CASE HandshakeTimeout
  BY <1>13 DEF HandshakeTimeout, handshakeDrop, TypeOK, ControlType, FlagType, DataType,
     Places, Calls, Timers, nextReadDeadline
<1>14. CASE LoginSucceeds
  BY <1>14 DEF LoginSucceeds, TypeOK, ControlType, FlagType, DataType, Places, Calls,
     States
<1>15. CASE LoginFails
  <2>1. FlagType'
    BY <1>15 DEF LoginFails, TypeOK, FlagType
  <2>2. ControlType' /\ DataType'
    BY <1>15, DelayType DEF LoginFails, TypeOK, ControlType, DataType, Places, Calls
  <2> QED
    BY <2>1, <2>2 DEF TypeOK
<1>16. CASE LoginHijacks
  BY <1>16 DEF LoginHijacks, TypeOK, ControlType, FlagType, DataType, Places, Calls
<1>17. CASE MethodSucceeds
  BY <1>17 DEF MethodSucceeds, TypeOK, ControlType, FlagType, DataType, Places, Calls
<1>18. CASE MethodFails
  BY <1>18 DEF MethodFails, TypeOK, ControlType, FlagType, DataType, Places, Calls
<1>19. CASE BodyReturned
  BY <1>19 DEF BodyReturned, TypeOK, ControlType, FlagType, DataType, Places, Calls,
     Targets
<1>20. CASE StreamDone
  BY <1>20 DEF StreamDone, TypeOK, ControlType, FlagType, DataType, Places, Calls
<1>21. CASE StreamFails
  <2>1. unflushed' \in BOOLEAN
    BY <1>21 DEF StreamFails, TypeOK, FlagType
  <2> QED
    BY <1>21, <2>1 DEF StreamFails, TypeOK, ControlType, FlagType, DataType, Places, Calls
<1>22. CASE UnknownHandled
  BY <1>22 DEF UnknownHandled, TypeOK, ControlType, FlagType, DataType, Places, Calls
<1>23. CASE UnknownDeclined
  BY <1>23, DelayType DEF UnknownDeclined, TypeOK, ControlType, FlagType, DataType,
     Places, Calls
<1>24. CASE Post
  <2>1. quit' \in BOOLEAN
    BY <1>24 DEF Post, TypeOK, FlagType
  <2>2. unflushed' \in BOOLEAN
    BY <1>24 DEF Post, TypeOK, FlagType
  <2>3. FlagType'
    BY <1>24, <2>1, <2>2 DEF Post, TypeOK, FlagType
  <2>4. ControlType' /\ DataType'
    BY <1>24 DEF Post, TypeOK, ControlType, DataType, Places, Calls, Targets
  <2> QED
    BY <2>3, <2>4 DEF TypeOK
<1>25. CASE FlushOK \/ FlushError
  <2>1. onTimeout' \in {onTimeout, dropped}
    BY <1>25 DEF FlushOK, FlushError, flushReturns
  <2>2. ControlType'
    BY <1>25, <2>1, FlushLands, FlushFrame DEF TypeOK, ControlType, Places, Targets
  <2>3. netClosed' \in BOOLEAN /\ cancelled' \in BOOLEAN
    BY <1>25 DEF FlushOK, FlushError, flushReturns
  <2>4. past' \in BOOLEAN /\ unflushed' \in BOOLEAN /\ wbroken' \in BOOLEAN
    BY <1>25 DEF FlushOK, FlushError, flushReturns, TypeOK, FlagType
  <2>5. FlagType' /\ DataType'
    BY <1>25, <2>3, <2>4, FlushFrame DEF TypeOK, FlagType, DataType
  <2> QED
    BY <2>2, <2>5 DEF TypeOK
<1>26. CASE Panic
  BY <1>26 DEF Panic, TypeOK, ControlType, FlagType, DataType, Places, Calls
<1>27. CASE CallClose
  BY <1>27 DEF CallClose, TypeOK, ControlType, FlagType, DataType, Places, Calls
<1>28. CASE CloseReturns
  <2>1. netClosed' \in BOOLEAN
    BY <1>28 DEF CloseReturns, TypeOK, FlagType
  <2>2. panicking' \in BOOLEAN
    BY <1>28 DEF CloseReturns, TypeOK, FlagType
  <2>3. FlagType'
    BY <1>28, <2>1, <2>2 DEF CloseReturns, TypeOK, FlagType
  <2>4. ControlType' /\ DataType'
    BY <1>28 DEF CloseReturns, TypeOK, ControlType, DataType, Places, Calls
  <2> QED
    BY <2>3, <2>4 DEF TypeOK
<1>29. CASE recoverConn
  BY <1>29 DEF recoverConn, TypeOK, ControlType, FlagType, DataType, Places, Calls
<1>30. CASE ClientSend
  <2>1. \E item \in Items : net' = Append(net, item)
    BY <1>30 DEF ClientSend, Items
  <2>2. net' \in Seq(Items)
    BY <2>1 DEF TypeOK, DataType
  <2> QED
    BY <1>30, <2>2 DEF ClientSend, TypeOK, ControlType, FlagType, DataType
<1>31. CASE ClientFades
  BY <1>31 DEF ClientFades, TypeOK, ControlType, FlagType, DataType, Peers
<1>32. CASE AbsoluteTimerExpires
  BY <1>32 DEF AbsoluteTimerExpires, TypeOK, ControlType, FlagType, DataType
<1>33. CASE UNCHANGED vars
  BY <1>33 DEF vars, TypeOK, ControlType, FlagType, DataType
<1>34. CASE LazyHandshake
  <2>1. net' \in Seq(Items)
    BY <1>34 DEF LazyHandshake, TypeOK, DataType
  <2>2. ControlType' /\ DataType'
    BY <1>34, <2>1 DEF LazyHandshake, TypeOK, ControlType, DataType
  <2>3. FlagType'
    <3>1. pendingTLS' \in BOOLEAN
      BY <1>34 DEF LazyHandshake
    <3>2. UNCHANGED <<quit, session, isTLS, hijacked, closePending, lastErr, open, unflushed,
                      wbroken, absExpired, past, panicking, netClosed, cancelled>>
      BY <1>34 DEF LazyHandshake
    <3> QED
      BY <3>1, <3>2 DEF TypeOK, FlagType
  <2> QED
    BY <2>2, <2>3 DEF TypeOK
<1> QED
  BY <1>1, <1>2, <1>3, <1>4, <1>5, <1>6, <1>7, <1>8, <1>9, <1>10, <1>11, <1>12, <1>13,
     <1>14, <1>15, <1>16, <1>17, <1>18, <1>19, <1>20, <1>21, <1>22, <1>23, <1>24, <1>25,
     <1>26, <1>27, <1>28, <1>29, <1>30, <1>31, <1>32, <1>33, <1>34 DEF Next, Goroutine,
     Start, Reading, Returning, Ending, Environment, Terminated

------------------------------------------------------------------------------
(* The inductive invariant.                                                  *)

\* The error count and its limit are numbers.
LEMMA ErrorTypes ==
    ASSUME TypeOK
    PROVE  opts.MaxErrors \in Int /\ errorCount \in Nat
BY DEF TypeOK, DataType, OptionsType

\* A line taken from the reader leaves the rest of it as it was.
LEMMA TailLemma ==
    ASSUME TypeOK, InputOK, buf # <<>>, buf' = Tail(buf), UNCHANGED <<isTLS, net>>
    PROVE  InputOK'
<1>1. Len(buf') = Len(buf) - 1 /\ \A i \in 1..Len(buf') : buf'[i] = buf[i + 1]
  BY DEF TypeOK, DataType
<1> QED
  BY <1>1 DEF InputOK, TypeOK, DataType

\* A fill of the reader brings only what was sent the way the connection runs.
LEMMA FillLemma ==
    ASSUME TypeOK, InputOK, Fill
    PROVE  InputOK'
<1>1. PICK n \in 1..Len(net) :
         /\ Readable(n)
         /\ buf' = SubSeq(net, 1, n)
         /\ net' = SubSeq(net, n + 1, Len(net))
  BY DEF Fill
<1>2. isTLS' = isTLS
  BY DEF Fill, authVars
<1>3. net \in Seq(Items)
  BY DEF TypeOK, DataType
<1>4. Len(buf') = n /\ \A i \in 1..n : buf'[i] = net[i]
  BY <1>1, <1>3
<1>5. Len(net') = Len(net) - n /\ \A i \in 1..Len(net') : net'[i] = net[n + i]
  BY <1>1, <1>3
<1>6. \A i \in 1..n : (net[i] = "tls") <=> isTLS
  BY <1>1 DEF Readable, InputOK
<1>7. ~isTLS => \A i \in 1..Len(net') : net'[i] # "tls"
  BY <1>1, <1>3, <1>5 DEF InputOK
<1> QED
  BY <1>2, <1>4, <1>6, <1>7 DEF InputOK

\* What the client and the clock do disturbs none of the goroutine's state.
LEMMA InvFrame ==
    ASSUME ConnInv,
           UNCHANGED <<opts, loopVars, authVars, errVars, closePending, outVars, buf, lifeVars>>
    PROVE  (CallOK /\ LoopOK /\ ResponseOK /\ ErrorsOK /\ AuthOK /\ UserOK)'
<1> USE DEF loopVars, authVars, errVars, outVars, lifeVars, ConnInv, Looping, At
<1>1. CallOK' /\ LoopOK'
  BY DEF CallOK, LoopOK
<1>2. ResponseOK' /\ ErrorsOK'
  BY DEF ResponseOK, ErrorsOK
<1>3. AuthOK' /\ UserOK'
  BY DEF AuthOK, UserOK
<1> QED
  BY <1>1, <1>2, <1>3

\* A handler writes the first response to its command.
LEMMA AnsweredZero ==
    ASSUME ConnInv, pc \in {"new", "read", "cont", "call", "stream"}
    PROVE  answered = 0 /\ answered + 1 = 1
<1>1. answered = 0
  BY DEF answered, ConnInv, ResponseOK, At
<1> QED
  BY <1>1

\* Every step preserves the invariant.
LEMMA InvStep ==
    ASSUME TypeOK, ConnInv, [Next]_vars
    PROVE  ConnInv'
<1> USE DEF loopVars, authVars, errVars, outVars, inVars, clientVars, timerVars,
          lifeVars, Goto, FlushThen, Reply, NoReply, NoError, clientError, sessionError,
          returnFrame
<1>0. pc \in {"new", "read", "cont", "call", "stream"} => answered = 0 /\ answered + 1 = 1
  BY AnsweredZero
<1>1. CASE CommandStep \/ AuthContinuation
  <2>1. LineTaken /\ Outcome
    BY <1>1, CommandOutcome, ContinuationOutcome DEF TypeOK, ControlType, ConnInv
  <2>2. InputOK'
    BY <2>1, TailLemma DEF LineTaken, ConnInv
  <2>3. CASE Answer
    BY <1>0, <2>1, <2>2, <2>3 DEF LineTaken, Answer, CallOK, LoopOK, ResponseOK, ErrorsOK,
       AuthOK, UserOK, Looping, At, ConnInv, AuthMethods, TransMethods
  <2>4. CASE Refuse
    <3>1. (CallOK /\ LoopOK /\ ResponseOK /\ AuthOK /\ UserOK)'
      BY <1>0, <2>1, <2>4 DEF LineTaken, Refuse, CallOK, LoopOK, ResponseOK, AuthOK, UserOK,
         Looping, At, ConnInv, TypeOK, FlagType, AuthMethods, TransMethods
    <3>2. ErrorsOK'
      BY <2>1, <2>4, ErrorTypes DEF LineTaken, Refuse, ErrorsOK, Looping, At, ConnInv
    <3> QED
      BY <2>2, <3>1, <3>2 DEF ConnInv
  <2>5. CASE Entered
    <3>1. (CallOK /\ LoopOK /\ ResponseOK /\ ErrorsOK)'
      BY <1>0, <2>1, <2>5 DEF LineTaken, Entered, Enter, Invoke, CallOK, LoopOK, ResponseOK,
         ErrorsOK, Looping, At, ConnInv
    <3>2. (AuthOK /\ UserOK)'
      BY <2>1, <2>5 DEF LineTaken, Entered, Enter, Invoke, MayEnter, authAllowed, AuthOK,
         UserOK, At, ConnInv, Methods, AuthMethods, TransMethods, ExtMethods
    <3> QED
      BY <2>2, <3>1, <3>2 DEF ConnInv
  <2>6. CASE UserTaken
    <3>1. (CallOK /\ LoopOK /\ ResponseOK /\ ErrorsOK /\ AuthOK)'
      BY <1>0, <2>1, <2>6 DEF LineTaken, UserTaken, CallOK, LoopOK, ResponseOK, ErrorsOK, AuthOK,
         Looping, At, ConnInv, AuthMethods, TransMethods
    <3>2. Len(buf) > 0 /\ Head(buf) = buf[1] /\ Head(buf) \in Items
      BY <2>1 DEF LineTaken, TypeOK, DataType
    <3>3. username' = buf[1] /\ buf[1] \in {"plain", "tls"}
      BY <2>6, <3>2 DEF UserTaken, Items
    <3>4. (buf[1] = "tls") <=> isTLS
      BY <3>2 DEF ConnInv, InputOK, TypeOK, DataType
    <3>5. UserOK'
      BY <2>1, <2>6, <3>3, <3>4 DEF LineTaken, UserTaken, UserOK
    <3> QED
      BY <2>2, <3>1, <3>5 DEF ConnInv
  <2>7. CASE Prompted
    BY <1>0, <2>1, <2>2, <2>7 DEF LineTaken, Prompted, PromptContinuation, authAllowed,
       CallOK, LoopOK, ResponseOK, ErrorsOK, AuthOK, UserOK, Looping, At, ConnInv,
       AuthMethods, TransMethods
  <2>8. CASE StlsRefused
    <3>1. (CallOK /\ LoopOK /\ ResponseOK /\ AuthOK /\ UserOK)'
      BY <1>0, <2>1, <2>8 DEF LineTaken, StlsRefused, CallOK, LoopOK, ResponseOK, AuthOK, UserOK,
         Looping, At, ConnInv, TypeOK, FlagType, AuthMethods, TransMethods
    <3>2. ErrorsOK'
      BY <2>1, <2>8, ErrorTypes DEF LineTaken, StlsRefused, ErrorsOK, Looping, At, ConnInv
    <3> QED
      BY <2>2, <3>1, <3>2 DEF ConnInv
  <2>9. CASE StlsStarted
    <3>1. Len(buf) <= 1
      BY <2>9 DEF StlsStarted, pipelinedAfterSTLS, TypeOK, DataType
    <3>2. buf' = <<>>
      BY <2>1, <3>1 DEF LineTaken, TypeOK, DataType
    <3>3. (CallOK /\ LoopOK /\ ResponseOK /\ ErrorsOK /\ AuthOK /\ UserOK)'
      BY <1>0, <2>1, <2>9, <3>2 DEF LineTaken, StlsStarted, CallOK, LoopOK, ResponseOK, ErrorsOK,
         AuthOK, UserOK, Looping, At, ConnInv, AuthMethods, TransMethods
    <3> QED
      BY <2>2, <3>3 DEF ConnInv
  <2>10. CASE QuitGranted
    BY <1>0, <2>1, <2>2, <2>10 DEF LineTaken, QuitGranted, CallOK, LoopOK, ResponseOK,
       ErrorsOK, AuthOK, UserOK, Looping, At, ConnInv, AuthMethods, TransMethods
  <2> QED
    BY <2>1, <2>3, <2>4, <2>5, <2>6, <2>7, <2>8, <2>9, <2>10 DEF Outcome
<1>2. CASE NewSessionOK
  BY <1>0, <1>2 DEF NewSessionOK, ConnInv, CallOK, LoopOK, ResponseOK, ErrorsOK, AuthOK,
     InputOK, UserOK, Looping, At, TypeOK, FlagType, Methods, AuthMethods, TransMethods,
     ExtMethods
<1>3. CASE NewSessionRejects
  BY <1>0, <1>3 DEF NewSessionRejects, ConnInv, CallOK, LoopOK, ResponseOK, ErrorsOK, AuthOK,
     InputOK, UserOK, Looping, At, TypeOK, FlagType, Methods, AuthMethods, TransMethods,
     ExtMethods
<1>4. CASE Fill
  <2>1. InputOK'
    BY <1>4, FillLemma DEF ConnInv
  <2>2. (CallOK /\ LoopOK /\ ResponseOK /\ ErrorsOK /\ AuthOK /\ UserOK)'
    BY <1>4 DEF Fill, CallOK, LoopOK, ResponseOK, ErrorsOK, AuthOK, UserOK, Looping, At,
       ConnInv
  <2> QED
    BY <2>1, <2>2 DEF ConnInv
<1>5. CASE BlankLine
  <2>1. InputOK'
    BY <1>5, TailLemma DEF BlankLine, ConnInv
  <2> QED
    BY <1>5, <2>1 DEF BlankLine, CallOK, LoopOK, ResponseOK, ErrorsOK, AuthOK, UserOK, Looping, At,
       ConnInv, AuthMethods, TransMethods
<1>6. CASE LineTooLong
  <2>1. InputOK'
    BY <1>6, TailLemma DEF LineTooLong, ConnInv
  <2> QED
    BY <1>6, <2>1 DEF LineTooLong, CallOK, LoopOK, ResponseOK, ErrorsOK, AuthOK, UserOK, Looping, At,
       ConnInv, AuthMethods, TransMethods
<1>7. CASE ReadError
  BY <1>7 DEF ReadError, ConnInv, CallOK, LoopOK, ResponseOK, ErrorsOK, AuthOK, InputOK,
     UserOK, Looping, At, TypeOK, FlagType, Methods, AuthMethods, TransMethods,
     ExtMethods
<1>8. CASE ReadTimeout
  BY <1>8 DEF ReadTimeout, ConnInv, CallOK, LoopOK, ResponseOK, ErrorsOK, AuthOK,
     InputOK, UserOK, Looping, At, TypeOK, FlagType, Methods, AuthMethods, TransMethods,
     ExtMethods
<1>9. CASE AuthContinuationError
  <2>1. InputOK'
    <3>1. CASE buf # <<>> /\ buf' = Tail(buf)
      BY <1>9, <3>1, TailLemma DEF AuthContinuationError, continuationDrop, ConnInv
    <3>2. CASE UNCHANGED buf
      BY <1>9, <3>2 DEF AuthContinuationError, continuationDrop, InputOK, ConnInv
    <3> QED
      BY <1>9, <3>1, <3>2 DEF AuthContinuationError
  <2> QED
    BY <1>9, <2>1 DEF AuthContinuationError, continuationDrop, CallOK, LoopOK, ResponseOK,
       ErrorsOK, AuthOK, UserOK, Looping, At, ConnInv, AuthMethods, TransMethods
<1>10. CASE AuthContinuationTimeout
  BY <1>10 DEF AuthContinuationTimeout, continuationDrop, ConnInv, CallOK, LoopOK,
     ResponseOK, ErrorsOK, AuthOK, InputOK, UserOK, Looping, At, TypeOK, FlagType,
     Methods, AuthMethods, TransMethods, ExtMethods
<1>11. CASE Handshake
  <2>1. isTLS' /\ buf' = <<>>
    BY <1>11 DEF Handshake
  <2>2. Len(buf') = 0
    BY <2>1
  <2>3. InputOK'
    BY <2>1, <2>2 DEF InputOK
  <2>4. (CallOK /\ LoopOK /\ ResponseOK /\ ErrorsOK /\ AuthOK /\ UserOK)'
    BY <1>11 DEF Handshake, CallOK, LoopOK, ResponseOK, ErrorsOK, AuthOK, UserOK, Looping,
       At, ConnInv, AuthMethods, TransMethods
  <2> QED
    BY <2>3, <2>4 DEF ConnInv
<1>12. CASE HandshakeError \/ HandshakeCancelled
  <2>1. pc = "shake" /\ handshakeDrop
    BY <1>12 DEF HandshakeError, HandshakeCancelled
  <2> QED
    BY <2>1 DEF handshakeDrop, ConnInv, CallOK, LoopOK, ResponseOK, ErrorsOK, AuthOK,
       InputOK, UserOK, Looping, At, TypeOK, FlagType, Methods, AuthMethods, TransMethods,
       ExtMethods
<1>13. CASE HandshakeTimeout
  BY <1>13 DEF HandshakeTimeout, handshakeDrop, ConnInv, CallOK, LoopOK, ResponseOK,
     ErrorsOK, AuthOK, InputOK, UserOK, Looping, At, TypeOK, FlagType, Methods,
     AuthMethods, TransMethods, ExtMethods
<1>14. CASE LoginSucceeds
  BY <1>0, <1>14 DEF LoginSucceeds, ConnInv, CallOK, LoopOK, ResponseOK, ErrorsOK, AuthOK,
     InputOK, UserOK, Looping, At, TypeOK, FlagType, Methods, AuthMethods, TransMethods,
     ExtMethods
<1>15. CASE LoginFails
  <2>1. (CallOK /\ ResponseOK /\ AuthOK /\ InputOK /\ UserOK)'
    BY <1>0, <1>15 DEF LoginFails, CallOK, LoopOK, ResponseOK, AuthOK, InputOK, UserOK, Looping, At,
       ConnInv, TypeOK, FlagType, AuthMethods, TransMethods
  <2>2. LoopOK'
    BY <1>15 DEF LoginFails, LoopOK, Looping, At, ConnInv, TypeOK, FlagType
  <2>3. ErrorsOK'
    BY <1>15, ErrorTypes DEF LoginFails, ErrorsOK, Looping, At, ConnInv
  <2> QED
    BY <2>1, <2>2, <2>3 DEF ConnInv
<1>16. CASE LoginHijacks
  BY <1>0, <1>16 DEF LoginHijacks, ConnInv, CallOK, LoopOK, ResponseOK, ErrorsOK, AuthOK,
     InputOK, UserOK, Looping, At, TypeOK, FlagType, Methods, AuthMethods, TransMethods,
     ExtMethods
<1>17. CASE MethodSucceeds
  BY <1>0, <1>17 DEF MethodSucceeds, ConnInv, CallOK, LoopOK, ResponseOK, ErrorsOK, AuthOK,
     InputOK, UserOK, Looping, At, TypeOK, FlagType, Methods, AuthMethods, TransMethods,
     ExtMethods
<1>18. CASE MethodFails
  BY <1>0, <1>18 DEF MethodFails, ConnInv, CallOK, LoopOK, ResponseOK, ErrorsOK, AuthOK,
     InputOK, UserOK, Looping, At, TypeOK, FlagType, Methods, AuthMethods, TransMethods,
     ExtMethods
<1>19. CASE BodyReturned
  BY <1>19 DEF BodyReturned, ConnInv, CallOK, LoopOK, ResponseOK, ErrorsOK, AuthOK,
     InputOK, UserOK, Looping, At, TypeOK, FlagType, Methods, AuthMethods, TransMethods,
     ExtMethods
<1>20. CASE StreamDone
  BY <1>0, <1>20 DEF StreamDone, ConnInv, CallOK, LoopOK, ResponseOK, ErrorsOK, AuthOK,
     InputOK, UserOK, Looping, At, TypeOK, FlagType, Methods, AuthMethods, TransMethods,
     ExtMethods
<1>21. CASE StreamFails
  BY <1>21 DEF StreamFails, ConnInv, CallOK, LoopOK, ResponseOK, ErrorsOK, AuthOK,
     InputOK, UserOK, Looping, At, TypeOK, FlagType, Methods, AuthMethods, TransMethods,
     ExtMethods
<1>22. CASE UnknownHandled
  BY <1>0, <1>22 DEF UnknownHandled, ConnInv, CallOK, LoopOK, ResponseOK, ErrorsOK, AuthOK,
     InputOK, UserOK, Looping, At, TypeOK, FlagType, Methods, AuthMethods, TransMethods,
     ExtMethods
<1>23. CASE UnknownDeclined
  <2>1. (CallOK /\ LoopOK /\ ResponseOK /\ AuthOK /\ InputOK /\ UserOK)'
    BY <1>0, <1>23 DEF UnknownDeclined, CallOK, LoopOK, ResponseOK, AuthOK, InputOK, UserOK, Looping,
       At, ConnInv, TypeOK, FlagType, AuthMethods, TransMethods
  <2>2. ErrorsOK'
    BY <1>23, ErrorTypes DEF UnknownDeclined, ErrorsOK, Looping, At, ConnInv
  <2> QED
    BY <2>1, <2>2 DEF ConnInv
<1>24. CASE Post
  <2>1. (CallOK /\ AuthOK /\ InputOK /\ UserOK)'
    BY <1>24 DEF Post, CallOK, LoopOK, AuthOK, InputOK, UserOK, At, ConnInv, AuthMethods,
       TransMethods
  <2>2. LoopOK'
    BY <1>24 DEF Post, LoopOK, ResponseOK, Looping, At, TypeOK, FlagType, ConnInv
  <2>3. ResponseOK'
    BY <1>24 DEF Post, tooManyErrors, LoopOK, ResponseOK, Looping, At, TypeOK, FlagType, ConnInv
  <2>4. CASE hijacked
    BY <1>24, <2>1, <2>2, <2>3, <2>4 DEF Post, ErrorsOK, Looping, At, ConnInv
  <2>5. CASE ~hijacked
    <3>1. UNCHANGED <<opts, errorCount>> /\ pc' = "flush"
      BY <1>24, <2>5 DEF Post
    <3>2. Looping' => ~maxErrorsExceeded
      BY <1>24, <2>5 DEF Post, tooManyErrors, Looping, At
    <3>3. ErrorsOK'
      BY <3>1, <3>2, ErrorTypes DEF ErrorsOK, ConnInv, maxErrorsExceeded
    <3> QED
      BY <2>1, <2>2, <2>3, <3>3 DEF ConnInv
  <2> QED
    BY <2>4, <2>5
<1>25. CASE FlushOK \/ FlushError
  <2>1. CallOK'
    BY <1>25, FlushLands, FlushFrame DEF CallOK, At, ConnInv, TypeOK, ControlType
  <2>2. LoopOK'
    BY <1>25, FlushLands, FlushFrame DEF LoopOK, Looping, At, ConnInv, TypeOK, ControlType,
       FlagType
  <2>3. ResponseOK'
    BY <1>25, FlushLands, FlushFrame DEF ResponseOK, LoopOK, Looping, At, ConnInv, TypeOK,
       ControlType
  <2>4. ErrorsOK'
    BY <1>25, FlushLands, FlushFrame DEF ErrorsOK, Looping, At, ConnInv, TypeOK, ControlType
  <2>5. AuthOK'
    BY <1>25, FlushLands, FlushFrame DEF AuthOK, At, ConnInv, TypeOK, ControlType
  <2>6. UNCHANGED <<call, username, isTLS, buf, net>>
    BY <1>25, FlushFrame DEF TypeOK
  <2>7. InputOK' /\ UserOK'
    BY <2>6 DEF InputOK, UserOK, ConnInv
  <2> QED
    BY <2>1, <2>2, <2>3, <2>4, <2>5, <2>7 DEF ConnInv
<1>26. CASE Panic
  BY <1>26 DEF Panic, ConnInv, CallOK, LoopOK, ResponseOK, ErrorsOK, AuthOK, InputOK,
     UserOK, Looping, At, TypeOK, FlagType, Methods, AuthMethods, TransMethods,
     ExtMethods
<1>27. CASE CallClose
  BY <1>27 DEF CallClose, ConnInv, CallOK, LoopOK, ResponseOK, ErrorsOK, AuthOK,
     InputOK, UserOK, Looping, At, TypeOK, FlagType, Methods, AuthMethods, TransMethods,
     ExtMethods
<1>28. CASE CloseReturns
  BY <1>28 DEF CloseReturns, ConnInv, CallOK, LoopOK, ResponseOK, ErrorsOK, AuthOK,
     InputOK, UserOK, Looping, At, TypeOK, FlagType, Methods, AuthMethods, TransMethods,
     ExtMethods
<1>29. CASE recoverConn
  BY <1>29 DEF recoverConn, ConnInv, CallOK, LoopOK, ResponseOK, ErrorsOK, AuthOK,
     InputOK, UserOK, Looping, At, TypeOK, FlagType, Methods, AuthMethods, TransMethods,
     ExtMethods
<1>30. CASE ClientSend
  <2>1. InputOK'
    BY <1>30 DEF ClientSend, InputOK, ConnInv, TypeOK, DataType
  <2> QED
    BY <1>30, <2>1, InvFrame DEF ClientSend, ConnInv
<1>31. CASE ClientFades
  BY <1>31, InvFrame DEF ClientFades, InputOK, ConnInv
<1>32. CASE AbsoluteTimerExpires
  BY <1>32, InvFrame DEF AbsoluteTimerExpires, InputOK, ConnInv
<1>33. CASE UNCHANGED vars
  BY <1>33, InvFrame DEF vars, InputOK, ConnInv
<1>34. CASE LazyHandshake
  <2>1. Len(net') = Len(net) - 1 /\ \A i \in 1..Len(net') : net'[i] = net[i + 1]
    BY <1>34 DEF LazyHandshake, TypeOK, DataType
  <2>2. UNCHANGED <<isTLS, buf>>
    BY <1>34 DEF LazyHandshake
  <2>3. InputOK'
    BY <2>1, <2>2 DEF InputOK, ConnInv, TypeOK, DataType
  <2> QED
    BY <1>34, <2>3, InvFrame DEF LazyHandshake, ConnInv
<1> QED
  BY <1>1, <1>2, <1>3, <1>4, <1>5, <1>6, <1>7, <1>8, <1>9, <1>10, <1>11, <1>12, <1>13,
     <1>14, <1>15, <1>16, <1>17, <1>18, <1>19, <1>20, <1>21, <1>22, <1>23, <1>24, <1>25,
     <1>26, <1>27, <1>28, <1>29, <1>30, <1>31, <1>32, <1>33, <1>34 DEF Next, Goroutine,
     Start, Reading, Returning, Ending, Environment, Terminated

------------------------------------------------------------------------------
(* Invariance and safety.                                                    *)

\* Options.defaults yields options.
LEMMA DefaultsType ==
    ASSUME NEW o \in OptionsType
    PROVE  defaults(o) \in OptionsType
<1>1. \A q \in OptionsType : withDefault(q, "IdleTimeout", 600) \in OptionsType
  BY DEF OptionsType, withDefault
<1>2. \A q \in OptionsType : withDefault(q, "MaxErrors", 10) \in OptionsType
  BY DEF OptionsType, withDefault
<1>3. \A q \in OptionsType : withDefault(q, "MaxErrorDelay", 30) \in OptionsType
  BY DEF OptionsType, withDefault
<1>4. \A q \in OptionsType : withDefault(q, "WriteTimeout", 60) \in OptionsType
  BY DEF OptionsType, withDefault
<1> QED
  BY <1>1, <1>2, <1>3, <1>4 DEF defaults

\* A new connection satisfies the invariant.
LEMMA InitInv == Init => TypeOK /\ ConnInv
<1> SUFFICES ASSUME Init
             PROVE  TypeOK /\ ConnInv
  OBVIOUS
<1>1. opts \in OptionsType
  BY DefaultsType, OptionsAssumption DEF Init
<1>2. net = <<>> /\ buf = <<>>
  BY DEF Init
<1>3. ControlType
  BY DEF Init, ControlType, Places, Targets, Calls, States, Usernames, Peers, Timers
<1>4. FlagType
  BY DEF Init, FlagType
<1>5. DataType
  <2>1. net \in Seq(Items) /\ buf \in Seq(Items)
    BY <1>2
  <2>2. errorCount = 0 /\ delay = 0 /\ resp = 0
    BY DEF Init
  <2> QED
    BY <1>1, <2>1, <2>2 DEF DataType
<1>6. CallOK /\ LoopOK /\ ResponseOK
  BY DEF Init, CallOK, LoopOK, ResponseOK, Looping, At
<1>7. ErrorsOK
  <2>1. errorCount = 0 /\ opts.MaxErrors \in Int
    BY <1>1 DEF Init, OptionsType
  <2> QED
    BY <2>1 DEF ErrorsOK
<1>8. AuthOK /\ UserOK
  BY DEF Init, AuthOK, UserOK, At, AuthMethods, TransMethods
<1>9. InputOK
  <2>1. Len(net) = 0 /\ Len(buf) = 0
    BY <1>2
  <2> QED
    BY <2>1 DEF InputOK
<1> QED
  BY <1>3, <1>4, <1>5, <1>6, <1>7, <1>8, <1>9 DEF TypeOK, ConnInv

(* The connection keeps its types and the invariant that ties the loop, the   *)
(* handlers and the consumer's calls together, whatever the options.         *)
THEOREM Invariance == Spec => [](TypeOK /\ ConnInv)
<1>1. TypeOK /\ ConnInv /\ [Next]_vars => (TypeOK /\ ConnInv)'
  BY TypeStep, InvStep
<1> QED
  BY InitInv, <1>1, PTL DEF Spec

(* Every variable of a connection keeps its type.                            *)
THEOREM TypeCorrect == Spec => []TypeOK
BY Invariance, PTL

(* A pipelining client gets exactly one complete response per command.       *)
THEOREM ResponsesInStep == Spec => []OneResponsePerCommand
<1>1. ConnInv => OneResponsePerCommand
  BY DEF ConnInv, ResponseOK, At, OneResponsePerCommand, NothingAfterBrokenBody
<1> QED
  BY <1>1, Invariance, PTL

(* No path of the loop lets a client past MaxErrors.                         *)
THEOREM ErrorsBounded == Spec => []MaxErrorsEnforced
<1>1. ConnInv => MaxErrorsEnforced
  BY DEF ConnInv, ErrorsOK, Looping, At, MaxErrorsEnforced
<1> QED
  BY <1>1, Invariance, PTL

(* What was sent in the clear has no effect once the connection is on TLS.   *)
THEOREM PlaintextForgotten == Spec => []NoPlaintextUnderTLS
<1>1. ConnInv => NoPlaintextUnderTLS
  BY DEF ConnInv, InputOK, UserOK, NoPlaintextUnderTLS
<1> QED
  BY <1>1, Invariance, PTL

\* What the steps that take a line, return from a call or leave the loop do to
\* the variables of the next theorems.
LEMMA StepShape ==
    ASSUME TypeOK, ConnInv, Next, ~Handshake, ~FlushOK, ~FlushError
    PROVE  /\ isTLS' = isTLS /\ (pendingTLS' => pendingTLS)
           /\ pc' \in {"read", "cont", "shake"} => UNCHANGED <<pc, unflushed, wbroken>>
           /\ pc' = "recover" /\ pc # "recover" => panicking' /\ (session' => cancelled')
           /\ pc' = "done" /\ pc \notin {"recover", "done"} => ConnReleased'
<1> USE DEF loopVars, authVars, errVars, outVars, inVars, clientVars, timerVars, lifeVars,
          Goto, FlushThen, returnFrame
<1>1. CASE CommandStep \/ AuthContinuation
  <2>1. LineTaken /\ Outcome
    BY <1>1, CommandOutcome, ContinuationOutcome DEF TypeOK, ControlType, ConnInv
  <2>2. pc' \in {"post", "flush", "call"}
    BY <2>1 DEF Outcome, Answer, Refuse, Entered, Enter, Invoke, UserTaken, Prompted,
       PromptContinuation, StlsRefused, StlsStarted, QuitGranted
  <2> QED
    BY <2>1, <2>2 DEF LineTaken
<1>2. CASE Start
  <2>1. ~hijacked /\ ~panicking /\ ~session
    BY <1>2 DEF Start, NewSessionOK, NewSessionRejects, ConnInv, LoopOK
  <2> QED
    BY <1>2, <2>1 DEF Start, NewSessionOK, NewSessionRejects, ConnReleased
<1>3. CASE Fill \/ BlankLine \/ LazyHandshake
  BY <1>3 DEF Fill, BlankLine, LazyHandshake
<1>4. CASE LineTooLong \/ ReadError \/ ReadTimeout
  BY <1>4 DEF LineTooLong, ReadError, ReadTimeout
<1>5. CASE AuthContinuationError \/ AuthContinuationTimeout
  BY <1>5 DEF AuthContinuationError, AuthContinuationTimeout, continuationDrop
<1>6. CASE HandshakeError \/ HandshakeTimeout \/ HandshakeCancelled
  BY <1>6 DEF HandshakeError, HandshakeTimeout, HandshakeCancelled, handshakeDrop
<1>7. CASE Returning
  <2>1. UNCHANGED <<isTLS, pendingTLS>> /\ pc' \in {"post", "flush"}
    BY <1>7 DEF Returning, LoginSucceeds, LoginFails, LoginHijacks, MethodSucceeds,
       MethodFails, BodyReturned, StreamDone, StreamFails, UnknownHandled, UnknownDeclined
  <2> QED
    BY <2>1
<1>8. CASE Post
  BY <1>8 DEF Post
<1>9. CASE Panic \/ CallClose \/ recoverConn
  BY <1>9 DEF Panic, CallClose, recoverConn, ConnInv, LoopOK
<1>10. CASE CloseReturns
  <2>1. isTLS' = isTLS /\ pendingTLS' = pendingTLS /\ pc' \in {"recover", "done"}
    BY <1>10 DEF CloseReturns
  <2>2. pc' = "done" => ~panicking' /\ hijacked' = hijacked
    BY <1>10 DEF CloseReturns
  <2>3. cancelled' /\ (pc' = "recover" => panicking')
    BY <1>10 DEF CloseReturns
  <2>4. pc' = "done" => netClosed' = ~hijacked'
    BY <1>10, <2>2 DEF CloseReturns
  <2> QED
    BY <2>1, <2>3, <2>4 DEF ConnReleased
<1>11. CASE Environment
  BY <1>11 DEF Environment, ClientSend, ClientFades, AbsoluteTimerExpires
<1>12. CASE Terminated
  BY <1>12 DEF Terminated, vars
<1> QED
  BY <1>1, <1>2, <1>3, <1>4, <1>5, <1>6, <1>7, <1>8, <1>9, <1>10, <1>11, <1>12
     DEF Next, Goroutine, Reading, Ending

\* The steps that remain once dispatch has returned.
LEMMA LastSteps ==
    ASSUME Next, pc \in {"post", "teardown", "closing", "recover", "done"}
    PROVE  \/ Post \/ Panic \/ CallClose \/ CloseReturns \/ recoverConn
           \/ (pc # "done" /\ Environment) \/ Terminated
<1>1. ~Start /\ ~LazyHandshake /\ ~FlushOK /\ ~FlushError /\ ~HandshakeCancelled
  BY DEF Start, NewSessionOK, NewSessionRejects, LazyHandshake, FlushOK, FlushError,
     HandshakeCancelled
<1>2. ~Reading
  BY DEF Reading, Fill, CommandStep, BlankLine, LineTooLong, ReadError, ReadTimeout,
     AuthContinuation, AuthContinuationError, AuthContinuationTimeout, Handshake,
     HandshakeError, HandshakeTimeout
<1>3. ~Returning
  BY DEF Returning, LoginSucceeds, LoginFails, LoginHijacks, MethodSucceeds, MethodFails,
     BodyReturned, StreamDone, StreamFails, UnknownHandled, UnknownDeclined
<1> QED
  BY <1>1, <1>2, <1>3 DEF Next, Goroutine, Ending

\* The steps there are before the command loop and in a flush.
LEMMA FirstSteps ==
    ASSUME Next, pc \in {"new", "flush"}
    PROVE  \/ Start \/ LazyHandshake \/ FlushOK \/ FlushError \/ Panic
           \/ (pc # "done" /\ Environment)
<1>1. ~Post /\ ~CallClose /\ ~CloseReturns /\ ~recoverConn /\ ~Terminated
        /\ ~HandshakeCancelled
  BY DEF Post, CallClose, CloseReturns, recoverConn, Terminated, HandshakeCancelled
<1>2. ~Reading
  BY DEF Reading, Fill, CommandStep, BlankLine, LineTooLong, ReadError, ReadTimeout,
     AuthContinuation, AuthContinuationError, AuthContinuationTimeout, Handshake,
     HandshakeError, HandshakeTimeout
<1>3. ~Returning
  BY DEF Returning, LoginSucceeds, LoginFails, LoginHijacks, MethodSucceeds, MethodFails,
     BodyReturned, StreamDone, StreamFails, UnknownHandled, UnknownDeclined
<1> QED
  BY <1>1, <1>2, <1>3 DEF Next, Goroutine, Ending

(* No command of an implicit-TLS connection is read before its handshake:    *)
(* the greeting's flush cannot get past it.                                  *)
THEOREM HandshakeComesFirst == Spec => []ShakenOK
<1>1. Init => ShakenOK
  BY DEF Init, ShakenOK
<1>2. TypeOK /\ ConnInv /\ ShakenOK /\ [Next]_vars => ShakenOK'
  <2> SUFFICES ASSUME TypeOK, ConnInv, ShakenOK, [Next]_vars, pendingTLS'
               PROVE  ShakenOK'
    BY DEF ShakenOK
  <2> USE DEF loopVars, authVars, clientVars, Goto, FlushThen
  <2>1. CASE UNCHANGED vars
    BY <2>1 DEF vars, ShakenOK
  <2>2. CASE Environment
    BY <2>2 DEF Environment, ClientSend, ClientFades, AbsoluteTimerExpires, ShakenOK
  <2>3. CASE Start
    BY <2>3 DEF Start, NewSessionOK, NewSessionRejects, ShakenOK
  <2>4. CASE FlushOK \/ FlushError
    <3>1. UNCHANGED <<state, pendingTLS>> /\ FlushError
      BY <2>4 DEF FlushOK, FlushError, flushReturns, flushSucceeds
    <3>2. pc' \in {"teardown", "done"}
      BY <3>1 DEF FlushError, flushReturns, ShakenOK
    <3> QED
      BY <3>1, <3>2 DEF ShakenOK
  <2>5. CASE Panic \/ CallClose \/ CloseReturns \/ recoverConn
    BY <2>5 DEF Panic, CallClose, CloseReturns, recoverConn, ShakenOK
  <2>6. ~LazyHandshake
    BY DEF LazyHandshake
  <2>7. CASE pendingTLS /\ Next
    <3>1. pc \in {"new", "flush", "teardown", "closing", "recover", "done"}
      BY <2>7 DEF ShakenOK
    <3>2. pc # "post"
      BY <3>1
    <3> QED
      BY <2>1, <2>2, <2>3, <2>4, <2>5, <2>6, <2>7, <3>1, <3>2, FirstSteps, LastSteps
         DEF Post, Terminated
  <2>8. CASE ~pendingTLS /\ Next
    <3>1. ~Handshake /\ ~FlushOK /\ ~FlushError
      BY <2>8 DEF Handshake, FlushOK, FlushError, flushReturns
    <3> QED
      BY <2>8, <3>1, StepShape
  <2> QED
    BY <2>1, <2>7, <2>8
<1> QED
  BY <1>1, <1>2, Invariance, PTL DEF Spec

(* Credentials reach the consumer on TLS or with InsecureAuth only, and with *)
(* a user name that was sent the same way.                                   *)
THEOREM CredentialsSafe == Spec => []CredentialsProtected
<1>1. TypeOK /\ ConnInv /\ ShakenOK => CredentialsProtected
  <2> SUFFICES ASSUME TypeOK, ConnInv, ShakenOK
               PROVE  CredentialsProtected
    OBVIOUS
  <2>1. call \in AuthMethods => pc = "call"
    BY DEF ConnInv, CallOK, At, AuthMethods
  <2>2. call \in AuthMethods \/ state = "TRANSACTION" => ~pendingTLS
    BY <2>1 DEF ShakenOK
  <2> QED
    BY <2>2 DEF TypeOK, ControlType, Usernames, ConnInv, AuthOK, UserOK,
       CredentialsProtected
<1> QED
  BY <1>1, Invariance, HandshakeComesFirst, PTL

(* The server never waits for a client whose answer it has not sent.         *)
THEOREM AnswersAreSent == Spec => []FlushedBeforeBlocking
<1>1. Init => FlushedBeforeBlocking
  BY DEF Init, FlushedBeforeBlocking
<1>2. TypeOK /\ ConnInv /\ FlushedBeforeBlocking /\ [Next]_vars => FlushedBeforeBlocking'
  <2> SUFFICES ASSUME TypeOK, ConnInv, FlushedBeforeBlocking, [Next]_vars
               PROVE  FlushedBeforeBlocking'
    OBVIOUS
  <2>1. CASE Handshake
    BY <2>1 DEF Handshake, Goto, FlushedBeforeBlocking
  <2>2. CASE FlushOK \/ FlushError
    BY <2>2 DEF FlushOK, FlushError, FlushedBeforeBlocking
  <2>3. CASE Next /\ ~Handshake /\ ~FlushOK /\ ~FlushError
    BY <2>3, StepShape DEF FlushedBeforeBlocking
  <2>4. CASE UNCHANGED vars
    BY <2>4 DEF vars, loopVars, outVars, FlushedBeforeBlocking
  <2> QED
    BY <2>1, <2>2, <2>3, <2>4
<1> QED
  BY <1>1, <1>2, Invariance, PTL DEF Spec

\* What recoverConn finds, and what it and the other ends leave.
EndOK ==
    /\ pc = "recover" => panicking /\ (session => cancelled)
    /\ ConnReleased

(* No connection is leaked: the goroutine never ends with a socket that is   *)
(* neither closed nor handed over, one it handed over closed under its new   *)
(* owner, or a context nobody cancels, panics included.                      *)
THEOREM NoLeak == Spec => []ConnReleased
<1>1. Init => EndOK
  BY DEF Init, EndOK, ConnReleased
<1>2. TypeOK /\ ConnInv /\ EndOK /\ [Next]_vars => EndOK'
  <2> SUFFICES ASSUME TypeOK, ConnInv, EndOK, [Next]_vars
               PROVE  EndOK'
    OBVIOUS
  <2>1. CASE pc \notin {"recover", "done"} /\ Next /\ ~Handshake /\ ~FlushOK /\ ~FlushError
    BY <2>1, StepShape DEF EndOK, ConnReleased
  <2>2. CASE Handshake
    BY <2>2 DEF Handshake, Goto, EndOK, ConnReleased
  <2>3. CASE FlushOK \/ FlushError
    <3>1. /\ after = "reject" => netClosed' /\ cancelled'
          /\ hijacked' = hijacked /\ ~hijacked
      BY <2>3 DEF FlushOK, FlushError, flushReturns, authVars, ConnInv, LoopOK
    <3>2. pc' # "recover" /\ (pc' = "done" => after = "reject")
      BY <2>3, FlushLands DEF TypeOK, ControlType
    <3> QED
      BY <3>1, <3>2 DEF EndOK, ConnReleased
  <2>4. CASE UNCHANGED vars
    BY <2>4 DEF vars, loopVars, authVars, lifeVars, EndOK, ConnReleased
  <2>5. CASE pc = "recover" /\ Next
    <3>1. CASE recoverConn
      BY <3>1 DEF recoverConn, Goto, authVars, EndOK, ConnReleased
    <3>2. CASE Environment
      <4>1. UNCHANGED <<pc, session, panicking, cancelled>>
        BY <3>2 DEF Environment, ClientSend, ClientFades, AbsoluteTimerExpires,
           loopVars, lifeVars
      <4> QED
        BY <2>5, <4>1 DEF EndOK, ConnReleased
    <3> QED
      BY <2>5, <3>1, <3>2, LastSteps DEF Post, Panic, CallClose, CloseReturns, Terminated
  <2>6. CASE pc = "done" /\ Next
    <3>1. Terminated
      BY <2>6, LastSteps DEF Post, Panic, CallClose, CloseReturns, recoverConn
    <3> QED
      BY <2>4, <3>1 DEF Terminated
  <2> QED
    BY <2>1, <2>2, <2>3, <2>4, <2>5, <2>6
<1>3. EndOK => ConnReleased
  BY DEF EndOK
<1> QED
  BY <1>1, <1>2, <1>3, Invariance, PTL DEF Spec

(* The STLS upgrade throws away no byte of the client.                       *)
THEOREM UpgradeIsClean == Spec => UpgradeLosesNothing
<1>1. TypeOK /\ ConnInv /\ [Next]_vars => [isTLS' # isTLS => buf = <<>>]_vars
  <2> SUFFICES ASSUME TypeOK, ConnInv, Next, isTLS' # isTLS
               PROVE  buf = <<>>
    BY DEF vars
  <2>1. CASE Handshake
    BY <2>1 DEF Handshake, ConnInv, AuthOK, At
  <2>2. CASE FlushOK \/ FlushError
    BY <2>2, FlushFrame DEF TypeOK, authVars
  <2> QED
    BY <2>1, <2>2, StepShape
<1> QED
  BY <1>1, Invariance, PTL DEF Spec, UpgradeLosesNothing
(* After Conn.Hijack the library neither reads nor writes nor loops.         *)
THEOREM HijackIsFinal == Spec => HijackHandsOver
<1>1. TypeOK /\ ConnInv /\ [Next]_vars
        => [hijacked => buf' = buf /\ unflushed' = unflushed /\ pc' # "read"]_vars
  <2> SUFFICES ASSUME TypeOK, ConnInv, Next, hijacked
               PROVE  buf' = buf /\ unflushed' = unflushed /\ pc' # "read"
    BY DEF vars
  <2>1. pc \in {"post", "teardown", "closing", "recover", "done"}
    BY DEF ConnInv, LoopOK
  <2> USE DEF loopVars, outVars, inVars, Goto
  <2>2. CASE Post
    BY <2>2 DEF Post
  <2>3. CASE Panic \/ CallClose \/ CloseReturns \/ recoverConn
    BY <2>3 DEF Panic, CallClose, CloseReturns, recoverConn
  <2>4. CASE Environment
    BY <2>1, <2>4 DEF Environment, ClientSend, ClientFades, AbsoluteTimerExpires
  <2>5. CASE Terminated
    BY <2>1, <2>5 DEF Terminated, vars
  <2> QED
    BY <2>1, <2>2, <2>3, <2>4, <2>5, LastSteps
<1> QED
  BY <1>1, Invariance, PTL DEF Spec, HijackHandsOver

\* A timer that made the server give up: reported once OnTimeout has been called,
\* not yet while the notice is flushed, not at all by the code that drops the
\* connection inside AUTH and STLS.
TimeoutOK ==
    /\ Looping \/ pc = "new" \/ (pc = "post" /\ ~closePending) => dropped = "none"
    /\ pc = "flush" /\ after = "timeout" => onTimeout = "none" /\ ~closePending
    /\ ~(pc = "flush" /\ after = "timeout") =>
          onTimeout = IF closePending THEN "none" ELSE dropped

\* A step of the loop in which no timer fires.
LEMMA NoTimerFires ==
    ASSUME TimeoutOK, Looping \/ pc = "new", UNCHANGED <<dropped, onTimeout>>,
           ~(pc' = "flush" /\ after' = "timeout")
    PROVE  TimeoutOK'
BY DEF TimeoutOK, Looping, At

(* OnTimeout is told of a timer that fired in the loop's own read (serve's   *)
(* handling of a read error), and of none that did not.                      *)
THEOREM TimeoutsReported == Spec => []LoopTimeoutReported
<1>1. Init => TimeoutOK
  BY DEF Init, TimeoutOK
<1>2. TypeOK /\ ConnInv /\ TimeoutOK /\ [Next]_vars => TimeoutOK'
  <2> SUFFICES ASSUME TypeOK, ConnInv, TimeoutOK, [Next]_vars
               PROVE  TimeoutOK'
    OBVIOUS
  <2> USE DEF loopVars, authVars, errVars, outVars, inVars, clientVars, timerVars, lifeVars,
            Goto, FlushThen, returnFrame
  <2>1. CASE CommandStep \/ AuthContinuation
    <3>1. LineTaken /\ Outcome
      BY <2>1, CommandOutcome, ContinuationOutcome DEF TypeOK, ControlType, ConnInv
    <3>2. ~(pc' = "flush" /\ after' = "timeout")
      BY <3>1 DEF Outcome, Answer, Refuse, Entered, Enter, Invoke, UserTaken, Prompted,
         PromptContinuation, StlsRefused, StlsStarted, QuitGranted
    <3>3. Looping
      BY <2>1 DEF CommandStep, AuthContinuation, Looping, At
    <3> QED
      BY <3>1, <3>2, <3>3, NoTimerFires DEF LineTaken
  <2>2. CASE Start
    BY <2>2, NoTimerFires DEF Start, NewSessionOK, NewSessionRejects
  <2>3. CASE Fill \/ BlankLine \/ LineTooLong \/ ReadError
    <3>1. Looping
      BY <2>3 DEF Fill, BlankLine, LineTooLong, ReadError, Looping, At
    <3>2. UNCHANGED <<dropped, onTimeout>> /\ ~(pc' = "flush" /\ after' = "timeout")
      BY <2>3 DEF Fill, BlankLine, LineTooLong, ReadError
    <3> QED
      BY <3>1, <3>2, NoTimerFires
  <2>4. CASE AuthContinuationError \/ Handshake \/ HandshakeError \/ HandshakeCancelled
    <3>1. Looping
      BY <2>4 DEF AuthContinuationError, Handshake, HandshakeError, HandshakeCancelled,
         Looping, At
    <3>2. UNCHANGED <<dropped, onTimeout>> /\ ~(pc' = "flush" /\ after' = "timeout")
      BY <2>4 DEF AuthContinuationError, Handshake, HandshakeError, HandshakeCancelled,
         continuationDrop, handshakeDrop
    <3> QED
      BY <3>1, <3>2, NoTimerFires
  <2>5. CASE Returning
    <3>1. Looping
      BY <2>5 DEF Returning, LoginSucceeds, LoginFails, LoginHijacks, MethodSucceeds,
         MethodFails, BodyReturned, StreamDone, StreamFails, UnknownHandled, UnknownDeclined,
         Looping, At
    <3>2. UNCHANGED <<dropped, onTimeout>> /\ ~(pc' = "flush" /\ after' = "timeout")
      BY <2>5 DEF Returning, LoginSucceeds, LoginFails, LoginHijacks, MethodSucceeds,
         MethodFails, BodyReturned, StreamDone, StreamFails, UnknownHandled, UnknownDeclined
    <3> QED
      BY <3>1, <3>2, NoTimerFires
  <2>6. CASE ReadTimeout
    BY <2>6 DEF ReadTimeout, TimeoutOK, ConnInv, LoopOK, Looping, At
  <2>7. CASE AuthContinuationTimeout \/ HandshakeTimeout
    <3>1. /\ pc' = "post" /\ closePending' /\ onTimeout' = onTimeout
          /\ onTimeout = "none"
      BY <2>7 DEF AuthContinuationTimeout, HandshakeTimeout, continuationDrop, handshakeDrop,
         TimeoutOK, Looping, At
    <3> QED
      BY <3>1 DEF TimeoutOK, Looping, At
  <2>8. CASE Post
    <3>1. UNCHANGED <<dropped, onTimeout, closePending>>
      BY <2>8 DEF Post
    <3>2. \/ pc' = "teardown"
          \/ pc' = "flush" /\ after' = "teardown"
          \/ pc' = "flush" /\ after' = "read" /\ ~closePending
      BY <2>8 DEF Post, TypeOK, FlagType
    <3>3. pc = "post"
      BY <2>8 DEF Post
    <3> QED
      BY <3>1, <3>2, <3>3 DEF TimeoutOK, Looping, At
  <2>9. CASE Panic \/ CallClose \/ CloseReturns \/ recoverConn
    <3>1. UNCHANGED <<dropped, onTimeout, closePending>>
      BY <2>9 DEF Panic, CallClose, CloseReturns, recoverConn
    <3>2. pc # "flush" /\ pc' \in {"teardown", "recover", "closing", "done"}
      BY <2>9 DEF Panic, CallClose, CloseReturns, recoverConn
    <3> QED
      BY <3>1, <3>2 DEF TimeoutOK, Looping, At
  <2>10. CASE FlushOK \/ FlushError
    <3>1. /\ UNCHANGED <<dropped, closePending>>
          /\ onTimeout' = IF after = "timeout" THEN dropped ELSE onTimeout
      BY <2>10 DEF FlushOK, FlushError, flushReturns
    <3>2. pc = "flush"
      BY <2>10 DEF FlushOK, FlushError
    <3>3. /\ pc' \notin {"flush", "new", "post"}
          /\ Looping' => after \in {"read", "cont", "shake", "stream"}
      BY <2>10, FlushLands DEF TypeOK, ControlType, Targets, Looping, At
    <3> QED
      BY <3>1, <3>2, <3>3 DEF TimeoutOK, Looping, At
  <2>11. CASE Environment \/ LazyHandshake
    <3>1. UNCHANGED <<pc, after, dropped, onTimeout, closePending>>
      BY <2>11 DEF Environment, ClientSend, ClientFades, AbsoluteTimerExpires, LazyHandshake
    <3> QED
      BY <3>1 DEF TimeoutOK, Looping, At
  <2>12. CASE Terminated \/ UNCHANGED vars
    BY <2>12 DEF Terminated, vars, TimeoutOK, Looping, At
  <2> QED
    BY <2>1, <2>2, <2>3, <2>4, <2>5, <2>6, <2>7, <2>8, <2>9, <2>10, <2>11, <2>12
       DEF Next, Goroutine, Reading, Ending
<1>3. TypeOK /\ TimeoutOK => LoopTimeoutReported
  BY DEF TimeoutOK, LoopTimeoutReported, TypeOK, FlagType
<1> QED
  BY <1>1, <1>2, <1>3, Invariance, PTL DEF Spec

------------------------------------------------------------------------------
(* The command loop implements what SessionContract promises to the author   *)
(* of a Session.                                                             *)

\* The step changes nothing the contract speaks of.
Same == UNCHANGED <<sessionPhase, sessionBusy>>

\* Every step of the connection is a step of the contract or changes nothing in it.
LEMMA ContractStep ==
    ASSUME TypeOK, ConnInv, [Next]_vars
    PROVE  Contract!ContractNext \/ Same
<1> USE DEF loopVars, authVars, errVars, outVars, inVars, clientVars, timerVars,
          lifeVars, Goto, FlushThen, answered, Reply, NoReply, NoError, clientError, sessionError,
          returnFrame, sessionPhase, sessionEnded, sessionBusy, Same
<1>1. CASE CommandStep \/ AuthContinuation
  <2>1. LineTaken /\ Outcome
    BY <1>1, CommandOutcome, ContinuationOutcome DEF TypeOK, ControlType, ConnInv
  <2>2. CASE Answer
    BY <2>1, <2>2 DEF LineTaken, Answer, ConnInv, CallOK, LoopOK, ResponseOK, AuthOK,
       Looping, At, TypeOK, ControlType, FlagType, States
  <2>3. CASE Refuse
    BY <2>1, <2>3 DEF LineTaken, Refuse, ConnInv, CallOK, LoopOK, ResponseOK, AuthOK,
       Looping, At, TypeOK, ControlType, FlagType, States
  <2>4. CASE Entered
    <3>1. PICK m \in Methods \cup {"Unknown"} : MayEnter(m) /\ Enter(m)
      BY <2>4 DEF Entered
    <3>2. sessionBusy = "none" /\ sessionPhase' = sessionPhase
          /\ sessionPhase = (IF state = "TRANSACTION" THEN "trans" ELSE "auth")
      BY <2>1, <3>1 DEF LineTaken, Enter, Invoke, ConnInv, CallOK, LoopOK, Looping, At
    <3>3. CASE m = "Unknown"
      BY <3>1, <3>2, <3>3 DEF Enter, Invoke
    <3>4. CASE m # "Unknown"
      <4>1. m \in Contract!Allowed(sessionPhase)
        BY <3>1, <3>2, <3>4 DEF MayEnter, Contract!Allowed, Methods, AuthMethods,
           TransMethods, ExtMethods, Contract!AuthMethods, Contract!TransMethods,
           Contract!ExtMethods
      <4>2. sessionBusy' = m
        BY <3>1, <3>4 DEF Enter, Invoke
      <4> QED
        BY <3>2, <4>1, <4>2 DEF Contract!CallMethod, Contract!ContractNext
    <3> QED
      BY <3>3, <3>4
  <2>5. CASE UserTaken
    BY <2>1, <2>5 DEF LineTaken, UserTaken, ConnInv, CallOK, LoopOK, ResponseOK, AuthOK,
       Looping, At, TypeOK, ControlType, FlagType, States
  <2>6. CASE Prompted
    BY <2>1, <2>6 DEF LineTaken, Prompted, PromptContinuation, ConnInv, CallOK, LoopOK,
       ResponseOK, AuthOK, Looping, At, TypeOK, ControlType, FlagType, States
  <2>7. CASE StlsRefused
    BY <2>1, <2>7 DEF LineTaken, StlsRefused, ConnInv, CallOK, LoopOK, ResponseOK,
       AuthOK, Looping, At, TypeOK, ControlType, FlagType, States, Contract!End,
       Contract!ContractNext
  <2>8. CASE StlsStarted
    BY <2>1, <2>8 DEF LineTaken, StlsStarted, ConnInv, CallOK, LoopOK, ResponseOK,
       AuthOK, Looping, At, TypeOK, ControlType, FlagType, States
  <2>9. CASE QuitGranted
    BY <2>1, <2>9 DEF LineTaken, QuitGranted, ConnInv, CallOK, LoopOK, ResponseOK,
       AuthOK, Looping, At, TypeOK, ControlType, FlagType, States, Contract!End,
       Contract!ContractNext
  <2> QED
    BY <2>1, <2>2, <2>3, <2>4, <2>5, <2>6, <2>7, <2>8, <2>9 DEF Outcome
<1>2. CASE NewSessionOK
  BY <1>2 DEF NewSessionOK, ConnInv, CallOK, LoopOK, ResponseOK, AuthOK, Looping, At,
     TypeOK, ControlType, FlagType, States, Contract!Create, Contract!ContractNext
<1>3. CASE NewSessionRejects
  BY <1>3 DEF NewSessionRejects, ConnInv, CallOK, LoopOK, ResponseOK, AuthOK, Looping,
     At, TypeOK, ControlType, FlagType, States
<1>4. CASE Fill
  BY <1>4 DEF Fill
<1>5. CASE BlankLine
  BY <1>5 DEF BlankLine
<1>6. CASE LineTooLong
  BY <1>6 DEF LineTooLong, ConnInv, CallOK, LoopOK, ResponseOK, AuthOK, Looping, At,
     TypeOK, ControlType, FlagType, States, Contract!End, Contract!ContractNext
<1>7. CASE ReadError
  BY <1>7 DEF ReadError, ConnInv, CallOK, LoopOK, ResponseOK, AuthOK, Looping, At,
     TypeOK, ControlType, FlagType, States, Contract!End, Contract!ContractNext
<1>8. CASE ReadTimeout
  BY <1>8 DEF ReadTimeout, ConnInv, CallOK, LoopOK, ResponseOK, AuthOK, Looping, At,
     TypeOK, ControlType, FlagType, States, Contract!End, Contract!ContractNext
<1>9. CASE AuthContinuationError
  BY <1>9 DEF AuthContinuationError, continuationDrop, ConnInv, CallOK, LoopOK,
     ResponseOK, AuthOK, Looping, At, TypeOK, ControlType, FlagType, States,
     Contract!End, Contract!ContractNext
<1>10. CASE AuthContinuationTimeout
  BY <1>10 DEF AuthContinuationTimeout, continuationDrop, ConnInv, CallOK, LoopOK,
     ResponseOK, AuthOK, Looping, At, TypeOK, ControlType, FlagType, States,
     Contract!End, Contract!ContractNext
<1>11. CASE Handshake
  BY <1>11 DEF Handshake, ConnInv, CallOK, LoopOK, ResponseOK, AuthOK, Looping, At,
     TypeOK, ControlType, FlagType, States
<1>12. CASE HandshakeError \/ HandshakeCancelled
  BY <1>12 DEF HandshakeError, HandshakeCancelled, handshakeDrop, ConnInv, CallOK, LoopOK, ResponseOK,
     AuthOK, Looping, At, TypeOK, ControlType, FlagType, States, Contract!End,
     Contract!ContractNext
<1>13. CASE HandshakeTimeout
  BY <1>13 DEF HandshakeTimeout, handshakeDrop, ConnInv, CallOK, LoopOK, ResponseOK,
     AuthOK, Looping, At, TypeOK, ControlType, FlagType, States, Contract!End,
     Contract!ContractNext
<1>14. CASE LoginSucceeds
  BY <1>14 DEF LoginSucceeds, ConnInv, CallOK, LoopOK, ResponseOK, AuthOK, Looping, At,
     TypeOK, ControlType, FlagType, States, Contract!ReturnMethod, Contract!After,
     Methods, AuthMethods, TransMethods, ExtMethods, Contract!Methods,
     Contract!AuthMethods, Contract!TransMethods, Contract!ExtMethods,
     Contract!ContractNext
<1>15. CASE LoginFails
  BY <1>15 DEF LoginFails, ConnInv, CallOK, LoopOK, ResponseOK, AuthOK, Looping, At,
     TypeOK, ControlType, FlagType, States, Contract!ReturnMethod, Contract!After,
     Methods, AuthMethods, TransMethods, ExtMethods, Contract!Methods,
     Contract!AuthMethods, Contract!TransMethods, Contract!ExtMethods,
     Contract!ContractNext
<1>16. CASE LoginHijacks
  BY <1>16 DEF LoginHijacks, ConnInv, CallOK, LoopOK, ResponseOK, AuthOK, Looping, At,
     TypeOK, ControlType, FlagType, States, Contract!ReturnMethod, Contract!After,
     Methods, AuthMethods, TransMethods, ExtMethods, Contract!Methods,
     Contract!AuthMethods, Contract!TransMethods, Contract!ExtMethods,
     Contract!ContractNext
<1>17. CASE MethodSucceeds
  BY <1>17 DEF MethodSucceeds, ConnInv, CallOK, LoopOK, ResponseOK, AuthOK, Looping, At,
     TypeOK, ControlType, FlagType, States, Contract!ReturnMethod, Contract!After,
     Methods, AuthMethods, TransMethods, ExtMethods, Contract!Methods,
     Contract!AuthMethods, Contract!TransMethods, Contract!ExtMethods,
     Contract!ContractNext
<1>18. CASE MethodFails
  BY <1>18 DEF MethodFails, ConnInv, CallOK, LoopOK, ResponseOK, AuthOK, Looping, At,
     TypeOK, ControlType, FlagType, States, Contract!ReturnMethod, Contract!After,
     Methods, AuthMethods, TransMethods, ExtMethods, Contract!Methods,
     Contract!AuthMethods, Contract!TransMethods, Contract!ExtMethods,
     Contract!ContractNext
<1>19. CASE BodyReturned
  BY <1>19 DEF BodyReturned, ConnInv, CallOK, LoopOK, ResponseOK, AuthOK, Looping, At,
     TypeOK, ControlType, FlagType, States, Contract!ReturnMethod, Contract!After,
     Methods, AuthMethods, TransMethods, ExtMethods, Contract!Methods,
     Contract!AuthMethods, Contract!TransMethods, Contract!ExtMethods,
     Contract!ContractNext
<1>20. CASE StreamDone
  BY <1>20 DEF StreamDone, ConnInv, CallOK, LoopOK, ResponseOK, AuthOK, Looping, At,
     TypeOK, ControlType, FlagType, States, Contract!CloseBody, Contract!ContractNext
<1>21. CASE StreamFails
  BY <1>21 DEF StreamFails, ConnInv, CallOK, LoopOK, ResponseOK, AuthOK, Looping, At,
     TypeOK, ControlType, FlagType, States, Contract!CloseBody, Contract!ContractNext
<1>22. CASE UnknownHandled
  BY <1>22 DEF UnknownHandled, ConnInv, CallOK, LoopOK, ResponseOK, AuthOK, Looping, At,
     TypeOK, ControlType, FlagType, States, Contract!End, Contract!ContractNext
<1>23. CASE UnknownDeclined
  BY <1>23 DEF UnknownDeclined, ConnInv, CallOK, LoopOK, ResponseOK, AuthOK, Looping,
     At, TypeOK, ControlType, FlagType, States
<1>24. CASE Post
  BY <1>24 DEF Post, tooManyErrors, ConnInv, CallOK, LoopOK, ResponseOK, AuthOK,
     Looping, At, TypeOK, ControlType, FlagType, States, Contract!End,
     Contract!ContractNext
<1>25. CASE FlushOK \/ FlushError
  BY <1>25, FlushLands, FlushFrame DEF ConnInv, CallOK, LoopOK, ResponseOK, AuthOK,
     Looping, At, TypeOK, ControlType, FlagType, States, Contract!End,
     Contract!ContractNext
<1>26. CASE Panic
  BY <1>26 DEF Panic, ConnInv, CallOK, LoopOK, ResponseOK, AuthOK, Looping, At, TypeOK,
     ControlType, FlagType, States, Contract!ReturnMethod, Contract!After,
     Contract!CloseBody, Contract!End, Methods, AuthMethods, TransMethods, ExtMethods,
     Contract!Methods, Contract!AuthMethods, Contract!TransMethods, Contract!ExtMethods,
     Contract!ContractNext
<1>27. CASE CallClose
  BY <1>27 DEF CallClose, ConnInv, CallOK, LoopOK, ResponseOK, AuthOK, Looping, At,
     TypeOK, ControlType, FlagType, States, Contract!CallClose, Contract!ContractNext
<1>28. CASE CloseReturns
  BY <1>28 DEF CloseReturns, ConnInv, CallOK, LoopOK, ResponseOK, AuthOK, Looping, At,
     TypeOK, ControlType, FlagType, States, Contract!ReturnClose, Contract!ContractNext
<1>29. CASE recoverConn
  BY <1>29 DEF recoverConn, ConnInv, CallOK, LoopOK, ResponseOK, AuthOK, Looping, At,
     TypeOK, ControlType, FlagType, States
<1>30. CASE ClientSend
  BY <1>30 DEF ClientSend
<1>31. CASE ClientFades
  BY <1>31 DEF ClientFades
<1>32. CASE AbsoluteTimerExpires
  BY <1>32 DEF AbsoluteTimerExpires
<1>33. CASE UNCHANGED vars
  BY <1>33 DEF vars
<1>34. CASE LazyHandshake
  BY <1>34 DEF LazyHandshake
<1> QED
  BY <1>1, <1>2, <1>3, <1>4, <1>5, <1>6, <1>7, <1>8, <1>9, <1>10, <1>11, <1>12, <1>13,
     <1>14, <1>15, <1>16, <1>17, <1>18, <1>19, <1>20, <1>21, <1>22, <1>23, <1>24, <1>25,
     <1>26, <1>27, <1>28, <1>29, <1>30, <1>31, <1>32, <1>33, <1>34 DEF Next, Goroutine,
     Start, Reading, Returning, Ending, Environment, Terminated

(* The library keeps its contract with every Session: methods only in their  *)
(* state, one at a time, Quit last, the body closed before the next call,    *)
(* Close exactly once and after everything else, whatever the client does,   *)
(* whichever timer fires and whatever panics.                                *)
THEOREM ContractKept == Spec => ImplementsSessionContract
<1>1. Init => Contract!ContractInit
  BY DEF Init, Contract!ContractInit, sessionPhase, sessionBusy
<1>2. TypeOK /\ ConnInv /\ [Next]_vars => [Contract!ContractNext]_(Contract!cvars)
  BY ContractStep DEF Same, Contract!cvars
<1> QED
  BY <1>1, <1>2, Invariance, PTL DEF Spec, ImplementsSessionContract, Contract!ContractSpec
=============================================================================
