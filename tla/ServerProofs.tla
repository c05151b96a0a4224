---------------------------- MODULE ServerProofs ----------------------------
(***************************************************************************)
(* Proofs about module Server, for any number of listeners, connections    *)
(* and calls of Close, disciplined or not.                                 *)
(***************************************************************************)
EXTENDS Server, FiniteSetTheorems, TLAPS

\* The delays stay within their bound.
LEMMA BackoffType ==
    ASSUME NEW b \in 0..maxBackoff
    PROVE  nextBackoff(b) \in 0..maxBackoff
BY DEF nextBackoff, maxBackoff

\* The initial state.
LEMMA ServerInit ==
    ASSUME Init
    PROVE  ServerTypeOK /\ ServerInv
<1>1. ServerTypeOK
  <2>1. backoff \in [Listeners -> 0..maxBackoff] /\ wg \in Int
    BY DEF Init, maxBackoff
  <2> QED
    BY <2>1 DEF Init, ServerTypeOK
<1>2. running = {}
  BY DEF Init, running
<1>3. WgCountsConns
  BY <1>2, FS_EmptySet DEF Init, WgCountsConns
<1>4. HandedOver /\ CloseWaitsForRunning
  BY <1>2 DEF Init, HandedOver, CloseWaitsForRunning
<1> QED
  BY <1>1, <1>3, <1>4 DEF ServerInv

\* Every step keeps the types.
LEMMA ServerTypeStep ==
    ASSUME ServerTypeOK, ServerInv, [Next]_svars
    PROVE  ServerTypeOK'
<1> USE DEF ServerTypeOK, serveVars, connVars
<1>1. CASE \E l \in Listeners : CallServe(l) \/ EmbedderClosesListener(l)
  BY <1>1 DEF CallServe, EmbedderClosesListener
<1>2. CASE \E l \in Listeners : ServeStep(l)
  <2> PICK l \in Listeners : ServeStep(l)
    BY <1>2
  <2>1. CASE StoreListener(l) \/ AcceptFails(l) \/ BackoffEnds(l)
    BY <2>1 DEF StoreListener, AcceptFails, BackoffEnds
  <2>2. CASE Accept(l)
    BY <2>2 DEF Accept, maxBackoff
  <2>3. CASE AcceptError(l)
    <3>1. nextBackoff(backoff[l]) \in 0..maxBackoff
      BY BackoffType
    <3> QED
      BY <2>3, <3>1 DEF AcceptError
  <2>4. CASE Spawn(l)
    <3>1. accepted[l] \in Conns
      BY <2>4 DEF Spawn, HandedOver, ServerInv
    <3>2. wg' \in Int
      BY <2>4 DEF Spawn
    <3> QED
      BY <2>4, <3>1, <3>2 DEF Spawn
  <2> QED
    BY <2>1, <2>2, <2>3, <2>4 DEF ServeStep
<1>3. CASE \E k \in Closers : CallClose(k) \/ CloseStep(k)
  <2> PICK k \in Closers : CallClose(k) \/ CloseStep(k)
    BY <1>3
  <2>1. CASE CallClose(k)
    BY <2>1 DEF CallClose
  <2>2. CASE CheckListener(k)
    BY <2>2 DEF CheckListener
  <2>3. CASE CloseListener(k)
    BY <2>3 DEF CloseListener
  <2>4. CASE CloseReturns(k)
    BY <2>4 DEF CloseReturns
  <2> QED
    BY <2>1, <2>2, <2>3, <2>4 DEF CloseStep
<1>4. CASE \E c \in Conns : ConnEnds(c) \/ ClientShakes(c) \/ ClientFades(c)
  BY <1>4 DEF ConnEnds, ClientShakes, ClientFades
<1>5. CASE Terminated \/ UNCHANGED svars
  BY <1>5 DEF Terminated, svars
<1> QED
  BY <1>1, <1>2, <1>3, <1>4, <1>5 DEF Next

\* The connections that run are finitely many.
LEMMA RunningFinite == IsFiniteSet(running)
<1>1. running \subseteq Conns
  BY DEF running
<1> QED
  BY <1>1, FS_Subset, ServerAssumption

\* A step that leaves the connections alone and lets no Close return.
LEMMA ServerFrame ==
    ASSUME ServerTypeOK, ServerInv, UNCHANGED <<conn, wg, owed>>,
           \A k \in Closers : close'[k] = "returned" => close[k] = "returned",
           \A l \in Listeners : serve'[l] = "spawn" =>
               serve[l] = "spawn" /\ accepted'[l] = accepted[l]
    PROVE  ServerInv'
<1>1. running' = running
  BY DEF running
<1>2. WgCountsConns'
  BY <1>1 DEF WgCountsConns, ServerInv
<1>3. HandedOver'
  BY DEF HandedOver, ServerInv
<1>4. CloseWaitsForRunning'
  BY <1>1 DEF CloseWaitsForRunning, ServerInv
<1> QED
  BY <1>2, <1>3, <1>4 DEF ServerInv

\* Every step preserves the invariant.
LEMMA ServerStep ==
    ASSUME ServerTypeOK, ServerInv, [Next]_svars
    PROVE  ServerInv'
<1> USE DEF serveVars, connVars
<1>1. CASE \E l \in Listeners : CallServe(l) \/ EmbedderClosesListener(l)
  BY <1>1, ServerFrame DEF CallServe, EmbedderClosesListener, ServerTypeOK
<1>2. CASE \E l \in Listeners : ServeStep(l)
  <2> PICK l \in Listeners : ServeStep(l)
    BY <1>2
  <2>1. CASE StoreListener(l) \/ AcceptFails(l) \/ AcceptError(l) \/ BackoffEnds(l)
    BY <2>1, ServerFrame
       DEF StoreListener, AcceptFails, AcceptError, BackoffEnds, ServerTypeOK
  <2>2. CASE Accept(l)
    <3> PICK c \in Conns :
          /\ conn[c] = "none"
          /\ conn' = [conn EXCEPT ![c] = "accepted"]
          /\ accepted' = [accepted EXCEPT ![l] = c]
      BY <2>2 DEF Accept
    <3>1. running' = running
      BY DEF running, ServerTypeOK
    <3>2. WgCountsConns' /\ CloseWaitsForRunning'
      BY <2>2, <3>1 DEF Accept, WgCountsConns, CloseWaitsForRunning, ServerInv
    <3>3. HandedOver'
      BY <2>2 DEF Accept, HandedOver, ServerInv, ServerTypeOK
    <3> QED
      BY <3>2, <3>3 DEF ServerInv
  <2>3. CASE Spawn(l)
    <3> DEFINE c == accepted[l]
    <3>1. c \in Conns /\ conn[c] = "accepted"
      BY <2>3 DEF Spawn, HandedOver, ServerInv
    <3>2. running' = running \cup {c} /\ c \notin running
      BY <2>3, <3>1 DEF Spawn, running, ServerTypeOK
    <3>3. Cardinality(running') = Cardinality(running) + 1
      BY <3>2, RunningFinite, FS_AddElement
    <3>4. WgCountsConns'
      BY <2>3, <3>3 DEF Spawn, WgCountsConns, ServerInv
    <3>5. HandedOver'
      BY <2>3, <3>1 DEF Spawn, HandedOver, ServerInv, ServerTypeOK
    <3>6. \A k \in Closers : c \notin owed[k]
      BY <3>1 DEF HandedOver, ServerInv
    <3>7. CloseWaitsForRunning'
      BY <2>3, <3>2, <3>6 DEF Spawn, CloseWaitsForRunning, ServerInv
    <3> QED
      BY <3>4, <3>5, <3>7 DEF ServerInv
  <2> QED
    BY <2>1, <2>2, <2>3 DEF ServeStep
<1>3. CASE \E k \in Closers : CheckListener(k) \/ CloseListener(k)
  BY <1>3, ServerFrame DEF CheckListener, CloseListener, ServerTypeOK
<1>4. CASE \E k \in Closers : CallClose(k)
  <2> PICK k \in Closers : CallClose(k)
    BY <1>4
  <2>1. running' = running
    BY DEF CallClose, running
  <2>2. WgCountsConns' /\ HandedOver'
    BY <2>1 DEF CallClose, WgCountsConns, HandedOver, ServerInv, ServerTypeOK
  <2>3. CloseWaitsForRunning'
    BY <2>1 DEF CallClose, CloseWaitsForRunning, ServerInv, ServerTypeOK
  <2> QED
    BY <2>2, <2>3 DEF ServerInv
<1>5. CASE \E k \in Closers : CloseReturns(k)
  <2> PICK k \in Closers : CloseReturns(k)
    BY <1>5
  <2>1. running = {}
    BY RunningFinite, FS_EmptySet DEF CloseReturns, WgCountsConns, ServerInv
  <2>2. running' = {}
    BY <2>1 DEF CloseReturns, running
  <2>3. WgCountsConns' /\ HandedOver' /\ CloseWaitsForRunning'
    BY <2>1, <2>2 DEF CloseReturns, WgCountsConns, HandedOver, CloseWaitsForRunning,
       ServerInv
  <2> QED
    BY <2>3 DEF ServerInv
<1>6. CASE \E c \in Conns : ConnEnds(c)
  <2> PICK c \in Conns : ConnEnds(c)
    BY <1>6
  <2>1. c \in running /\ running' = running \ {c}
    BY DEF ConnEnds, running, ServerTypeOK
  <2>2. Cardinality(running') = Cardinality(running) - 1
    BY <2>1, RunningFinite, FS_RemoveElement
  <2>3. WgCountsConns'
    BY <2>2 DEF ConnEnds, WgCountsConns, ServerInv
  <2>4. HandedOver'
    BY DEF ConnEnds, HandedOver, ServerInv, ServerTypeOK
  <2>5. CloseWaitsForRunning'
    BY <2>1 DEF ConnEnds, CloseWaitsForRunning, ServerInv
  <2> QED
    BY <2>3, <2>4, <2>5 DEF ServerInv
<1>7. CASE (\E c \in Conns : ClientShakes(c) \/ ClientFades(c)) \/ Terminated \/ UNCHANGED svars
  BY <1>7, ServerFrame DEF ClientShakes, ClientFades, Terminated, svars, ServerTypeOK
<1> QED
  BY <1>1, <1>2, <1>3, <1>4, <1>5, <1>6, <1>7 DEF Next, CloseStep

(* The server's invariant holds in every reachable state, however Serve and  *)
(* Close are called.                                                         *)
THEOREM ServerInvariance == Spec => [](ServerTypeOK /\ ServerInv)
<1>1. Init => ServerTypeOK /\ ServerInv
  BY ServerInit
<1>2. (ServerTypeOK /\ ServerInv) /\ [Next]_svars => (ServerTypeOK /\ ServerInv)'
  BY ServerTypeStep, ServerStep
<1> QED
  BY <1>1, <1>2, PTL DEF Spec

(* The WaitGroup counts exactly the connection goroutines (Serve's wg.Add    *)
(* and the deferred wg.Done).                                                *)
THEOREM WgExact == Spec => []WgCountsConns
<1>1. ServerInv => WgCountsConns
  BY DEF ServerInv
<1> QED
  BY <1>1, ServerInvariance, PTL

(* Close returns only when every connection that was running when it was     *)
(* called has ended.                                                         *)
THEOREM CloseWaits == Spec => []CloseWaitsForRunning
<1>1. ServerInv => CloseWaitsForRunning
  BY DEF ServerInv
<1> QED
  BY <1>1, ServerInvariance, PTL

------------------------------------------------------------------------------
(* A server as it is meant to be used: one listener, stored before Close.    *)

\* What the documentation of Serve and Close has in mind.
OneListener == Disciplined /\ \A l, m \in Listeners : l = m

\* From the first Close on every Serve has stored its listener; once a Close has
\* come to wait, no listener is open.
ShutDown ==
    /\ \A l \in Listeners : serve[l] \notin {"idle", "entry"} => listener = l
    /\ \A k \in Closers : close[k] # "idle" =>
          \A l \in Listeners : serve[l] \notin {"idle", "entry"}
    /\ \A k \in Closers : close[k] \in {"wait", "returned"} => listening = {}

\* Every step keeps it.
LEMMA ShutDownStep ==
    ASSUME OneListener, ServerTypeOK, ShutDown, [Next]_svars
    PROVE  ShutDown'
<1> USE DEF serveVars, connVars, ServerTypeOK
<1>1. CASE \E l \in Listeners : CallServe(l)
  BY <1>1 DEF CallServe, ShutDown, OneListener
<1>2. CASE \E l \in Listeners : EmbedderClosesListener(l)
  BY <1>2 DEF EmbedderClosesListener, ShutDown
<1>3. CASE \E l \in Listeners : ServeStep(l)
  <2> PICK l \in Listeners : ServeStep(l)
    BY <1>3
  <2>1. CASE StoreListener(l)
    BY <2>1 DEF StoreListener, ShutDown, OneListener
  <2>2. CASE Accept(l) \/ AcceptFails(l) \/ AcceptError(l) \/ BackoffEnds(l) \/ Spawn(l)
    <3>1. UNCHANGED <<listening, listener, close>>
      BY <2>2 DEF Accept, AcceptFails, AcceptError, BackoffEnds, Spawn
    <3>2. /\ serve[l] \notin {"idle", "entry"} /\ serve'[l] \notin {"idle", "entry"}
          /\ \A m \in Listeners : m # l => serve'[m] = serve[m]
      BY <2>2 DEF Accept, AcceptFails, AcceptError, BackoffEnds, Spawn
    <3> QED
      BY <3>1, <3>2 DEF ShutDown
  <2> QED
    BY <2>1, <2>2 DEF ServeStep
<1>4. CASE \E k \in Closers : CallClose(k)
  BY <1>4 DEF CallClose, ShutDown, OneListener
<1>5. CASE \E k \in Closers : CheckListener(k)
  <2> PICK k \in Closers : CheckListener(k)
    BY <1>5
  <2>1. \A l \in Listeners : listener = l
    BY DEF CheckListener, ShutDown
  <2>2. Listeners # {} => close'[k] = "listener"
    BY <2>1, ServerAssumption DEF CheckListener
  <2>3. Listeners = {} => listening = {}
    OBVIOUS
  <2> QED
    BY <2>2, <2>3 DEF CheckListener, ShutDown
<1>6. CASE \E k \in Closers : CloseListener(k)
  <2> PICK k \in Closers : CloseListener(k)
    BY <1>6
  <2>1. \A l \in Listeners : listener = l
    BY DEF CloseListener, ShutDown
  <2>2. listening' = {}
    BY <2>1 DEF CloseListener
  <2> QED
    BY <2>2 DEF CloseListener, ShutDown
<1>7. CASE \E k \in Closers : CloseReturns(k)
  BY <1>7 DEF CloseReturns, ShutDown
<1>8. CASE \/ \E c \in Conns : ConnEnds(c) \/ ClientShakes(c) \/ ClientFades(c)
           \/ Terminated \/ UNCHANGED svars
  BY <1>8 DEF ConnEnds, ClientShakes, ClientFades, Terminated, svars, ShutDown
<1> QED
  BY <1>1, <1>2, <1>3, <1>4, <1>5, <1>6, <1>7, <1>8 DEF Next, CloseStep

(* With one listener, and Close called only once Serve has stored it, no     *)
(* connection is accepted after a Close has returned, whatever the embedder  *)
(* and the accept loop are doing.  With two, Server.Close knows only the one *)
(* stored last and the other goes on accepting.                              *)
THEOREM NothingAccepted ==
    ASSUME OneListener
    PROVE  Spec => NoAcceptAfterClose
<1>1. Init => ShutDown
  BY DEF Init, ShutDown
<1>2. ServerTypeOK /\ ShutDown /\ [Next]_svars => ShutDown'
  BY ShutDownStep
<1>3. ServerTypeOK /\ ServerInv /\ ShutDown /\ [Next]_svars =>
        [(\E k \in Closers : close[k] = "returned") =>
           \A c \in Conns : conn[c] = "none" => conn'[c] = "none"]_svars
  <2> SUFFICES ASSUME ServerTypeOK, ServerInv, ShutDown, Next,
                      NEW k \in Closers, close[k] = "returned",
                      NEW c \in Conns, conn[c] = "none"
               PROVE  conn'[c] = "none"
    BY DEF svars
  <2> USE DEF serveVars, connVars, ServerTypeOK
  <2>1. listening = {}
    BY DEF ShutDown
  <2>2. CASE \E l \in Listeners : Spawn(l)
    <3> PICK l \in Listeners : Spawn(l)
      BY <2>2
    <3>1. conn[accepted[l]] = "accepted"
      BY DEF Spawn, ServerInv, HandedOver
    <3> QED
      BY <3>1 DEF Spawn
  <2>3. CASE \E m \in Conns : ConnEnds(m)
    BY <2>3 DEF ConnEnds
  <2>4. CASE UNCHANGED conn
    BY <2>4
  <2>5. ASSUME NEW l \in Listeners, CallServe(l) \/ ServeStep(l) \/ EmbedderClosesListener(l)
        PROVE  UNCHANGED conn \/ Spawn(l)
    BY <2>1, <2>5 DEF CallServe, ServeStep, EmbedderClosesListener, StoreListener, Accept,
       AcceptFails, AcceptError, BackoffEnds
  <2>6. ASSUME NEW j \in Closers, CallClose(j) \/ CloseStep(j)
        PROVE  UNCHANGED conn
    BY <2>6 DEF CallClose, CloseStep, CheckListener, CloseListener, CloseReturns
  <2>7. ASSUME NEW m \in Conns, ClientShakes(m) \/ ClientFades(m)
        PROVE  UNCHANGED conn
    BY <2>7 DEF ClientShakes, ClientFades
  <2>8. ASSUME Terminated
        PROVE  UNCHANGED conn
    BY <2>8 DEF Terminated, svars
  <2> QED
    BY <2>2, <2>3, <2>4, <2>5, <2>6, <2>7, <2>8 DEF Next
<1> QED
  BY <1>1, <1>2, <1>3, ServerInvariance, PTL DEF Spec, NoAcceptAfterClose
=============================================================================
