------------------------------- MODULE Server -------------------------------
(***************************************************************************)
(* Server (pop3server/server.go): one Serve call per listener, each with   *)
(* its accept loop, one goroutine per connection counted in wg, and calls  *)
(* of Close.  s.listener is an ordinary field, so its reads and writes are *)
(* steps of their own.                                                     *)
(*                                                                         *)
(* serve[l] is where the Serve call on listener l is:                      *)
(*   "idle" not called, "entry" about to store s.listener, "accept" in     *)
(*   Accept, "failed" Accept returned an error, "backoff" in the sleep,    *)
(*   "spawn" Accept returned accepted[l], "returned"                       *)
(* close[k] is where the k-th call of Close is:                            *)
(*   "idle", "check" (s.cancel done, about to test s.listener), "listener" *)
(*   (about to close it), "wait" in wg.Wait, "returned"                    *)
(*                                                                         *)
(* What a connection does is module Conn.  Here it is "none", "accepted",  *)
(* "running" in its goroutine or "done".  A cancelled context interrupts   *)
(* no command read, so its end depends on its client and its timers alone. *)
(* client[c] is what the timers go by: "dialled" has yet to do the TLS     *)
(* handshake, "active" goes on sending commands, "quiet" sends no more or  *)
(* is gone, and "mute" sends nothing although its handshake is to come.    *)
(***************************************************************************)
EXTENDS Integers, FiniteSets

CONSTANTS
    Listeners,    \* a Serve call for each
    Closers,      \* calls of Close
    Conns,        \* bound: the connections the clients open
    Nil,          \* no listener, no connection
    Disciplined   \* the embedder calls Close only after every Serve stored its listener

ASSUME ServerAssumption ==
    /\ IsFiniteSet(Conns)
    /\ Nil \notin Listeners \cup Conns
    /\ Disciplined \in BOOLEAN

VARIABLES
    serve, accepted,
    backoff,      \* in milliseconds
    listening,    \* the listeners that are open
    listener,     \* Server.listener
    cancelled,    \* Server.ctx is done
    close,
    owed,         \* history: the connections running when a Close was called
    conn,
    client,
    wg            \* the counter of Server.wg

serveVars == <<serve, accepted, backoff>>
connVars  == <<conn, client>>

svars == <<serveVars, listening, listener, cancelled, close, owed, connVars, wg>>

------------------------------------------------------------------------------
(* Serve.                                                                    *)

CallServe(l) ==
    /\ serve[l] = "idle"
    /\ serve' = [serve EXCEPT ![l] = "entry"]
    /\ listening' = listening \cup {l}
    /\ UNCHANGED <<accepted, backoff, listener, cancelled, close, owed, connVars, wg>>

\* s.listener = ln
StoreListener(l) ==
    /\ serve[l] = "entry"
    /\ listener' = l
    /\ serve' = [serve EXCEPT ![l] = "accept"]
    /\ UNCHANGED <<accepted, backoff, listening, cancelled, close, owed, connVars, wg>>

\* ln.Accept returns a connection, of a TLS listener or not, and the back-off
\* starts afresh.
Accept(l) ==
    /\ serve[l] = "accept"
    /\ l \in listening
    /\ \E c \in Conns :
          /\ conn[c] = "none"
          /\ conn' = [conn EXCEPT ![c] = "accepted"]
          /\ accepted' = [accepted EXCEPT ![l] = c]
          /\ \E m \in {"dialled", "active"} : client' = [client EXCEPT ![c] = m]
    /\ serve' = [serve EXCEPT ![l] = "spawn"]
    /\ backoff' = [backoff EXCEPT ![l] = 0]
    /\ UNCHANGED <<listening, listener, cancelled, close, owed, wg>>

\* ln.Accept fails: at once if the listener is closed, now and then if not.
AcceptFails(l) ==
    /\ serve[l] = "accept"
    /\ serve' = [serve EXCEPT ![l] = "failed"]
    /\ UNCHANGED <<accepted, backoff, listening, listener, cancelled, close, owed,
                   connVars, wg>>

maxBackoff == 1000

\* Mutant: the delay is not capped.
nextBackoffUncapped(b) == IF b = 0 THEN 5 ELSE b * 2

\* The next delay: 5ms doubled up to maxBackoff.
nextBackoff(b) ==
    LET d == IF b = 0 THEN 5 ELSE b * 2
    IN  IF d > maxBackoff THEN maxBackoff ELSE d

\* Mutant: s.ctx is not looked at.
AcceptErrorRetries(l) ==
    /\ serve[l] = "failed"
    /\ serve' = [serve EXCEPT ![l] = "backoff"]
    /\ backoff' = [backoff EXCEPT ![l] = nextBackoff(backoff[l])]
    /\ UNCHANGED <<accepted, listening, listener, cancelled, close, owed, connVars, wg>>

\* The first look at s.ctx after an error.
AcceptError(l) ==
    /\ serve[l] = "failed"
    /\ IF cancelled
       THEN /\ serve' = [serve EXCEPT ![l] = "returned"]
            /\ UNCHANGED backoff
       ELSE /\ serve' = [serve EXCEPT ![l] = "backoff"]
            /\ backoff' = [backoff EXCEPT ![l] = nextBackoff(backoff[l])]
    /\ UNCHANGED <<accepted, listening, listener, cancelled, close, owed, connVars, wg>>

\* The select: the timer fires, or s.ctx is done; either may win.
BackoffEnds(l) ==
    /\ serve[l] = "backoff"
    /\ \/ serve' = [serve EXCEPT ![l] = "accept"]
       \/ cancelled /\ serve' = [serve EXCEPT ![l] = "returned"]
    /\ UNCHANGED <<accepted, backoff, listening, listener, cancelled, close, owed,
                   connVars, wg>>

\* s.wg.Add(1) and the go statement.
Spawn(l) ==
    /\ serve[l] = "spawn"
    /\ wg' = wg + 1
    /\ conn' = [conn EXCEPT ![accepted[l]] = "running"]
    /\ accepted' = [accepted EXCEPT ![l] = Nil]
    /\ serve' = [serve EXCEPT ![l] = "accept"]
    /\ UNCHANGED <<backoff, listening, listener, cancelled, close, owed, client>>

\* Mutant: wg.Done is not deferred and a panic skips it.
ConnEndsUncounted(c) ==
    /\ conn[c] = "running"
    /\ conn' = [conn EXCEPT ![c] = "done"]
    /\ wg' \in {wg - 1, wg}
    /\ UNCHANGED <<serveVars, listening, listener, cancelled, close, owed, client>>

\* handleConn returns, or panics and recoverConn ends the panic; wg.Done is
\* deferred before either.
ConnEnds(c) ==
    /\ conn[c] = "running"
    /\ conn' = [conn EXCEPT ![c] = "done"]
    /\ wg' = wg - 1
    /\ UNCHANGED <<serveVars, listening, listener, cancelled, close, owed, client>>

------------------------------------------------------------------------------
(* Close.                                                                    *)

CallClose(k) ==
    /\ close[k] = "idle"
    /\ Disciplined => \A l \in Listeners : serve[l] \notin {"idle", "entry"}
    /\ cancelled' = TRUE
    /\ owed' = [owed EXCEPT ![k] = {c \in Conns : conn[c] = "running"}]
    /\ close' = [close EXCEPT ![k] = "check"]
    /\ UNCHANGED <<serveVars, listening, listener, connVars, wg>>

CheckListener(k) ==
    /\ close[k] = "check"
    /\ close' = [close EXCEPT ![k] = IF listener # Nil THEN "listener" ELSE "wait"]
    /\ UNCHANGED <<serveVars, listening, listener, cancelled, owed, connVars, wg>>

\* Mutant: Close only cancels.
CloseListenerSkipped(k) ==
    /\ close[k] = "listener"
    /\ close' = [close EXCEPT ![k] = "wait"]
    /\ UNCHANGED <<serveVars, listening, listener, cancelled, owed, connVars, wg>>

CloseListener(k) ==
    /\ close[k] = "listener"
    /\ listening' = listening \ {listener}
    /\ close' = [close EXCEPT ![k] = "wait"]
    /\ UNCHANGED <<serveVars, listener, cancelled, owed, connVars, wg>>

\* Mutant: Close does not wait.
CloseReturnsAtOnce(k) ==
    /\ close[k] = "wait"
    /\ close' = [close EXCEPT ![k] = "returned"]
    /\ UNCHANGED <<serveVars, listening, listener, cancelled, owed, connVars, wg>>

\* wg.Wait is one look at the counter.  That Add may not race it at zero is a rule of
\* the WaitGroup's own; a connection the race lets it miss is not in owed.
CloseReturns(k) ==
    /\ close[k] = "wait"
    /\ wg = 0
    /\ close' = [close EXCEPT ![k] = "returned"]
    /\ UNCHANGED <<serveVars, listening, listener, cancelled, owed, connVars, wg>>

------------------------------------------------------------------------------
(* The embedder and the clients.                                             *)

\* The embedder owns the listener it passes to Serve and may close it.
EmbedderClosesListener(l) ==
    /\ l \in listening
    /\ listening' = listening \ {l}
    /\ UNCHANGED <<serveVars, listener, cancelled, close, owed, connVars, wg>>

\* The handshake of an implicit-TLS connection (Conn!LazyHandshake).
ClientShakes(c) ==
    /\ conn[c] = "running" /\ client[c] = "dialled"
    /\ client' = [client EXCEPT ![c] = "active"]
    /\ UNCHANGED <<serveVars, listening, listener, cancelled, close, owed, conn, wg>>

\* A client falls silent or goes away (Conn!ClientFades).
ClientFades(c) ==
    /\ conn[c] \in {"accepted", "running"}
    /\ \/ client[c] = "active" /\ client' = [client EXCEPT ![c] = "quiet"]
       \/ /\ client[c] = "dialled"
          /\ \E m \in {"mute", "quiet"} : client' = [client EXCEPT ![c] = m]
       \/ client[c] = "mute" /\ client' = [client EXCEPT ![c] = "quiet"]
    /\ UNCHANGED <<serveVars, listening, listener, cancelled, close, owed, conn, wg>>

------------------------------------------------------------------------------

Init ==
    /\ serve = [l \in Listeners |-> "idle"]
    /\ accepted = [l \in Listeners |-> Nil]
    /\ backoff = [l \in Listeners |-> 0]
    /\ listening = {}
    /\ listener = Nil
    /\ cancelled = FALSE
    /\ close = [k \in Closers |-> "idle"]
    /\ owed = [k \in Closers |-> {}]
    /\ conn = [c \in Conns |-> "none"]
    /\ client = [c \in Conns |-> "dialled"]
    /\ wg = 0

ServeStep(l) ==
    \/ StoreListener(l) \/ Accept(l) \/ AcceptFails(l) \/ AcceptError(l)
    \/ BackoffEnds(l) \/ Spawn(l)

CloseStep(k) == CheckListener(k) \/ CloseListener(k) \/ CloseReturns(k)

\* Everything has ended and no client has anything left to do.
Terminated ==
    /\ \A l \in Listeners : serve[l] = "returned"
    /\ \A k \in Closers : close[k] = "returned"
    /\ \A c \in Conns : conn[c] \in {"none", "done"}
    /\ UNCHANGED svars

Next ==
    \/ \E l \in Listeners : CallServe(l) \/ ServeStep(l) \/ EmbedderClosesListener(l)
    \/ \E k \in Closers : CallClose(k) \/ CloseStep(k)
    \/ \E c \in Conns : ConnEnds(c) \/ ClientShakes(c) \/ ClientFades(c)
    \/ Terminated

Spec == Init /\ [][Next]_svars

\* Go runs a runnable goroutine and a sleep ends.  Accept on an open listener may
\* block for ever, and so may a connection whose client goes on sending, or sends
\* nothing where implicit TLS waits for its ClientHello; one with a quiet client is
\* let go by its idle timer or by the end of its connection
\* (Conn!AbandonedConnEnds).
mustServe(l) ==
    \/ StoreListener(l) \/ AcceptError(l) \/ BackoffEnds(l) \/ Spawn(l)
    \/ l \notin listening /\ AcceptFails(l)

FairSpec ==
    /\ Spec
    /\ \A l \in Listeners : WF_svars(mustServe(l))
    /\ \A k \in Closers : WF_svars(CloseStep(k))
    /\ \A c \in Conns : WF_svars(client[c] = "quiet" /\ ConnEnds(c))

------------------------------------------------------------------------------
(* Properties.                                                               *)

(* Every variable of the server keeps its type; the back-off is one of the   *)
(* delays Serve can compute.                                                 *)
ServerTypeOK ==
    /\ serve \in [Listeners -> {"idle", "entry", "accept", "failed", "backoff",
                                "spawn", "returned"}]
    /\ accepted \in [Listeners -> Conns \cup {Nil}]
    /\ backoff \in [Listeners -> 0..maxBackoff]
    /\ listening \subseteq Listeners
    /\ listener \in Listeners \cup {Nil}
    /\ cancelled \in BOOLEAN
    /\ close \in [Closers -> {"idle", "check", "listener", "wait", "returned"}]
    /\ owed \in [Closers -> SUBSET Conns]
    /\ conn \in [Conns -> {"none", "accepted", "running", "done"}]
    /\ client \in [Conns -> {"dialled", "active", "quiet", "mute"}]
    /\ wg \in Int

running == {c \in Conns : conn[c] = "running"}

(* Server.wg counts exactly the connection goroutines: a negative counter    *)
(* would panic, one too high would block Close for ever.                     *)
WgCountsConns == wg = Cardinality(running)

(* Close returns only after every connection that was running when it was    *)
(* called has ended, however many calls of Close there are.                  *)
CloseWaitsForRunning ==
    \A k \in Closers : close[k] = "returned" => owed[k] \cap running = {}

(* Serve blocks until "the server is shut down via Close": it then returns,  *)
(* from Accept, from its back-off or with a connection just accepted, also   *)
(* when the embedder closes the listener as well.                            *)
CloseEndsServe ==
    \A l \in Listeners : (cancelled /\ serve[l] # "idle") ~> (serve[l] = "returned")

\* A connection that Accept has returned is held by one Serve call, which has not
\* started its goroutine; one that a Close owes is past that point.
HandedOver ==
    /\ \A l \in Listeners : serve[l] = "spawn" =>
          accepted[l] \in Conns /\ conn[accepted[l]] = "accepted"
    /\ \A l, m \in Listeners : l # m /\ serve[l] = "spawn" /\ serve[m] = "spawn" =>
          accepted[l] # accepted[m]
    /\ \A k \in Closers : \A c \in owed[k] : conn[c] \in {"running", "done"}

(* The inductive invariant of the server: the WaitGroup, the connections in  *)
(* the hands of an accept loop and those a Close waits for.                  *)
ServerInv == WgCountsConns /\ HandedOver /\ CloseWaitsForRunning

(* Once no listener is open, Close returns when every client has gone quiet  *)
(* past its handshake, is gone or has been let go.                           *)
CloseTerminates ==
    \A k \in Closers :
       (/\ close[k] # "idle" /\ listening = {}
        /\ \A c \in Conns : client[c] = "quiet" \/ conn[c] \in {"none", "done"})
       ~> (close[k] = "returned")

(* No connection is accepted after a Close has returned.                     *)
NoAcceptAfterClose ==
    [][(\E k \in Closers : close[k] = "returned") =>
         \A c \in Conns : conn[c] = "none" => conn'[c] = "none"]_svars
=============================================================================
