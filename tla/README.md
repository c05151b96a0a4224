# A TLA+ model of go-pop3

go-pop3 is a POP3 server library (`pop3server`), a small client for proxies
(`pop3client`), an in-memory maildrop (`pop3mem`) and shared types (`pop3`).
This directory models the logic of all of them, model-checks it with TLC and
proves every safety property of the passing runs, and that the connection and the
store implement their abstract specifications, with TLAPS.

## Inventory

| Part | State | Operations | Interacts with | Correct when |
| --- | --- | --- | --- | --- |
| `Conn` (conn.go): command loop | protocol state, user name, error count, `isTLS`, `hijacked`, `closePending`, bufio reader and writer, deadlines | greeting, read a line, dispatch, flush, end | client (socket), consumer's `Session` and hooks (callbacks), timers | one response per command; nothing after a broken body; no blocking with unsent output; MaxErrors cannot be bypassed; ends when the client is gone |
| command handlers (conn.go) | as above | USER, PASS, AUTH, STLS, STAT ... QUIT, CAPA, LANG, UTF8, unknown | `Session` methods, `UnknownCommandHandler` | credentials only where allowed; STLS loses and keeps nothing; Session called in its state only |
| lines and arguments (conn.go) | bufio.Reader, pieces of a line | readLine, splitCommand, parseInt, decodeSASLPlain, splitNull, containsCTL | command loop, handlers | the loop gets the lines that were sent, the Session the values that were meant |
| capabilities (conn.go, options.go) | what a client fetched earlier | CAPA, Caps, SuppressedCaps | handlers, client | what CAPA promised is accepted when the client makes use of it |
| session errors (conn.go, errors.go, server.go) | none | sessionError, wireMessage, rejection of a connection | `Session`, `NewSession`, client | one line, no internal text, the right end |
| `Session` contract (session.go, errors.go) | phase, method in progress | the `Session` methods | called by `Conn` | methods never overlap, Quit last, Close exactly once |
| `Options` (options.go) | configuration | `defaults` | read by all | zero means default, negative means off |
| `Server` (server.go) | listener, WaitGroup, context | New, Serve, Close, ServeConn, recoverConn | accept loops, connection goroutines, embedder | Close ends every Serve and waits for every connection; no panic escapes |
| `dotStuffWriter` (dotstuff.go), `SizedBody` (body.go) | at line start, last byte | Write, Close | `Conn` streams RETR/TOP through it | output un-stuffs to the CRLF-normalised input, whatever the chunks |
| `pop3mem.Store` (store.go) | users, messages; per session a snapshot and deletion marks | AddUser, AddMessage, Login, Dele, Rset, Quit ... | sessions share one store under a mutex | expunge removes what was marked, once, and nothing else; a number keeps its meaning |
| `pop3client` (client.go, commands.go) | connection, reader, deadlines, guard goroutines | Dial, STLS, commands, body reader, Close | upstream server, contexts of the caller | responses stay in step; a done context ends the operation and nothing else; no goroutine is left |
| `pop3` (pop3.go) | none | none | | |

The hard behaviours: callbacks that fail, panic or take the connection away in
the middle of a command; input pipelined across the STLS upgrade; deadlines
armed and cleared around inner reads; a TLS handshake hidden in the first write;
write errors that bufio remembers; calls
of Serve and Close that overlap; a guard goroutine that races the operation it
guards for the deadline of the connection; bodies that break off anywhere;
sessions that work on a snapshot of a maildrop others change. `PROJECT.json`
lists them under `hazards`, each at its line.

## Modules

| Module | What it is |
| --- | --- |
| `Conn` | one connection: its goroutine, the consumer's callbacks, the client, the clock; its properties |
| `SessionContract` | abstract specification: what a `Session` may rely on |
| `MCConn` | option sets for TLC |
| `ConnProofs` | inductive invariant and safety theorems of `Conn`, refinement of `SessionContract` |
| `Server` | accept loops, connection goroutines, WaitGroup, Close; its properties |
| `ServerProofs` | inductive invariant and safety theorems of `Server` |
| `Mailbox` | abstract specification: what a maildrop promises |
| `Maildrop`, `MCMaildrop` | the in-memory store with its sessions; symmetry for TLC |
| `MaildropProofs` | inductive invariant and safety theorems of `Maildrop`, refinement of `Mailbox` |
| `Client` | the client: operations, guard goroutines, contexts, deadlines, the server it talks to |
| `ClientProofs` | inductive invariants and safety theorems of `Client` |
| `Transfer`, `MCTransfer` | a body from the Session's reader through `dotStuffWriter` and the connection to the caller of the client |
| `TopLines` | `topBytes` and what TOP should return; used by `Transfer` |
| `TransferProofs` | inductive invariant and safety theorems of `Transfer`, `topBytes` against its reference |
| `LineReader` | `readLine` over bufio.Reader |
| `ParseInt`, `Credentials`, `SessionErrors` | operators: numbers, credentials, error responses |
| `Conversions` | one call of one of these operators with every argument (`CallSpec`) |
| `MCRequests` | `LineReader`, `Conversions` and `Capabilities` side by side for TLC |
| `RequestsProofs` | inductive invariant and safety theorems of `LineReader`, `Conversions` against its references |
| `Capabilities` | CAPA against what is accepted later |
| `CapabilitiesProofs` | inductive invariant and theorems of `Capabilities` |
| `Induction` | induction over the naturals and loops over sequences, for the proofs |

Composition: `Conn` takes from `LineReader` that lines arrive, from `Server` that
its goroutine is started, and promises `SessionContract`; `Maildrop` is a Session
that is called as that contract says; `Transfer` puts `dotStuffWriter`, the
store's TOP and the client's body reader together.

Definitions named in comments as mutants are plausible wrong versions of the
definition after them. No specification uses them; substituted for the right
one they make a property fail, which shows that the property depends on it.

### Conn

`pc` is where the goroutine is. A step runs from one point where it can block or
enter consumer code to the next: a command line is taken from the reader and
dispatched up to the first call of a `Session` method or the end of the handler
(`CommandStep` with `dispatchAuth`, `dispatchTransaction` and the `handle...`
operators); the method's return finishes the handler (`LoginSucceeds`,
`LoginFails`, `MethodSucceeds`, ...); `Post` is the part of `serve` after
dispatch; `FlushOK` and `FlushError` are `writer.Flush`, with `after` saying
what follows. `Panic`, `CallClose`, `CloseReturns` and `recoverConn` follow the
order of the deferred calls.

Abstractions of data:

- A client sends *items*: a line in the clear, a line under TLS, a TLS
  ClientHello. What a line says is chosen when it is read. A line arrives whole;
  one socket read may bring several into the bufio.Reader, which is what makes
  pipelining behind STLS visible. (`LineReader` shows what becomes of a line cut
  by a timeout: it is executed as a shorter line, which here is one more line of
  the same client.)
- Arguments are the classes handlers distinguish (missing, refused, valid; for
  AUTH also continuation, abort, undecodable). How text falls into them is in
  `ParseInt` and `Credentials`; texts of errors are in `SessionErrors`.
- A response is counted when it is complete. Large responses that bufio writes
  out before the flush are not distinguished from buffered ones.
- An implicit-TLS connection starts with `pendingTLS`. Go does its handshake in the
  first write, which is the greeting's (or the banner of a rejection): until the
  client's part of it arrives (`LazyHandshake`) the flush neither succeeds nor, while
  the client only stays silent, fails (`lazyHandshakeFails`), since no read deadline
  is armed before the first command is read. STLS has its handshake, and a timer for
  it, in `Handshake`, `HandshakeError`, `HandshakeTimeout` and `HandshakeCancelled`
  (Server.Close cancels the context it runs under).
- The user name is remembered by the way it was sent, in the clear or under TLS.
- Durations are numbers only in the options and the error delay. A deadline is
  the set of timers that may fire (`nextReadDeadline`); `absExpired` says that
  AbsoluteSessionTimeout has passed and `past` that a deadline was over when it
  was armed, so that the read fails without reading.
- `UnknownCommandHandler` is taken to write one response when it handles a
  command, as its documentation asks, and `Hijack` to be called from Login and
  AuthenticatePlain only, as its documentation asks.

### SessionContract

Two variables, the phase and the method in progress. `Conn` maps to it by
`sessionPhase` and `sessionBusy`.

### Server

Serve and Close are cut where another goroutine can see a difference: storing
`s.listener`, Accept, the look at `s.ctx`, the back-off, `wg.Add` with the go
statement; and in Close cancel, the test of `s.listener`, closing it, `wg.Wait`.
A connection runs until its client leaves or a timer fires: that a cancelled
context does not interrupt it is read off `Conn.serve`, which never looks at it.
`owed` is a history variable: the connections that ran when Close was called.
A client is "dialled" until its implicit-TLS handshake is done (`ClientShakes`) and
"mute" when it will never do it; `ClientFades` makes any client quiet or mute.
`wg.Wait` is one look at the counter: that `Add` may not race it at zero is a rule of
the WaitGroup itself, of which only the effect on connections is modelled.

### Maildrop and Mailbox

Every method of the store runs under its mutex and is one step; a session's own
state belongs to its goroutine. A message is identified by its arrival, as the
code does by its pointer; sizes, unique-ids and contents are copied along with it
and left out. `ListAll` stands for STAT, LIST and UIDL without argument, `Query`
for everything that goes through `msgAt`. History variables record what clients
were shown, what each Quit removed and what went with a replaced account.
`Mailbox` knows only sets: `ImplementsMailbox` maps lists to their sets and
marked numbers to the messages `removals` finds for them.

### Client

One goroutine of the caller, a guard goroutine per operation, the server's
output and the clock. A step is what one goroutine does between two accesses to
the connection's deadlines: arming a deadline (`ArmWrite`, `ArmRead`), the write
or read it is for, stopping the guard (`Stop`), the guard's `SetDeadline`
(`GuardFires`). A guard that finds both its context and its operation done takes
either branch of its select (`GuardEnds`), as Go does.
Commands are taken by the kind of their response (status line, lines, streamed
body, and the two commands of `User`); lines carry the operation they answer,
whether they are a status, text or the terminator, and whether they came under
TLS. `Modes` are the ways Dial connects, `Split` lets a read find half a line,
`CancelWhen` says when the caller cancels. The caller keeps to the
documentation: it reads or closes a body before the next command, and gives a
Client up after a cancellation or a failure that is no ProtocolError (a response
over MaxResponseLines among them: `MultiLine` ends there, while the code leaves the
Client open with lines unread). A context may also be cancelled when its operation
has completed, which ends nothing and is no misuse. A half line may be any line:
`isOK` and `isDot` leave open what its octets make of it. The server
answers in order but may refuse anything, stop or close at any point, and send
plaintext behind its answer to STLS.

### Transfer and TopLines

Octets are CR, LF, the dot and one other, which is what `dotStuffWriter` and
`bodyReader` tell apart. The Session's reader gives chunks of any size up to
`MaxChunk` and may fail; the writer's output is delivered octet by octet, so the
connection may break between any two. `stage` says how the server's side ended:
"sent" with the terminator, "aborted" when the reader failed and the server
dropped the connection, "broken" when a write failed. A line longer than the client's
MaxLineLength ends its read like a failed connection and is not told apart from it.

### Requests: LineReader, ParseInt, Credentials, SessionErrors

`LineReader` follows bufio's `ReadLine` and the loop around it octet by octet,
for a buffer of `BufSize`. The other three are functions, called once each by
`Conversions`. Widths are scaled: `MaxVal` stands for 2^31 - 1 and `MaxInt` for
the platform's int. An error is the sequence of what `errors.Is` and `errors.As`
meet when they unwrap it; a text is a sequence of pieces by origin. A credential is
a sequence of characters by what the text functions tell apart: space and tab, other
white space that `strings.TrimSpace` and `strings.Fields` take away (ASCII and not),
NUL, other control characters.

### Capabilities

The options and optional interfaces CAPA depends on are fixed at the start; the
client fetches the list at any time, logs in, starts TLS and issues commands. A
command is refused here when the library itself refuses it. Of the SASL line only
PLAIN is a promise (`promised`): a Session that names another mechanism has it
advertised (conn.go:442) and refused (conn.go:549), as session.go:123 says.

## Runs

| Run | Checks | Result |
| --- | --- | --- |
| `conn` | every property of `Conn` but the two below, and the refinement; four option sets, panics, two items in flight, two errors | holds, 915 thousand states |
| `conn_implicit_tls` | `NoConnHeldForEver` | violated: a client of `ListenAndServeTLS` that sends no ClientHello is held for ever, past every timer |
| `conn_timeout_unreported` | `TimeoutReported` | violated: OnTimeout is not told of the timers inside AUTH and STLS |
| `server_disciplined` | the properties of `Server`; one listener, two Close calls, two connections | holds, 395 thousand states |
| `server_two_listeners` | `CloseEndsServe` with two Serve calls | violated: Close knows only the listener stored last |
| `maildrop` | two users, two sessions, three messages; refinement of `Mailbox` | holds, 1.1 million states |
| `client_safety` | `ClientTypeOK`, `ResponseMatches`, `GuardStoppedOnce`: Dial with STLS and two operations, half lines, cancellation in flight | holds, 4.6 million states |
| `client_contexts` | `DeadlinesExplained`, `ContextEnds`, `GuardsEnd`: Dial with STLS and one operation, contexts with and without a deadline, cancelled in flight or after completion | holds, 447 thousand states |
| `client_stale_deadline` | `NoStaleDeadline` | violated: a deadline set for one context ends an operation of another |
| `transfer` | every body of up to five octets by RETR, every message of up to four lines by TOP | holds, 1.6 million states |
| `transfer_truncated` | `EOFMeansWhole` | violated: a body cut off by the end of the connection ends in io.EOF like a whole one |
| `requests` | every stream of up to seven octets, every argument, credential and error up to a length; CAPA under every combination of the options it looks at | holds, 911 thousand states |

What the violated ones contradict is quoted under `findings` in `PROJECT.json`.

Bounds. `MaxInFlight` = 2 is the smallest number that puts a command behind
STLS, PASS or QUIT; with it a ClientHello can also be on its way when the client
goes away. `ErrorBound` stops the client once that many errors are counted, at
or above every `MaxErrors` of the option sets, so the limit
is reached and, in `Unlimited`, passed over. The option sets switch every
conditional of the loop both ways. In `Server` two connections let one be running
while another is being accepted, and two calls of Close overlap. In `Maildrop`
two sessions over one maildrop of three messages make a number, a place in the
list and a message differ. In `Client` three operations let an answer that was
left behind by the first reach the second or third, and `MaxBody` is one more
than `MaxResponseLines`, so that the limit of `readMultiLine` is passed. In
`Transfer` five octets are enough for a line, a stuffed dot and a line end that is
split by every chunk boundary; four lines in `TopLines` for a header, a separator
and two lines of body. In `LineReader` seven octets exceed `MaxLineLength` (4) by
a line end and more and the buffer (3) twice over. In `ParseInt` four digits go
past `MaxVal` (127) by a digit. The proofs need none of these bounds.

Fairness. `Conn!FairSpec` assumes weak fairness of the goroutine's steps as a
whole: Go runs a runnable goroutine, an armed deadline fires, consumer code
returns (the documentation of Session asks for it through the context). Nothing
is assumed of the client, and where the code arms no deadline no step is enabled
that would end a read; nor is `HandshakeCancelled` ever counted on, since nobody has
to call Close. `AbandonedConnEnds` and `AbsoluteTimeoutEnds` therefore speak of
connections whose handshake is done, or whose client is gone: `conn_implicit_tls`
shows what happens to the others. `Server!FairSpec` assumes that Serve and Close go on where
they can, that Accept on a closed listener fails, and that a connection whose
client is quiet, that is gone or silent past its handshake, ends, which is
`AbandonedConnEnds`; it assumes nothing of Accept on an open listener, of a
connection whose client goes on sending, or of one that never starts its handshake.
`Client!FairSpec` assumes weak fairness of the caller's goroutine inside a call
and of the guard goroutines, each of which has one step to take, and that deadlines
pass; nothing of the
server, of a handshake's success, or of the caller between two calls.

Deadlock is checked in every run; an ended connection, server or client stutters
in a step of its own.

## Disagreements met while modelling

Each violated run checks one statement of the documentation by itself; the passing
runs and the proofs state what the code does keep.

| Shown by | Where | The code | What it contradicts | What holds instead |
| --- | --- | --- | --- | --- |
| `conn_implicit_tls` | conn.go:150 | the implicit-TLS handshake runs in the first write, before any read deadline | options.go:92 | `AbandonedConnEnds`, `AbsoluteTimeoutEnds`, past the handshake |
| `conn_timeout_unreported` | conn.go:575, 651 | timers inside AUTH and STLS are not reported | options.go:201 | `LoopTimeoutReported` |
| `server_two_listeners` | server.go:50 | Server keeps one listener | server.go:36 | `CloseEndsServe`, `NoAcceptAfterClose` with one |
| `client_stale_deadline` | client.go:325 | deadlines are never cleared | client.go:7 | `DeadlinesExplained` |
| `transfer_truncated` | commands.go:198 | the end of the connection is io.EOF | commands.go:127 | `LinesIntact` |

The models contain the following ones too, but no run is kept for them; the last
column is the property that is weakened by as much.

| Where | The code | What it contradicts | What holds instead |
| --- | --- | --- | --- |
| server.go:193 | nothing cancels the context after a panic in NewSession | conn.go:68 | `ConnReleased` excepts the context there |
| server.go:161 | recoverConn closes a connection hijacked before the panic | conn.go:114 | `HijackHandsOver`; `ConnReleased` excepts it |
| server.go:123 | a cancelled context interrupts no connection, so Close waits for as long as one client goes on | server.go:121 | `CloseTerminates` |
| server.go:87 | `wg.Add` comes after Accept, so Close may miss a connection | server.go:121 | `CloseWaitsForRunning` |
| client.go:275 | a guard whose context is cancelled may act when its operation has completed, and end the next one | client.go:259 | `DeadlinesExplained` |
| client.go:325 | a read arms its context's deadline over the one a cancellation forced into the past | client.go:7 | `DeadlinesExplained`, `ContextEnds` |
| client.go:330 | half a line counts as a line when a deadline passes inside it | client.go:261 | `ResponseMatches` without deadlines |
| store.go:285 | the separator of header and body needs a line before it | store.go:284 | `TopExact` excepts a blank line at the beginning, and mixed line ends |
| conn.go:189 | the line is trimmed first, so white space at the end of a password is lost (regression_test.go:36 knows that) | conn.go:41, 1092 | `PassKeepsWhitespace` |
| conn.go:1129 | overflow is looked for after the multiplication | conn.go:1117 | `ParseExact` where int is wider |
| conn.go:1007 | a line cut by the idle timer or the end of the connection is executed | options.go:77 | `LinesExact` excepts it (`halved`) |
| conn.go:971 | an *Error beside ErrCloseConnection decides alone | errors.go:8 | `InternalTextStaysInside` is about the text |

Others are outside the models, or need other constants:

- server.go:125. A Close that overlaps the start of Serve reads a nil
  `s.listener`, closes nothing, and Serve blocks in Accept on a closed server
  (`Disciplined = FALSE`: `CloseEndsServe`, `NoAcceptAfterClose`). server.go:36
  says Serve blocks until "the server is shut down via Close".
- server.go:60. `net.ErrClosed` is retried like a transient error, so a Serve
  whose listener its owner closed never returns. server.go:36: "listener is
  closed".
- conn.go:506. An exempted login failure does not raise `errorCount`, by which
  `applyErrorDelay` multiplies: without other errors the delay is zero.
  options.go:141: "the progressive ErrorDelay still applies".
- dotstuff.go:104. Close completes an unterminated last line with octets that are
  in no count. dotstuff.go:16: "exactly len(body) + count(bare LFs)".
- commands.go:203. A connection that breaks between the two dots of a stuffed line
  makes the client take the first for the terminator. `BodyArrives` and
  `TerminatorIsLast` except a broken connection.
- conn.go:477. `handleUser` keeps the first word of its argument, so the name "a b"
  logs in as "a". `UserIsFirstWord` says so; no document says otherwise.

## Proofs

`ConnProofs` proves, for every set of options and every bound:

- `Invariance`: `ConnInv` (with `TypeOK`) is inductive. Most properties are not:
  that one response has been written when a command is read depends on what has
  been written at every other place (`ResponseOK`); that the loop never reads
  after a broken body depends on `closePending` being set with `open` and on no
  flush returning to the loop with it (`LoopOK`); that no plaintext is left in
  the reader depends on `buf` being empty from the STLS answer to the handshake
  and on the way every item was sent (`AuthOK`, `InputOK`). `CallOK` ties the
  method in progress to the place.
- from it `TypeCorrect`, `ResponsesInStep`, `ErrorsBounded`, `PlaintextForgotten`,
  `CredentialsSafe`, `AnswersAreSent`, and the action properties `UpgradeIsClean`
  and `HijackIsFinal`.
- `NoLeak`, which needs on top of it what `recoverConn` finds: `EndOK`.
- `TimeoutsReported` (of `LoopTimeoutReported`), which needs when a timer that fired
  has not been reported yet: `TimeoutOK`.
- `HandshakeComesFirst`: until its handshake an implicit-TLS connection is in
  NewSession, in its first flush or on its way out (`ShakenOK`). No command, and no
  credential, comes before it.

The lemmas `CommandOutcome` and `ContinuationOutcome` reduce dispatch to the
eight ways a handler can end, so that the proof that a step keeps the invariant
has one case per outcome instead of one per command.

`ContractKept` proves the refinement: initial states map to initial states, and
with `ConnInv` every step maps to a step of the contract or to a stutter.

`ServerProofs` proves `ServerInvariance` for any number of listeners, connections
and Close calls, disciplined or not: the WaitGroup equals the number of running
goroutines, which needs that two accept loops never hold the same connection
and that a connection is counted once (`HandedOver`). `WgExact` and `CloseWaits`
follow. `NothingAccepted` has the hypothesis `OneListener`: one listener, stored
before Close is called, which is how the documentation of Serve and Close means
a server to be used and what `server_disciplined` runs; `server_two_listeners`
shows that a second listener goes on accepting. It rests on `ShutDown`: from the
first Close on every Serve has stored its listener, and no listener is open once
a Close waits.

`CapabilitiesProofs` proves `ListInvariance`: each name on the list a client holds
was backed, when it was fetched, by conditions that no later command takes away.
`InvitationsAllowed` and `PromisesKept` follow, for every set of options,
interfaces and mechanisms.

`MaildropProofs` proves, for any number of users, sessions and messages,
`Invariance` of `MaildropInv` and from it `MaildropTyped`, `NumbersStable` and
`MessagesAccounted`. That numbers keep their meaning needs that a snapshot never
changes after the login (`SessionOK`). The accounting is not inductive as a sum
of cardinalities: the invariant says that lists, removed and wiped messages
cover everything that arrived (`Somewhere`) and do not meet (`Apart`), and that
a session which outlived its account holds no message of the new one
(`StaleOK`); the sums follow. What the loop of `expunge` leaves (`WithoutKeeps`) is
proved by induction over the list. `MailboxImplemented` proves the refinement.

`TransferProofs` proves, for bodies and chunks of any length, `Invariance` of
`TransferInv` and from it `TransferTyped`, `BodyArrived`, `TerminatorLast` and
`LinesStayIntact`. The invariant has one part per stage of the transfer. While
the body is copied (`CopyOK`) what the client has accepted, with the line under
way un-stuffed, is the normalised form of what the writer has been given, and
that line is one `dotStuffWriter` can have written (`wireLine`): a dot at its
start has another behind it, so it is never the terminator. `ClosingOK` follows
the last line end and the terminator octet by octet; `DroppedOK` says what is left
when the connection breaks. `TopExactly` adds that `topBytes` is its reference
definition, for messages of any length (`TopIsReference`, with an induction over
the lines of the body in `TopLoop`).

`ClientProofs` proves, for any number of operations, answers of any length and
every way to connect:

- `ClientTyped` and `GuardsStoppedOnce`, without further hypothesis. They need
  where the goroutine is and for which operation (`ControlOK`) and which stop
  functions have been called (`StopsOK`): the body reader has its stop function
  exactly while it is not done, and startTLS stops the guard of its command
  before the handshake's own is armed.
- `DeadlinesHold`, without further hypothesis: contexts of every kind, cancelled at
  any time. `DeadlinesExplained` is not inductive, since a guard may fire when its
  operation is long over. `OriginOK` says where each deadline that is in force comes
  from: the context of the operation, of an earlier one, or a guard whose context is
  done; the lemma `OriginStep` that no step puts another one there.
- `ResponsesMatch`, when no read finds half a line, or under `NoDeadlines`: contexts
  have no deadline of their own and are cancelled in flight only, so that a read
  which breaks off inside a line is the last (`DeadlineOK`). Its invariant `StreamOK` takes the lines in the reader, on the wire and not sent yet
  as one stream: between operations it is empty; inside one it is the rest of the
  answer, in which the line that completes it is the last and the halves of a line
  follow each other; or nothing will be read any more (`stuck`). Without the
  hypothesis the statement is false: client.go:330 above.

The hypothesis holds of `client_safety`. `client_contexts` is over STLS only, to keep
the run short; `Modes` is a parameter of the proofs. These proofs also showed that the arms of
a CASE in `Client!Status` overlapped, so that TLC's choice of one and the meaning of
the formula could differ; the definition was corrected.

`RequestsProofs` proves what the library makes of octets, numbers, credentials and
errors, for inputs of any length:

- `ReaderTyped`: `readLine` never keeps more than `MaxLineLength` octets of a line
  and one buffer.
- `LinesKept`: `LinesExact` for every stream and every size of the buffer and of the
  limit. It is not inductive: it says nothing of a line that is under way. The
  invariant `ReaderInv` says that the lines returned end at some LF of the stream
  and that the pieces taken from the buffer since, followed by what is in the
  buffer, are what the client sent after it (`Progress`, `Joined`). It has to know
  that pieces which end in CR have another CR behind them in the buffer: bufio's
  `ReadLine` gives a full buffer out without a CR at its end, and only because that
  CR is kept back is a line end never split. A line is refused only when what is
  pending is longer than the limit (`PendingLong`). What the k-th line of a stream
  is, is defined by its LFs; `NextLF` and `LFIs` say how the definition goes from one
  LF to the next.
- `ParseIntExact`, under `WideInt`: `10 * MaxVal + 9 <= MaxInt`, which a 64-bit int
  meets with the limit 2^31 - 1. After every digit the loop has either failed or
  holds the value of the digits so far, and once the value is over the limit no
  further digit leads back (`ParseIs`). Without the hypothesis the statement is
  false: conn.go:1129 above.
- `CredentialsKept`, of `CredentialsArrive`: NUL by NUL the loop of `splitNull` gives
  the parts the client joined (`SplitRun`, `FrameSplits`), and a part with a NUL of
  its own makes their number wrong, so the whole is refused and never read as other
  credentials (`ThreeNULs`, `FrameBroken`). For the command lines of USER and PASS
  `TrimIs`, `VerbIs` and `ArgumentIs` say that the argument the server finds is the one
  that was sent but for white space at its end, and `NameIs` that the name USER takes
  from it is the first word of the one that was given.
- `InternalTextKept`: the text of an error is built and sanitized piece by piece,
  for any depth of wrapping (`Sanitized`, `FirstErrorIs`).

The last three go through `Returned`: what a call has returned is what its function
gives for its arguments.

`Induction` is what the proofs about loops rest on. The induction theorems of the
library have an operator as parameter, which the provers cannot instantiate;
`InductiveSet` says the same of a set, and `LoopFunction` that a recursive function
over an interval exists, from which its equations follow; `LoopIs` says that a
function which takes the same turns is that loop.

The assumptions are `OptionsAssumption`, `CapabilitiesAssumption`,
`MaildropAssumption`, `TransferAssumption`, `ClientAssumption` (the constants have
their types; there is at least one operation), `ServerAssumption` (finitely
many connections, a nil that is no listener), `LineReaderAssumption` (a buffer holds
at least two octets, as bufio's always does), `ParseIntAssumption` (the limit fits
the int) and `ConversionsAssumption` (arguments are sequences of characters).

Only model-checked: the liveness properties `AbandonedConnEnds`,
`AbsoluteTimeoutEnds`, `CloseTerminates`, `CloseEndsServe`, `ContextEnds` and
`GuardsEnd`, since fairness and ENABLED are out of the prover's reach. Every
invariant, every action property and both refinements of the passing runs are
theorems as well.

## Not modelled

- A panic of `OnPanic` or of the Logger, and a NewSession that returns no session
  and no error: the first ends the process, the second is a fault of the consumer.
- The context's effect on consumer code (a Session method told to give up).
- `ListenAndServe` failing to listen; `ServeConn` is `Conn` without `Server`.
- The numbers the client parses from STAT, LIST and UIDL lines and Base64 (calls of
  the standard library), and the text of an XCLIENT command (its parameters one
  after the other).
- `SizedBody` itself, which carries a number past an interface; what an embedding
  server has to announce follows from `BodyArrives`.
- Wording: banners, error texts, logging. `pop3.go` declares types only.
