------------------------------ MODULE Maildrop ------------------------------
(***************************************************************************)
(* pop3mem.Store and its sessions (pop3mem/store.go): accounts with their  *)
(* message lists behind one mutex, and any number of sessions, each with a *)
(* snapshot of its user's list taken at login and a set of marked numbers. *)
(*                                                                         *)
(* Every method of the Store runs under Store.mu and is one step; what a   *)
(* session keeps is touched by its own goroutine only.  A *Message is      *)
(* identified by when it was added: message m is the m-th call of          *)
(* AddMessage.  The command loop calls a session as SessionContract says:  *)
(* nothing but Close after Quit.                                           *)
(***************************************************************************)
EXTENDS Integers, Sequences, FiniteSets, SequencesExt

CONSTANTS
    Users, Passwords, Sessions,
    NoAccount,      \* the password of a user that does not exist
    MaxMessages     \* bound: calls of AddMessage

ASSUME MaildropAssumption ==
    /\ NoAccount \notin Passwords
    /\ Users # {}
    /\ MaxMessages \in Nat

VARIABLES
    password,       \* account.password, NoAccount if the user is not in Store.users
    messages,       \* account.messages
    arrived,        \* calls of AddMessage so far
    phase,          \* where a session is: "none", "auth", "trans", "quit" or "done"
    username,       \* session.username
    msgs,           \* session.msgs, the snapshot
    deleted,        \* session.deleted
    \* history
    shown,          \* per session, the pairs (number, message) its client was shown
    expunged,       \* per session, the messages its Quit removed and counted
    wiped,          \* messages that went with a replaced account
    stale           \* sessions whose account was replaced after their login

storeVars   == <<password, messages, arrived>>
sessionVars == <<phase, username, msgs, deleted>>
historyVars == <<shown, expunged, wiped, stale>>

mvars == <<storeVars, sessionVars, historyVars>>

------------------------------------------------------------------------------
(* The store.                                                                *)

\* The user is created, or replaced together with its messages.
AddUser(u, p) ==
    /\ password' = [password EXCEPT ![u] = p]
    /\ messages' = [messages EXCEPT ![u] = <<>>]
    /\ wiped' = wiped \cup ToSet(messages[u])
    /\ stale' = stale \cup {s \in Sessions : phase[s] = "trans" /\ username[s] = u}
    /\ UNCHANGED <<arrived, sessionVars, shown, expunged>>

\* Unknown users are refused.
AddMessage(u) ==
    /\ password[u] # NoAccount
    /\ arrived < MaxMessages
    /\ arrived' = arrived + 1
    /\ messages' = [messages EXCEPT ![u] = Append(@, arrived + 1)]
    /\ UNCHANGED <<password, sessionVars, historyVars>>

\* The comparison with dummyPassword, which no client can send, fails.
authenticate(u, p) == password[u] = p

\* The loop of expunge: what is not to be removed is kept, in its order.
without(list, remove) ==
    LET kept[i \in 0..Len(list)] ==
            IF i = 0 THEN <<>>
            ELSE IF list[i] \in remove THEN kept[i - 1]
            ELSE Append(kept[i - 1], list[i])
    IN  kept[Len(list)]

\* Mutant: the last message is moved into the place of a removed one.
expungeSwapping(u, remove) ==
    LET list == without(messages[u], remove)
    IN  IF remove = {} \/ list = <<>> THEN list
        ELSE <<Last(list)>> \o Front(list)

\* Removal by identity from the account of that name, if there is one.
expunge(u, remove) ==
    IF password[u] = NoAccount THEN messages[u] ELSE without(messages[u], remove)

------------------------------------------------------------------------------
(* The sessions.                                                             *)

NewSession(s) ==
    /\ phase[s] = "none"
    /\ phase' = [phase EXCEPT ![s] = "auth"]
    /\ UNCHANGED <<storeVars, username, msgs, deleted, historyVars>>

\* Login and AuthenticatePlain: nothing changes if the credentials are wrong.
Login(s, u, p) ==
    /\ phase[s] = "auth"
    /\ authenticate(u, p)
    /\ phase' = [phase EXCEPT ![s] = "trans"]
    /\ username' = [username EXCEPT ![s] = u]
    /\ msgs' = [msgs EXCEPT ![s] = messages[u]]
    /\ UNCHANGED <<storeVars, deleted, historyVars>>

\* Mutant: numbers are looked up in the maildrop as it is now.
msgAtLive(s, n) ==
    LET now == messages[username[s]] IN IF n <= Len(now) THEN now[n] ELSE 0

\* The message behind a number.
msgAt(s, n) == msgs[s][n]

\* The numbers that are in range and not marked.
numbers(s) == 1..Len(msgs[s]) \ deleted[s]

Show(s, ns) == shown' = [shown EXCEPT ![s] = @ \cup {<<n, msgAt(s, n)>> : n \in ns}]

\* Stat, List and Uidl of the whole maildrop.
ListAll(s) ==
    /\ phase[s] = "trans"
    /\ Show(s, numbers(s))
    /\ UNCHANGED <<storeVars, sessionVars, expunged, wiped, stale>>

\* List and Uidl of one message, Retr, Top; refused for any other number.
Query(s, n) ==
    /\ phase[s] = "trans"
    /\ n \in numbers(s)
    /\ Show(s, {n})
    /\ UNCHANGED <<storeVars, sessionVars, expunged, wiped, stale>>

Dele(s, n) ==
    /\ phase[s] = "trans"
    /\ n \in numbers(s)
    /\ deleted' = [deleted EXCEPT ![s] = @ \cup {n}]
    /\ UNCHANGED <<storeVars, phase, username, msgs, historyVars>>

Rset(s) ==
    /\ phase[s] = "trans"
    /\ deleted' = [deleted EXCEPT ![s] = {}]
    /\ UNCHANGED <<storeVars, phase, username, msgs, historyVars>>

\* The messages a Quit is to remove.
removals(s) == {msgs[s][n] : n \in deleted[s] \cap (1..Len(msgs[s]))}

\* Mutant: Quit counts the marks instead of the removed messages.
QuitCountsMarks(s) ==
    LET u == username[s]
    IN  /\ phase[s] = "trans"
        /\ phase' = [phase EXCEPT ![s] = "quit"]
        /\ messages' = [messages EXCEPT ![u] = expunge(u, removals(s))]
        /\ expunged' = [expunged EXCEPT ![s] = removals(s)]
        /\ UNCHANGED <<password, arrived, username, msgs, deleted, shown, wiped, stale>>

Quit(s) ==
    LET u == username[s]
    IN  /\ phase[s] = "trans"
        /\ phase' = [phase EXCEPT ![s] = "quit"]
        /\ messages' = [messages EXCEPT ![u] = expunge(u, removals(s))]
        /\ expunged' = [expunged EXCEPT ![s] = ToSet(messages[u]) \ ToSet(messages'[u])]
        /\ UNCHANGED <<password, arrived, username, msgs, deleted, shown, wiped, stale>>

\* Mutant: deletions are committed when the connection is lost.
CloseCommits(s) ==
    LET u == username[s]
    IN  /\ phase[s] \in {"auth", "trans", "quit"}
        /\ phase' = [phase EXCEPT ![s] = "done"]
        /\ messages' = IF phase[s] = "trans"
                       THEN [messages EXCEPT ![u] = expunge(u, removals(s))]
                       ELSE messages
        /\ UNCHANGED <<password, arrived, username, msgs, deleted, historyVars>>

\* The end of the connection, with or without a QUIT before it: Close commits nothing.
Close(s) ==
    /\ phase[s] \in {"auth", "trans", "quit"}
    /\ phase' = [phase EXCEPT ![s] = "done"]
    /\ UNCHANGED <<storeVars, username, msgs, deleted, historyVars>>

------------------------------------------------------------------------------

Init ==
    /\ password = [u \in Users |-> NoAccount]
    /\ messages = [u \in Users |-> <<>>]
    /\ arrived = 0
    /\ phase = [s \in Sessions |-> "none"]
    /\ username = [s \in Sessions |-> CHOOSE u \in Users : TRUE]
    /\ msgs = [s \in Sessions |-> <<>>]
    /\ deleted = [s \in Sessions |-> {}]
    /\ shown = [s \in Sessions |-> {}]
    /\ expunged = [s \in Sessions |-> {}]
    /\ wiped = {} /\ stale = {}

SessionStep(s) ==
    \/ NewSession(s) \/ ListAll(s) \/ Rset(s) \/ Quit(s) \/ Close(s)
    \/ \E u \in Users, p \in Passwords : Login(s, u, p)
    \/ \E n \in 1..MaxMessages : Query(s, n) \/ Dele(s, n)

Next ==
    \/ \E u \in Users : AddMessage(u) \/ \E p \in Passwords : AddUser(u, p)
    \/ \E s \in Sessions : SessionStep(s)

Spec == Init /\ [][Next]_mvars

------------------------------------------------------------------------------
(* Properties.                                                               *)

\* A list in the order of arrival.
inOrder(list) == \A i, j \in 1..Len(list) : i < j => list[i] < list[j]

(* Every variable of the store and its sessions keeps its type; marked       *)
(* numbers are numbers of the snapshot.                                      *)
MaildropTypeOK ==
    /\ password \in [Users -> Passwords \cup {NoAccount}]
    /\ messages \in [Users -> Seq(1..arrived)]
    /\ arrived \in 0..MaxMessages
    /\ phase \in [Sessions -> {"none", "auth", "trans", "quit", "done"}]
    /\ username \in [Sessions -> Users]
    /\ msgs \in [Sessions -> Seq(1..arrived)]
    /\ \A u \in Users : inOrder(messages[u])
    /\ deleted \in [Sessions -> SUBSET Nat]
    /\ \A s \in Sessions : inOrder(msgs[s]) /\ deleted[s] \subseteq 1..Len(msgs[s])
    /\ shown \in [Sessions -> SUBSET (Nat \X (1..arrived))]
    /\ expunged \in [Sessions -> SUBSET (1..arrived)]
    /\ wiped \subseteq 1..arrived
    /\ stale \subseteq Sessions

\* Where a message is: its places in the lists, the sessions whose Quit counted it.
inLists(m) == {p \in Users \X (1..MaxMessages) :
                   p[2] <= Len(messages[p[1]]) /\ messages[p[1]][p[2]] = m}
countedBy(m) == {s \in Sessions : m \in expunged[s]}

(* No message is lost or counted twice: each one ever added is once in one   *)
(* maildrop, or was counted by exactly one Quit, or went with a replaced     *)
(* account, whatever two sessions over the same maildrop do.  A session that *)
(* outlives its account (AddUser replaced it) removes nothing from the new   *)
(* one, although it finds it under the same name.                            *)
Accounted ==
    /\ \A m \in 1..arrived :
          Cardinality(inLists(m)) + Cardinality(countedBy(m))
              + (IF m \in wiped THEN 1 ELSE 0) = 1
    /\ \A s \in stale : expunged[s] = {}

(* A number means the same message for the whole session, while other        *)
(* sessions expunge and new mail arrives: no client is ever shown two        *)
(* messages under one number.                                                *)
NumbersKeepMeaning ==
    \A s \in Sessions : \A x, y \in shown[s] : x[1] = y[1] => x[2] = y[2]

stageOf(s) == CASE phase[s] \in {"none", "auth"} -> "out"
                [] phase[s] = "trans"            -> "in"
                [] phase[s] = "quit"             -> "committed"
                [] OTHER                         -> "gone"

Abstract ==
    INSTANCE Mailbox WITH
        box    <- [u \in Users |-> ToSet(messages[u])],
        ever   <- arrived,
        stage  <- [s \in Sessions |-> stageOf(s)],
        owner  <- username,
        view   <- [s \in Sessions |-> ToSet(msgs[s])],
        marked <- [s \in Sessions |-> removals(s)]

(* The store implements Mailbox: Quit commits exactly the session's marks,   *)
(* Rset forgets them, a lost connection commits none, and nothing removed    *)
(* comes back.                                                               *)
ImplementsMailbox == Abstract!MailboxSpec
=============================================================================
