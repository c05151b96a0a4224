---------------------------- MODULE Conversions ----------------------------
(***************************************************************************)
(* The conversions between text and values on either side of a handler,    *)
(* each called once with every argument from a set: parseInt, the          *)
(* credentials of USER/PASS and AUTH PLAIN from the client's caller to the *)
(* Session, and the responses to errors of a Session and of NewSession.    *)
(***************************************************************************)
EXTENDS ParseInt, Credentials, SessionErrors

CONSTANTS
    Args,                               \* arguments of parseInt
    Identities, Usernames, Passwords,   \* what callers of pop3client give
    MaxWrapped                          \* bound: errors wrapped in one

ASSUME ConversionsAssumption ==
    /\ Args \subseteq Seq(0..9 \cup {-1})
    /\ Identities \cup Usernames \cup Passwords \subseteq Seq(Chars)
    /\ MaxWrapped \in Nat

Errors == UNION {[1..n -> Leaf] : n \in 1..MaxWrapped}

Calls ==
    [fn : {"parseInt"}, s : Args]
        \cup [fn : {"User"}, username : Usernames, password : Passwords]
        \cup [fn : {"AuthPlain"}, identity : Identities, username : Usernames,
              password : Passwords]
        \cup [fn : {"sessionError"}, err : Errors, strict : BOOLEAN]
        \cup [fn : {"reject"}, err : Errors]

NoCall   == [fn |-> "none"]
NoResult == [ok |-> FALSE]

VARIABLES
    call,       \* the function called and its arguments
    result,     \* what it returned
    returned

callVars == <<call, result, returned>>

Return(r) == result' = r /\ returned' = TRUE /\ UNCHANGED call

CallParseInt     == call.fn = "parseInt" /\ ~returned /\ Return(parseInt(call.s))
CallUser         == /\ call.fn = "User" /\ ~returned
                    /\ Return(User(call.username, call.password))
CallAuthPlain    == /\ call.fn = "AuthPlain" /\ ~returned
                    /\ Return(AuthPlain(call.identity, call.username, call.password))
CallSessionError == /\ call.fn = "sessionError" /\ ~returned
                    /\ Return(sessionError(call.err, call.strict))
CallReject       == call.fn = "reject" /\ ~returned /\ Return(reject(call.err))

Call == CallParseInt \/ CallUser \/ CallAuthPlain \/ CallSessionError \/ CallReject

CallInit == call \in Calls /\ result = NoResult /\ returned = FALSE

CallSpec == CallInit /\ [][Call]_callVars

------------------------------------------------------------------------------
(* Properties.                                                               *)

after(fn) == call.fn = fn /\ returned

(* parseInt accepts an argument exactly when it is a number up to MaxVal,    *)
(* and then for the number it is; a larger one is rejected rather than       *)
(* silently wrapping (conn.go:1117).  It holds where int is wider than the   *)
(* limit by a digit, and not where int is no wider than the limit.           *)
ParseExact ==
    after("parseInt") =>
        /\ result.ok <=> isNumber(call.s) /\ value(call.s) <= MaxVal
        /\ result.ok => result.n = value(call.s)

hasNUL(s) == \E i \in 1..Len(s) : s[i] = "NUL"

\* AUTH PLAIN: AuthenticatePlain gets exactly what AuthPlain was given, an empty
\* identity included, and what cannot be framed is refused, never changed.
PlainExact ==
    after("AuthPlain") =>
        /\ result.ok => /\ result.identity = call.identity
                        /\ result.username = call.username
                        /\ result.password = call.password
        /\ ~result.ok => \/ containsCTL(call.identity) \/ containsCTL(call.username)
                         \/ hasNUL(call.password)

\* Places k + 1 to k + n of s are its first word.
wordAt(s, k, n) ==
    /\ n > 0 /\ \A i \in 1..k : s[i] \in Spaces
    /\ \A i \in 1..n : s[k + i] \notin Spaces
    /\ k + n < Len(s) => s[k + n + 1] \in Spaces

\* USER: Login gets the first word of the name the caller gave, and nothing of the
\* white space around it; a name with white space inside is cut there.
UserIsFirstWord ==
    after("User") /\ result.ok =>
        \E k \in 0..Len(call.username) :
            LET n == Len(result.username)
            IN  /\ k + n <= Len(call.username)
                /\ wordAt(call.username, k, n)
                /\ result.username = SubSeq(call.username, k + 1, k + n)

\* PASS: Login gets the password as given but for white space at its end: runs of
\* white space inside it and at its beginning are kept.
PassKeepsWhitespace ==
    after("User") /\ result.ok =>
        LET got == result.password
        IN  /\ Len(got) <= Len(call.password) /\ got = SubSeq(call.password, 1, Len(got))
            /\ \A i \in (Len(got) + 1)..Len(call.password) : call.password[i] \in Spaces

\* A Session that builds a credential frame from the user name and identity it
\* was given finds no control character in them, whichever command they came by.
NamesHaveNoCTL ==
    (after("User") \/ after("AuthPlain")) /\ result.ok =>
        \A c \in CTLs :
            /\ \A i \in 1..Len(result.username) : result.username[i] # c
            /\ \A i \in 1..Len(result.identity) : result.identity[i] # c

(* What the server's Session gets of the credentials a caller of pop3client  *)
(* gives: by AUTH PLAIN (decodeSASLPlain, splitNull) all three as they are,  *)
(* or they are refused; by USER the first word of the name (handleUser keeps *)
(* args[0] only, so "a b" logs in as "a"); by PASS (splitCommand) the        *)
(* password but for white space at its end, which serve trims with the line; *)
(* and never a control character in a name.                                  *)
CredentialsArrive == PlainExact /\ UserIsFirstWord /\ PassKeepsWhitespace /\ NamesHaveNoCTL

wrote(p) == \E i \in 1..Len(result.wire) : result.wire[i] = p

(* Whatever a Session or NewSession returns, the response is one line, and   *)
(* the text of an ordinary error reaches the client only from a Session      *)
(* method, with StrictSessionErrors off, and when it wraps neither an *Error *)
(* nor ErrCloseConnection; NewSession's never does.                          *)
InternalTextStaysInside ==
    /\ after("sessionError") \/ after("reject") => ~wrote("NL")
    /\ after("reject") => ~wrote("internal")
    /\ after("sessionError") /\ wrote("internal") =>
           ~call.strict /\ ~has(call.err, "Error") /\ ~has(call.err, "ErrCloseConnection")
=============================================================================
