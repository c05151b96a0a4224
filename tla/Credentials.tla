---------------------------- MODULE Credentials ----------------------------
(***************************************************************************)
(* What becomes of a user name and a password between a caller of          *)
(* pop3client (User and AuthPlain in client.go) and the Session's Login or *)
(* AuthenticatePlain: the command line the client writes, and how the      *)
(* server takes it apart (serve, splitCommand, handleUser, handlePass,     *)
(* decodeSASLPlain, splitNull, containsCTL in conn.go).                    *)
(*                                                                         *)
(* Text is a sequence of characters: an ordinary one, space, tab, another  *)
(* control character that is white space (VT), white space that is not     *)
(* ASCII (NBSP), NUL and a control character that is no white space.  Line *)
(* ends cannot be part of a credential here, and the Base64 of AUTH PLAIN  *)
(* is undone as it was made.                                               *)
(***************************************************************************)
EXTENDS Integers, Sequences

Chars  == {"a", "SP", "TAB", "VT", "NBSP", "NUL", "CTL"}
Blanks == {"SP", "TAB"}
Spaces == Blanks \cup {"VT", "NBSP"}
CTLs   == {"TAB", "VT", "NUL", "CTL"}

------------------------------------------------------------------------------
(* The text functions.                                                       *)

\* Places of s that are not white space.
solid(s) == {i \in 1..Len(s) : s[i] \notin Spaces}

\* strings.TrimSpace.
trimSpace(s) ==
    IF solid(s) = {} THEN <<>>
    ELSE LET a == CHOOSE i \in solid(s) : \A j \in solid(s) : i <= j
             b == CHOOSE i \in solid(s) : \A j \in solid(s) : i >= j
         IN  SubSeq(s, a, b)

\* The text up to the first of some characters.
textUpTo(s, ends) ==
    LET n == CHOOSE k \in 0..Len(s) :
                 /\ \A i \in 1..k : s[i] \notin ends
                 /\ k < Len(s) => s[k + 1] \in ends
    IN  SubSeq(s, 1, n)

\* strings.Fields(s)[0], or nothing if there is no field.
firstField(s) == textUpTo(trimSpace(s), Spaces)

\* splitCommand: what follows the verb and one delimiter.
rawArg(l) == SubSeq(l, Len(textUpTo(l, Blanks)) + 2, Len(l))

containsCTL(s) == \E i \in 1..Len(s) : s[i] \in CTLs

\* The state of splitNull's loop.
NoParts == [parts |-> <<>>, current |-> <<>>]

\* Mutant: empty parts are left out.
splitOnCompact(w, b) ==
    IF b # "NUL" THEN [w EXCEPT !.current = Append(@, b)]
    ELSE [parts |-> IF w.current = <<>> THEN w.parts ELSE Append(w.parts, w.current),
          current |-> <<>>]

\* One turn of it: a NUL ends a part, an empty one too.
splitOn(w, b) ==
    IF b # "NUL" THEN [w EXCEPT !.current = Append(@, b)]
    ELSE [parts |-> Append(w.parts, w.current), current |-> <<>>]

\* splitNull: the parts between NULs.
splitNull(s) ==
    LET turn[i \in 0..Len(s)] == IF i = 0 THEN NoParts ELSE splitOn(turn[i - 1], s[i])
    IN  Append(turn[Len(s)].parts, turn[Len(s)].current)

------------------------------------------------------------------------------
(* Client and server.                                                        *)

refused == [ok |-> FALSE]

\* The line of a command: the verb is a character of its own.
commandLine(arg) == trimSpace(<<"a", "SP">> \o arg)

\* User sends USER, of which handleUser keeps the first field, then PASS, of
\* which handlePass gives Login the raw argument.
User(username, password) ==
    LET name == firstField(rawArg(commandLine(username)))
        pass == rawArg(commandLine(password))
    IN  IF name = <<>> \/ containsCTL(name) \/ pass = <<>> THEN refused
        ELSE [ok |-> TRUE, identity |-> <<>>, username |-> name, password |-> pass]

\* AuthPlain frames the three; decodeSASLPlain takes the frame apart.
AuthPlain(identity, username, password) ==
    LET parts == splitNull(identity \o <<"NUL">> \o username \o <<"NUL">> \o password)
    IN  IF Len(parts) # 3 THEN refused
        ELSE IF containsCTL(parts[1]) \/ containsCTL(parts[2]) THEN refused
        ELSE [ok |-> TRUE, identity |-> parts[1], username |-> parts[2],
              password |-> parts[3]]
=============================================================================
