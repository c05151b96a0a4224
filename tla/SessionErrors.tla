--------------------------- MODULE SessionErrors ---------------------------
(***************************************************************************)
(* From an error of a Session method, or of Options.NewSession, to the     *)
(* "-ERR" line and the end of the connection: sessionError and err in      *)
(* conn.go, the rejection in ServeConn (server.go), Error and its          *)
(* wireMessage in errors.go.                                               *)
(*                                                                         *)
(* An error wraps others (fmt.Errorf with one or several %w, errors.Join); *)
(* it is the sequence of what errors.Is and errors.As meet in it.  Texts   *)
(* are sequences of pieces: "code", "own" (an *Error's Message),           *)
(* "internal" (any other error's text), "generic" ("internal error"),      *)
(* "reject" (RejectMessage) and line breaks.                               *)
(***************************************************************************)
EXTENDS Integers, Sequences

\* What an error may wrap: an *Error, a sentinel, or anything else.
Perr == [type : {"Error"}, code : BOOLEAN, text : {<<>>, <<"own">>, <<"own", "NL", "own">>},
         close : BOOLEAN]
Leaf == Perr \cup [type : {"plain", "ErrCloseConnection", "ErrSilentReject"}]

\* errors.Is and errors.As.
has(err, type) == \E i \in 1..Len(err) : err[i].type = type
firstError(err) ==
    err[CHOOSE i \in 1..Len(err) :
            err[i].type = "Error" /\ \A j \in 1..(i - 1) : err[j].type # "Error"]

wireMessage(e) ==
    (IF e.code THEN <<"code">> ELSE <<>>)
        \o (IF e.text = <<>> THEN <<"generic">> ELSE e.text)

\* err.Error(): the texts of all it wraps, with line breaks as errors.Join puts them.
leafText(l) == IF l.type = "Error" THEN wireMessage(l) ELSE <<"internal">>

errorText(err) ==
    LET upTo[i \in 0..Len(err)] ==
            IF i = 0 THEN <<>>
            ELSE upTo[i - 1] \o (IF i = 1 THEN <<>> ELSE <<"NL">>) \o leafText(err[i])
    IN  upTo[Len(err)]

\* CR and LF are stripped, everything else is kept in its order.
sanitizeResponse(t) ==
    LET upTo[i \in 0..Len(t)] ==
            IF i = 0 THEN <<>>
            ELSE IF t[i] = "NL" THEN upTo[i - 1] ELSE Append(upTo[i - 1], t[i])
    IN  upTo[Len(t)]

\* What is written after "-ERR ", and whether the connection is closed after it.
respond(text, close) == [wire |-> sanitizeResponse(text), closed |-> close]

\* Mutant: the text of the whole error is sent for an *Error inside it.
sessionErrorWholeText(err, strict) ==
    IF has(err, "Error") THEN respond(errorText(err), firstError(err).close)
    ELSE IF has(err, "ErrCloseConnection") THEN respond(<<"generic">>, TRUE)
    ELSE respond(IF strict THEN <<"generic">> ELSE errorText(err), FALSE)

sessionError(err, strict) ==
    IF has(err, "Error") THEN respond(wireMessage(firstError(err)), firstError(err).close)
    ELSE IF has(err, "ErrCloseConnection") THEN respond(<<"generic">>, TRUE)
    ELSE respond(IF strict THEN <<"generic">> ELSE errorText(err), FALSE)

\* ServeConn, when NewSession returns an error: silence or a banner, and the
\* connection is closed.
reject(err) ==
    IF has(err, "ErrSilentReject") THEN [wire |-> <<>>, closed |-> TRUE]
    ELSE respond(IF has(err, "Error") THEN wireMessage(firstError(err)) ELSE <<"reject">>,
                 TRUE)
=============================================================================
