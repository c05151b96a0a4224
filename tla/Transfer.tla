------------------------------ MODULE Transfer ------------------------------
(***************************************************************************)
(* A message body on its way: from the Session's reader through io.Copy    *)
(* and dotStuffWriter (pop3server/dotstuff.go, handleRetr and handleTop in *)
(* conn.go), over the connection, to bodyReader (pop3client/commands.go)   *)
(* and its caller.                                                         *)
(*                                                                         *)
(* Octets are CR, LF, "." and one other.  Each output octet of the writer  *)
(* is delivered by itself, so that a connection that breaks may break      *)
(* between any two of them; when nothing breaks this is the same as        *)
(* delivering whole buffers.                                               *)
(***************************************************************************)
EXTENDS TopLines

CONSTANTS
    Bodies,         \* the messages RETR is asked for
    TopBodies,      \* the messages TOP is asked for
    MaxTop,         \* bound: the line count of TOP
    MaxChunk,       \* bound: octets in one Read of the Session's reader
    ReadErrors,     \* whether the Session's reader may fail
    WriteErrors     \* whether the connection may break

ASSUME TransferAssumption ==
    /\ Bodies \cup TopBodies \subseteq Seq({"CR", "LF", ".", "x"})
    /\ MaxTop \in Nat /\ MaxChunk \in Nat
    /\ ReadErrors \in BOOLEAN /\ WriteErrors \in BOOLEAN

Octets == {"CR", "LF", ".", "x"}
CRLF   == <<"CR", "LF">>

VARIABLES
    message, top,   \* what the client asks for: the message, and TOP's n or -1 for RETR
    body,           \* what the Session's reader gives
    pos,            \* octets given to dotStuffWriter.Write so far
    left,           \* octets left of the chunk being written
    atLineStart, lastByte,   \* dotStuffWriter
    stage,          \* "copy", "closing", "sent", "aborted" (the server drops the connection) or "broken"
    out,            \* written and not yet delivered
    rline,          \* the line the client is reading
    text,           \* what the caller of bodyReader.Read has got
    rstate          \* "reading", "done" (the terminator), "eof" or "failed"

request == <<message, top, body>>
serverVars == <<request, pos, left, atLineStart, lastByte, stage>>
clientVars == <<rline, text, rstate>>

tvars == <<serverVars, out, clientVars>>

------------------------------------------------------------------------------
(* dotStuffWriter.                                                           *)

\* Mutant: a dot is not stuffed.
encodePlain(b) ==
    IF b = "LF" THEN (IF lastByte = "CR" THEN <<"LF">> ELSE CRLF) ELSE <<b>>

\* What one octet becomes.
encode(b) ==
    IF b = "LF" THEN (IF lastByte = "CR" THEN <<"LF">> ELSE CRLF)
    ELSE IF b = "." /\ atLineStart THEN <<".", ".">>
    ELSE <<b>>

\* One turn of the loop in Write.
WriteByte ==
    LET b == body[pos + 1]
    IN  /\ stage = "copy" /\ left > 0 /\ out = <<>>
        /\ out' = encode(b)
        /\ atLineStart' = (b = "LF")
        /\ lastByte' = b
        /\ pos' = pos + 1 /\ left' = left - 1
        /\ UNCHANGED <<request, stage, clientVars>>

\* Close: the last line is completed, then the terminator.
terminator ==
    (IF atLineStart THEN <<>> ELSE IF lastByte = "CR" THEN <<"LF">> ELSE CRLF)
        \o <<".", "CR", "LF">>

------------------------------------------------------------------------------
(* handleRetr and handleTop: io.Copy and what follows it.                    *)

\* Mutant: every Write starts a line.
NextChunkStartsLine ==
    /\ stage = "copy" /\ left = 0 /\ out = <<>> /\ pos < Len(body)
    /\ left' \in {n \in 1..MaxChunk : n <= Len(body) - pos}
    /\ atLineStart' = TRUE
    /\ UNCHANGED <<request, pos, lastByte, stage, out, clientVars>>

\* Mutant: the whole buffer is written, whatever Read returned.
NextChunkOverruns ==
    /\ stage = "copy" /\ left = 0 /\ out = <<>> /\ pos < Len(body)
    /\ left' \in 1..MaxChunk
    /\ UNCHANGED <<request, pos, atLineStart, lastByte, stage, out, clientVars>>

NextChunk ==
    /\ stage = "copy" /\ left = 0 /\ out = <<>> /\ pos < Len(body)
    /\ left' \in {n \in 1..MaxChunk : n <= Len(body) - pos}
    /\ UNCHANGED <<request, pos, atLineStart, lastByte, stage, out, clientVars>>

EndOfBody ==
    /\ stage = "copy" /\ pos = Len(body) /\ out = <<>>
    /\ stage' = "closing"
    /\ out' = terminator
    /\ UNCHANGED <<request, pos, left, atLineStart, lastByte, clientVars>>

\* The Session's reader fails between two chunks: what was written is flushed,
\* no terminator follows, and the connection is dropped.
BodyFails ==
    /\ ReadErrors
    /\ stage = "copy" /\ left = 0 /\ out = <<>>
    /\ stage' = "aborted"
    /\ UNCHANGED <<request, pos, left, atLineStart, lastByte, out, clientVars>>

\* A write fails: what was not delivered is lost, the connection dropped.
Break ==
    /\ WriteErrors
    /\ stage \in {"copy", "closing"}
    /\ stage' = "broken" /\ out' = <<>>
    /\ UNCHANGED <<request, pos, left, atLineStart, lastByte, clientVars>>

------------------------------------------------------------------------------
(* bodyReader over bufio.ReadLine.                                           *)

\* Mutant: every leading dot is removed.
unstuffLineTwice(l) ==
    LET once == IF l # <<>> /\ l[1] = "." THEN Tail(l) ELSE l
    IN  IF once # <<>> /\ once[1] = "." THEN Tail(once) ELSE once

unstuffLine(l) == IF l # <<>> /\ l[1] = "." THEN Tail(l) ELSE l

\* bufio.ReadLine: the LF goes, and a CR before it.
chomp(l) == IF l # <<>> /\ l[Len(l)] = "CR" THEN SubSeq(l, 1, Len(l) - 1) ELSE l

\* bodyReader.Read: the terminator, or a line for the caller.  (A line longer than
\* MaxLineLength, client.go:335, is an error that ends the read like a failed one.)
Accept(l) ==
    /\ rline' = <<>>
    /\ IF l = <<".">>
       THEN rstate' = "done" /\ UNCHANGED text
       ELSE text' = text \o unstuffLine(l) \o CRLF /\ UNCHANGED rstate

\* The next octet arrives.
Deliver ==
    /\ out # <<>>
    /\ out' = Tail(out)
    /\ stage' = IF stage = "closing" /\ Len(out) = 1 THEN "sent" ELSE stage
    /\ IF rstate # "reading" THEN UNCHANGED clientVars
       ELSE IF Head(out) = "LF" THEN Accept(chomp(rline))
       ELSE rline' = Append(rline, Head(out)) /\ UNCHANGED <<text, rstate>>
    /\ UNCHANGED <<request, pos, left, atLineStart, lastByte>>

dropped == stage \in {"aborted", "broken"}

\* The end of the connection in the middle of a line: ReadLine returns what it
\* has as a line, without an error.
HalfLine ==
    /\ dropped /\ out = <<>> /\ rstate = "reading" /\ rline # <<>>
    /\ Accept(rline)
    /\ UNCHANGED <<serverVars, out>>

\* The end of the connection is io.EOF, which Read returns like the end of the
\* body, or another error.
ConnectionEnds ==
    /\ dropped /\ out = <<>> /\ rstate = "reading" /\ rline = <<>>
    /\ rstate' \in {"eof", "failed"}
    /\ UNCHANGED <<serverVars, out, rline, text>>

------------------------------------------------------------------------------

Init ==
    /\ \/ message \in Bodies /\ top = -1 /\ body = message
       \/ message \in TopBodies /\ top \in 0..MaxTop /\ body = topBytes(message, top)
    /\ pos = 0 /\ left = 0
    /\ atLineStart = TRUE /\ lastByte = "none"
    /\ stage = "copy" /\ out = <<>>
    /\ rline = <<>> /\ text = <<>> /\ rstate = "reading"

Terminated == rstate # "reading" /\ out = <<>> /\ UNCHANGED tvars

Next ==
    \/ NextChunk \/ WriteByte \/ EndOfBody \/ BodyFails \/ Break
    \/ Deliver \/ HalfLine \/ ConnectionEnds
    \/ Terminated

Spec == Init /\ [][Next]_tvars

------------------------------------------------------------------------------
(* Properties.                                                               *)

(* Every variable keeps its type, and the chunk never runs past the body.    *)
TransferTypeOK ==
    /\ message \in Seq(Octets) /\ top \in Int
    /\ body \in Seq(Octets) /\ pos \in 0..Len(body) /\ left \in 0..(Len(body) - pos)
    /\ atLineStart \in BOOLEAN /\ lastByte \in Octets \cup {"none"}
    /\ stage \in {"copy", "closing", "sent", "aborted", "broken"}
    /\ out \in Seq(Octets) /\ rline \in Seq(Octets) /\ text \in Seq(Octets)
    /\ rstate \in {"reading", "done", "eof", "failed"}

\* Reference: for each i, the octets b[1..i] with every bare LF made CRLF.
bareLF(b, i) == b[i] = "LF" /\ (i = 1 \/ b[i - 1] # "CR")

normalisedTo(b) ==
    LET upTo[i \in 0..Len(b)] ==
            IF i = 0 THEN <<>>
            ELSE upTo[i - 1] \o (IF bareLF(b, i) THEN CRLF ELSE <<b[i]>>)
    IN  upTo

normalised(b) == normalisedTo(b)[Len(b)]

\* Reference: ... and the last line completed to end in CRLF.
completed(b) ==
    LET n == normalised(b)
    IN  IF n = <<>> \/ n[Len(n)] = "LF" THEN n
        ELSE n \o (IF n[Len(n)] = "CR" THEN <<"LF">> ELSE CRLF)

(* A client that has seen the terminator has got the CRLF-normalised body,   *)
(* its last line completed, whatever the body and however it is cut into     *)
(* chunks (unless the connection broke: half of a stuffed dot looks like the *)
(* terminator, see EOFMeansWhole).                                           *)
BodyArrives == rstate = "done" /\ stage # "broken" => text = completed(body)

(* The client takes a line for the terminator only when the server has sent  *)
(* it, as the last octets of the response; in particular a server that drops *)
(* the connection because the Session's reader failed has not sent one.      *)
TerminatorIsLast ==
    rstate = "done" /\ stage # "broken" => stage = "sent" /\ out = <<>>

(* Whatever breaks and wherever, every line the caller has got is a line of  *)
(* the message, in its place; only the line in which the connection broke    *)
(* may be half of one.                                                       *)
LinesIntact ==
    LET whole == completed(body)
    IN  \A i \in 1..Len(text) :
            text[i] = "LF" /\ (i < Len(text) \/ ~dropped) =>
                i <= Len(whole) /\ SubSeq(text, 1, i) = SubSeq(whole, 1, i)

(* TOP of a message that begins with a header line and has one kind of line  *)
(* end is its header block, the first blank line and the first n lines after *)
(* it, and the client gets them all, completed.                              *)
TopExact ==
    (/\ rstate = "done" /\ stage # "broken" /\ top >= 0
     /\ uniform(message) /\ blanks(message) \cap {1, 2} = {})
        => text = completed(SubSeq(message, 1, topEnd(message, top)))

(* A caller that read to io.EOF has got the whole message.                   *)
EOFMeansWhole == rstate \in {"done", "eof"} => text = completed(body)
=============================================================================
